--------------------------------- MODULE Dns ---------------------------------
(* Name lookups of runtime/sl_net.c: a task queues a job for the resolver    *)
(* thread and waits on a pipe; whichever of the two gives the job up last    *)
(* frees it.  Jobs and pipes are named by their addresses and numbers, and   *)
(* the lowest free one is used next, so that a freed one is soon another's.  *)
EXTENDS Naturals, Sequences, FiniteSets, SequencesExt

CONSTANTS
    Tasks,
    NumJobs,     \* addresses calloc may return
    NumPipes,    \* pipes the process may have open
    MaxRecords,  \* SL_DNS_MAX_OUTSTANDING_RECORDS
    None

VARIABLES
    job,         \* the allocated jobs: kind, state, wake_wr
    pipe,        \* per pipe: the open ends, and whether the wake byte is in it
    queue,       \* sl_dns_head .. sl_dns_tail
    slots,       \* sl_dns_record_slots
    resolver,    \* what the resolver thread is at, with the job and the pipe it holds
    pc, call     \* per task: where it is in the lookup, and what it holds

vars == <<job, pipe, queue, slots, resolver, pc, call>>

Jobs == 1..NumJobs
Pipes == 1..NumPipes
Kinds == {"addr", "record"}
NoPipe == [ends |-> {}, byte |-> FALSE]
Idle == [at |-> "idle", job |-> None, wake |-> None]
NoCall == [kind |-> "addr", job |-> None, rd |-> None, dl |-> FALSE]

Init ==
    /\ job = [j \in Jobs |-> None]
    /\ pipe = [p \in Pipes |-> NoPipe]
    /\ queue = << >> /\ slots = 0
    /\ resolver = Idle
    /\ pc = [t \in Tasks |-> "out"] /\ call = [t \in Tasks |-> NoCall]

Goto(t, l) == pc' = [pc EXCEPT ![t] = l]

(* Every way out of a lookup forgets the call. *)
Returns(t) == Goto(t, "out") /\ call' = [call EXCEPT ![t] = NoCall]

Close(p, end) == [pipe EXCEPT ![p] = IF @.ends = {end} THEN NoPipe
                                     ELSE [@ EXCEPT !.ends = @ \ {end}]]

-------------------------------------------------------------------------------
(* sl_dns_lookup_until and sl_dns_query_until. *)

(* A record query first reserves one of the outstanding records. *)
Start(t) ==
    /\ pc[t] = "out"
    /\ \E k \in Kinds, dl \in BOOLEAN :
        /\ call' = [call EXCEPT ![t] = [NoCall EXCEPT !.kind = k, !.dl = dl]]
        /\ \/ k = "addr" /\ UNCHANGED slots
           \/ k = "record" /\ slots < MaxRecords /\ slots' = slots + 1
    /\ Goto(t, "create")
    /\ UNCHANGED <<job, pipe, queue, resolver>>

ReleaseSlot(k) ==
    IF k = "record" /\ slots > 0 THEN slots' = slots - 1 ELSE UNCHANGED slots

Lowest(S) == {i \in S : \A k \in S : i <= k}

(* The job and its pipe, onto the queue; or no memory, or no pipe. *)
Create(t) ==
    /\ pc[t] = "create"
    /\ \/ \E j \in Lowest({i \in Jobs : job[i] = None}),
             p \in Lowest({i \in Pipes : pipe[i] = NoPipe}) :
            /\ job' = [job EXCEPT ![j] = [kind |-> call[t].kind, state |-> 0, wake |-> p]]
            /\ pipe' = [pipe EXCEPT ![p] = [ends |-> {"rd", "wr"}, byte |-> FALSE]]
            /\ queue' = Append(queue, j)
            /\ call' = [call EXCEPT ![t].job = j, ![t].rd = p]
            /\ Goto(t, "wait")
            /\ UNCHANGED slots
       \/ /\ Returns(t)
          /\ ReleaseSlot(call[t].kind)
          /\ UNCHANGED <<job, pipe, queue>>
    /\ UNCHANGED resolver

(* sl_reactor_wait_until on the pipe: 0 for any reason, -1 on a shutdown     *)
(* (the wait's own answer once it has parked), -2 at the deadline.  -1 ends  *)
(* a record query as -2 does; an address lookup reads the pipe.              *)
Wait(t) ==
    /\ pc[t] = "wait"
    /\ \/ Goto(t, "read")
       \/ call[t].kind = "record" /\ Goto(t, "abandon")
       \/ call[t].dl /\ Goto(t, "abandon")
    /\ UNCHANGED <<job, pipe, queue, slots, resolver, call>>

(* Mutant: a store where the code exchanges. *)
AbandonAlways(t) ==
    /\ pc[t] = "abandon"
    /\ job' = [job EXCEPT ![call[t].job].state = 2]
    /\ pipe' = Close(call[t].rd, "rd")
    /\ Returns(t)
    /\ UNCHANGED <<queue, slots, resolver>>

(* The exchange 0 -> 2 that leaves the job to the resolver.  If the job is   *)
(* done, a record query takes the answer and an address lookup goes on to    *)
(* wait for the byte.                                                        *)
Abandon(t) ==
    /\ pc[t] = "abandon"
    /\ LET j == call[t].job
       IN  \/ /\ job[j].state = 0
              /\ job' = [job EXCEPT ![j].state = 2]
              /\ pipe' = Close(call[t].rd, "rd")
              /\ Returns(t)
           \/ /\ job[j].state # 0
              /\ call' = [call EXCEPT ![t].dl = FALSE]
              /\ Goto(t, IF call[t].kind = "record" THEN "finish" ELSE "read")
              /\ UNCHANGED <<job, pipe>>
    /\ UNCHANGED <<queue, slots, resolver>>

(* The read of the wake byte: it is there, it is not, or the pipe has ended. *)
Read(t) ==
    /\ pc[t] = "read"
    /\ LET p == call[t].rd
       IN  \/ pipe[p].byte /\ Goto(t, "finish") /\ pipe' = [pipe EXCEPT ![p].byte = FALSE]
           \/ /\ ~pipe[p].byte /\ "wr" \in pipe[p].ends
              /\ Goto(t, "wait") /\ UNCHANGED pipe
           \/ /\ ~pipe[p].byte /\ "wr" \notin pipe[p].ends
              /\ Goto(t, IF call[t].kind = "record" THEN "abandon" ELSE "finish")
              /\ UNCHANGED pipe
    /\ UNCHANGED <<job, queue, slots, resolver, call>>

(* Close the pipe, take the answer and free the job. *)
Finish(t) ==
    /\ pc[t] = "finish"
    /\ pipe' = Close(call[t].rd, "rd")
    /\ job' = [job EXCEPT ![call[t].job] = None]
    /\ ReleaseSlot(call[t].kind)
    /\ Returns(t)
    /\ UNCHANGED <<queue, resolver>>

-------------------------------------------------------------------------------
(* sl_dns_thread. *)

(* Mutant: the rest of the queue is dropped. *)
TakeOnly ==
    /\ resolver.at = "idle" /\ queue # << >>
    /\ resolver' = [at |-> "query", job |-> Head(queue), wake |-> None]
    /\ queue' = << >>
    /\ UNCHANGED <<job, pipe, slots, pc, call>>

(* Take the oldest job. *)
Take ==
    /\ resolver.at = "idle" /\ queue # << >>
    /\ resolver' = [at |-> "query", job |-> Head(queue), wake |-> None]
    /\ queue' = Tail(queue)
    /\ UNCHANGED <<job, pipe, slots, pc, call>>

(* The query returns; wake_wr is read while the job is still this thread's. *)
Query ==
    /\ resolver.at = "query"
    /\ resolver' = [resolver EXCEPT !.at = "hand", !.wake = job[resolver.job].wake]
    /\ UNCHANGED <<job, pipe, queue, slots, pc, call>>

(* Mutants: an abandoned job's pipe, or its slot, is forgotten. *)
HandOverKeeps(close, release) ==
    /\ resolver.at = "hand"
    /\ LET j == resolver.job
       IN  \/ /\ job[j].state = 0
              /\ job' = [job EXCEPT ![j].state = 1]
              /\ resolver' = [resolver EXCEPT !.at = "wake", !.job = None]
              /\ UNCHANGED <<pipe, slots>>
           \/ /\ job[j].state # 0
              /\ IF release THEN ReleaseSlot(job[j].kind) ELSE UNCHANGED slots
              /\ pipe' = IF close THEN Close(job[j].wake, "wr") ELSE pipe
              /\ job' = [job EXCEPT ![j] = None]
              /\ resolver' = Idle
    /\ UNCHANGED <<queue, pc, call>>
HandOverLeaks == HandOverKeeps(FALSE, TRUE)
HandOverKeepsSlot == HandOverKeeps(TRUE, FALSE)

(* The exchange 0 -> 1 that leaves the job to the task, or the end of a job  *)
(* nobody waits for.                                                         *)
HandOver ==
    /\ resolver.at = "hand"
    /\ LET j == resolver.job
       IN  \/ /\ job[j].state = 0
              /\ job' = [job EXCEPT ![j].state = 1]
              /\ resolver' = [resolver EXCEPT !.at = "wake", !.job = None]
              /\ UNCHANGED <<pipe, slots>>
           \/ /\ job[j].state # 0
              /\ ReleaseSlot(job[j].kind)
              /\ pipe' = Close(job[j].wake, "wr")
              /\ job' = [job EXCEPT ![j] = None]
              /\ resolver' = Idle
    /\ UNCHANGED <<queue, pc, call>>

(* The wake byte, then the close of the pipe's end. *)
Wake ==
    /\ resolver.at \in {"wake", "close"}
    /\ LET p == resolver.wake
       IN  \/ /\ resolver.at = "wake"
              /\ pipe' = IF "rd" \in pipe[p].ends THEN [pipe EXCEPT ![p].byte = TRUE] ELSE pipe
              /\ resolver' = [resolver EXCEPT !.at = "close"]
           \/ /\ resolver.at = "close"
              /\ pipe' = Close(p, "wr")
              /\ resolver' = Idle
    /\ UNCHANGED <<job, queue, slots, pc, call>>

Resolver == Take \/ Query \/ HandOver \/ Wake
Goes(t) == Create(t) \/ Wait(t) \/ Abandon(t) \/ Read(t) \/ Finish(t)

Next == Resolver \/ \E t \in Tasks : Start(t) \/ Goes(t)

Spec == Init /\ [][Next]_vars

(* libc's query returns, the reactor ends each wait (at the latest once the  *)
(* pipe is readable), and workers run their tasks; no task has to look up.   *)
Fairness ==
    /\ WF_vars(Resolver)
    /\ \A t \in Tasks : WF_vars(Goes(t))
FairSpec == Spec /\ Fairness

-------------------------------------------------------------------------------
Held == ToSet(queue) \cup ({resolver.job} \ {None})
HoldersOf(j) == {t \in Tasks : call[t].job = j}

(* A job exists as long as somebody will look at it, and not longer: the     *)
(* resolver's and the queue's jobs are allocated, once each, with one task   *)
(* waiting or none if it gave up; a task's job is its own; and no job is     *)
(* left that neither side holds.                                             *)
JobHasOneOwner ==
    /\ IsInjective(queue) /\ (resolver.job # None => resolver.job \notin ToSet(queue))
    /\ \A j \in Jobs :
        /\ j \in Held => /\ job[j] # None
                         /\ job[j].state # 1
                         /\ Cardinality(HoldersOf(j)) = IF job[j].state = 0 THEN 1 ELSE 0
        /\ j \notin Held => IF job[j] = None THEN HoldersOf(j) = {}
                            ELSE job[j].state = 1 /\ Cardinality(HoldersOf(j)) = 1

(* Each end of a pipe is open while the side that closes it still holds it:  *)
(* no end is closed twice, when its number may be another's, and none leaks. *)
EndsAreOwned ==
    \A p \in Pipes :
        /\ "rd" \in pipe[p].ends <=> \E t \in Tasks : call[t].rd = p
        /\ "wr" \in pipe[p].ends <=> \/ \E j \in Held : job[j].wake = p
                                     \/ resolver.at \in {"wake", "close"} /\ resolver.wake = p

(* A slot is taken for every record query under way, also one whose task has *)
(* given up and whose query has not returned.                                *)
SlotsBalance ==
    slots = Cardinality({j \in Jobs : job[j] # None /\ job[j].kind = "record"})
          + Cardinality({t \in Tasks : pc[t] = "create" /\ call[t].kind = "record"})

(* Every lookup ends. *)
LookupEnds ==
    \A t \in Tasks : pc[t] # "out" ~> pc[t] = "out"
===============================================================================
