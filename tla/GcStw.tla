--------------------------------- MODULE GcStw ---------------------------------
(***************************************************************************)
(* How the collector stops the world (runtime/sl_gc.c).  Threads register;  *)
(* a thread that finds a collection requested at a safepoint collects       *)
(* itself or acknowledges the running cycle and waits.  The collector       *)
(* raises the stop, takes a snapshot of the registry and waits until every  *)
(* thread in it has acknowledged or is blocked.  A minor may chain into a   *)
(* major without letting the world run.  A step is one atomic access or one *)
(* locked section.                                                          *)
(***************************************************************************)
EXTENDS Integers, FiniteSets

CONSTANTS Threads, Nobody,
          MaxCycle      \* bound: collections in a run

ASSUME GcStwAssumption == Nobody \notin Threads /\ MaxCycle \in Nat

VARIABLES registered,   \* sl_gc_threads
          stop,         \* sl_gc_stop_requested
          cycle,        \* sl_gc_cycle
          collecting,   \* sl_gc_collecting
          minor, major, \* sl_gc_collect_minor_pending, sl_gc_collect_pending
          mu,           \* holder of sl_gc_mu (and of the parked shards)
          stwMu,        \* holder of sl_gc_stw_mu while the stop is raised
          blocked,      \* sl_rt_gc_blocked
          acked,        \* sl_rt_gc_acked_cycle
          pc,
          seen,         \* the cycle a thread last read
          kind,         \* what a collector collects
          snap, left,   \* a collector's snapshot, and who it still waits for
          then          \* what a thread does after waiting out a pause

flags == <<stop, cycle, collecting, minor, major>>
locks == <<mu, stwMu>>
shared == <<registered, flags, locks, blocked, acked>>
vars == <<shared, pc, seen, kind, snap, left, then>>

Init ==
    /\ registered = {}
    /\ stop = FALSE /\ cycle = 0 /\ collecting = FALSE
    /\ minor = FALSE /\ major = FALSE
    /\ mu = Nobody /\ stwMu = Nobody
    /\ blocked = [t \in Threads |-> FALSE]
    /\ acked = [t \in Threads |-> 0]
    /\ pc = [t \in Threads |-> "out"]
    /\ seen = [t \in Threads |-> 0]
    /\ kind = [t \in Threads |-> "none"]
    /\ snap = [t \in Threads |-> {}]
    /\ left = [t \in Threads |-> {}]
    /\ then = [t \in Threads |-> "run"]

At(t, l) == pc[t] = l
Goto(t, l) == pc' = [pc EXCEPT ![t] = l]

-------------------------------------------------------------------------------
(* The mutator side.                                                        *)

(* sl_gc_register_thread; a worker checks in before it does anything else. *)
Register(t) ==
    /\ At(t, "out") /\ mu = Nobody
    /\ registered' = registered \cup {t}
    /\ Goto(t, "checkin")
    /\ UNCHANGED <<flags, locks, blocked, acked, seen, kind, snap, left, then>>

(* sl_gc_publish_delta: an allocation crosses a threshold. *)
Request(t) ==
    /\ At(t, "run") /\ cycle < MaxCycle
    /\ \/ minor' = TRUE /\ UNCHANGED major
       \/ major' = TRUE /\ UNCHANGED minor
    /\ UNCHANGED <<registered, stop, cycle, collecting, locks, blocked, acked,
                   pc, seen, kind, snap, left, then>>

(* A worker that sleeps on the run queue or blocks in the network poll. *)
Block(t) ==
    /\ At(t, "run")
    /\ blocked' = [blocked EXCEPT ![t] = TRUE]
    /\ Goto(t, "blocked")
    /\ UNCHANGED <<registered, flags, locks, acked, seen, kind, snap, left, then>>

(* Mutant: the woken worker goes on without a check-in. *)
UnblockAndRun(t) ==
    /\ At(t, "blocked")
    /\ blocked' = [blocked EXCEPT ![t] = FALSE]
    /\ Goto(t, "run")
    /\ UNCHANGED <<registered, flags, locks, acked, seen, kind, snap, left, then>>

(* It wakes: `blocked` is cleared, then it checks in. *)
Unblock(t) ==
    /\ At(t, "blocked")
    /\ blocked' = [blocked EXCEPT ![t] = FALSE]
    /\ Goto(t, "checkin")
    /\ UNCHANGED <<registered, flags, locks, acked, seen, kind, snap, left, then>>

(* A safepoint; the check-in of a thread that starts or wakes is one too.   *)
(* sl_gc_poll_needed's three loads decide.                                  *)
Checkin(t) ==
    /\ At(t, "run") \/ At(t, "checkin")
    /\ Goto(t, IF stop \/ major \/ minor THEN "slow" ELSE "run")
    /\ then' = [then EXCEPT ![t] = "run"]
    /\ UNCHANGED <<shared, seen, kind, snap, left>>

(* Mutant: the claim does not look at what it replaced. *)
CheckinSlowUnclaimed(t) ==
    /\ \/ /\ At(t, "slow")
          /\ Goto(t, IF stop THEN "ack" ELSE "asked")
          /\ UNCHANGED collecting
       \/ /\ At(t, "asked")
          /\ Goto(t, IF major \/ minor THEN "claim" ELSE "run")
          /\ UNCHANGED collecting
       \/ /\ At(t, "claim")
          /\ collecting' = TRUE
          /\ Goto(t, "choose")
    /\ UNCHANGED <<registered, stop, cycle, minor, major, locks, blocked, acked,
                   seen, kind, snap, left, then>>

(* sl_rt_gc_checkin_slow's loop: a stop is waited out; nothing requested,   *)
(* go on; otherwise try to be the collector, and look again on losing.      *)
CheckinSlow(t) ==
    /\ \/ /\ At(t, "slow")
          /\ Goto(t, IF stop THEN "ack" ELSE "asked")
          /\ UNCHANGED collecting
       \/ /\ At(t, "asked")
          /\ Goto(t, IF major \/ minor THEN "claim" ELSE "run")
          /\ UNCHANGED collecting
       \/ /\ At(t, "claim")
          /\ collecting' = TRUE
          /\ Goto(t, IF collecting THEN "slow" ELSE "choose")
    /\ UNCHANGED <<registered, stop, cycle, minor, major, locks, blocked, acked,
                   seen, kind, snap, left, then>>

(* Mutant: sl_gc_ack_and_wait acknowledges once and never again. *)
AckOnce(t) ==
    /\ \/ /\ At(t, "ack")
          /\ seen' = [seen EXCEPT ![t] = cycle]
          /\ Goto(t, "tell") /\ UNCHANGED acked
       \/ /\ At(t, "tell")
          /\ acked' = [acked EXCEPT ![t] = seen[t]]
          /\ Goto(t, "wait") /\ UNCHANGED seen
       \/ /\ At(t, "again")
          /\ Goto(t, "wait") /\ UNCHANGED <<seen, acked>>
    /\ UNCHANGED <<registered, flags, locks, blocked, kind, snap, left, then>>

(* sl_gc_ack_and_wait: read the cycle, then publish it; while the stop is   *)
(* up, do so again whenever the cycle has moved on.                         *)
Ack(t) ==
    /\ \/ /\ At(t, "ack")
          /\ seen' = [seen EXCEPT ![t] = cycle]
          /\ Goto(t, "tell") /\ UNCHANGED acked
       \/ /\ At(t, "tell")
          /\ acked' = [acked EXCEPT ![t] = seen[t]]
          /\ Goto(t, "wait") /\ UNCHANGED seen
       \/ /\ At(t, "again")
          /\ Goto(t, IF cycle # seen[t] THEN "ack" ELSE "wait")
          /\ UNCHANGED <<seen, acked>>
    /\ UNCHANGED <<registered, flags, locks, blocked, kind, snap, left, then>>

(* Its loop: leave when the stop is down; else spin, or sleep if, under the *)
(* lock, the stop is still up and the cycle the same.                       *)
Wait(t) ==
    /\ \/ At(t, "wait") /\ ~stop /\ Goto(t, then[t])
       \/ At(t, "wait") /\ stop /\ Goto(t, "again")
       \/ /\ At(t, "wait") /\ stop /\ stwMu = Nobody
          /\ Goto(t, IF cycle = seen[t] THEN "asleep" ELSE "again")
    /\ UNCHANGED <<shared, seen, kind, snap, left, then>>

(* Mutant: no second look at the stop under the lock that unlinks. *)
UnregisterUnchecked(t) ==
    /\ \/ /\ At(t, "run")
          /\ Goto(t, "leave") /\ then' = [then EXCEPT ![t] = "leave"]
          /\ UNCHANGED registered
       \/ /\ At(t, "leave") /\ mu = Nobody
          /\ registered' = registered \ {t}
          /\ Goto(t, "out") /\ UNCHANGED then
    /\ UNCHANGED <<flags, locks, blocked, acked, seen, kind, snap, left>>

(* sl_gc_unregister_thread: unlink only with the stop down, both under the  *)
(* lock; otherwise wait the pause out and try again.                        *)
Unregister(t) ==
    /\ \/ /\ At(t, "run")
          /\ Goto(t, "leave") /\ then' = [then EXCEPT ![t] = "leave"]
          /\ UNCHANGED registered
       \/ /\ At(t, "leave") /\ mu = Nobody
          /\ IF stop THEN Goto(t, "ack") /\ UNCHANGED registered
             ELSE registered' = registered \ {t} /\ Goto(t, "out")
          /\ UNCHANGED then
    /\ UNCHANGED <<flags, locks, blocked, acked, seen, kind, snap, left>>

-------------------------------------------------------------------------------
(* The collector.                                                           *)

(* A major if one is wanted, else a minor. *)
Choose(t) ==
    /\ At(t, "choose")
    /\ kind' = [kind EXCEPT ![t] = IF major THEN "major" ELSE "minor"]
    /\ Goto(t, "raise")
    /\ UNCHANGED <<shared, seen, snap, left, then>>

(* Every thread asleep in its wait goes round once more (cond_broadcast). *)
Broadcast(t, l) ==
    pc' = [u \in Threads |-> IF u = t THEN l
                             ELSE IF pc[u] = "asleep" THEN "again" ELSE pc[u]]

(* Mutant: the sleepers of the previous pause are not woken for this one. *)
RaiseQuietly(t) ==
    /\ \/ /\ At(t, "raise") /\ stwMu = Nobody
          /\ stwMu' = t /\ stop' = TRUE
          /\ Goto(t, "bump") /\ UNCHANGED cycle
       \/ /\ At(t, "bump")
          /\ cycle' = cycle + 1 /\ stwMu' = Nobody
          /\ Goto(t, "snapshot") /\ UNCHANGED stop
    /\ UNCHANGED <<registered, collecting, minor, major, mu, blocked, acked,
                   seen, kind, snap, left, then>>

(* sl_gc_stw_sync: the stop up, then the cycle, under sl_gc_stw_mu, which   *)
(* threads that spin do not take.                                           *)
Raise(t) ==
    /\ \/ /\ At(t, "raise") /\ stwMu = Nobody
          /\ stwMu' = t /\ stop' = TRUE
          /\ Goto(t, "bump") /\ UNCHANGED cycle
       \/ /\ At(t, "bump")
          /\ cycle' = cycle + 1 /\ stwMu' = Nobody
          /\ Broadcast(t, "snapshot") /\ UNCHANGED stop
    /\ UNCHANGED <<registered, collecting, minor, major, mu, blocked, acked,
                   seen, kind, snap, left, then>>

Snapshot(t) ==
    /\ At(t, "snapshot") /\ mu = Nobody
    /\ snap' = [snap EXCEPT ![t] = registered]
    /\ left' = [left EXCEPT ![t] = registered \ {t}]
    /\ Goto(t, "sync")
    /\ UNCHANGED <<shared, seen, kind, then>>

Stopped(t, u) == blocked[u] \/ acked[u] = cycle

(* One pass asks the threads one by one, and starts over at the first that  *)
(* is neither blocked nor at this cycle.                                    *)
Sync(t) ==
    /\ At(t, "sync")
    /\ \/ \E u \in left[t] :
            /\ left' = [left EXCEPT ![t] = IF Stopped(t, u) THEN @ \ {u} ELSE snap[t] \ {t}]
            /\ UNCHANGED <<pc, mu>>
       \/ /\ left[t] = {} /\ mu = Nobody
          /\ mu' = t
          /\ Goto(t, "mark")
          /\ UNCHANGED left
    /\ UNCHANGED <<registered, flags, stwMu, blocked, acked, seen, kind, snap, then>>

(* Mark and sweep.  A minor may find that a major is due; a major serves    *)
(* both requests.                                                           *)
Mark(t) ==
    /\ At(t, "mark")
    /\ minor' = FALSE
    /\ \/ kind[t] = "major" /\ major' = FALSE
       \/ kind[t] = "minor" /\ UNCHANGED major
       \/ kind[t] = "minor" /\ cycle <= MaxCycle /\ major' = TRUE
    /\ Goto(t, "lower")
    /\ UNCHANGED <<registered, stop, cycle, collecting, locks, blocked, acked,
                   seen, kind, snap, left, then>>

(* sl_gc_stw_release, unless a minor hands over to a major with the stop    *)
(* still up.                                                                *)
Lower(t) ==
    /\ At(t, "lower")
    /\ IF kind[t] = "minor" /\ major
       THEN Goto(t, "yield") /\ UNCHANGED stop
       ELSE stwMu = Nobody /\ stop' = FALSE /\ Broadcast(t, "yield")
    /\ UNCHANGED <<registered, cycle, collecting, minor, major, locks, blocked, acked,
                   seen, kind, snap, left, then>>

(* sl_gc_collecting down, then sl_gc_mu released. *)
Release(t) ==
    /\ \/ /\ At(t, "yield") /\ collecting' = FALSE
          /\ Goto(t, "unlock") /\ UNCHANGED mu
       \/ /\ At(t, "unlock") /\ mu' = Nobody
          /\ Goto(t, IF kind[t] = "minor" THEN "chain" ELSE "run")
          /\ UNCHANGED collecting
    /\ UNCHANGED <<registered, stop, cycle, minor, major, stwMu, blocked, acked,
                   seen, kind, snap, left, then>>

(* Mutant: the collector of a minor leaves the major to someone else. *)
ChainLater(t) ==
    /\ At(t, "chain")
    /\ Goto(t, "run")
    /\ UNCHANGED <<shared, seen, kind, snap, left, then>>

(* The collector of a minor takes on the major that is due. *)
Chain(t) ==
    /\ \/ At(t, "chain") /\ Goto(t, IF major THEN "rechain" ELSE "run")
          /\ UNCHANGED <<collecting, kind>>
       \/ /\ At(t, "rechain")
          /\ collecting' = TRUE
          /\ kind' = [kind EXCEPT ![t] = "major"]
          /\ Goto(t, IF collecting THEN "run" ELSE "raise")
    /\ UNCHANGED <<registered, stop, cycle, minor, major, locks, blocked, acked,
                   seen, snap, left, then>>

-------------------------------------------------------------------------------
Step(t) ==
    \/ Register(t) \/ Request(t) \/ Block(t) \/ Unblock(t)
    \/ CheckinSlow(t) \/ Ack(t) \/ Wait(t) \/ Unregister(t)
    \/ Choose(t) \/ Raise(t) \/ Snapshot(t) \/ Sync(t) \/ Mark(t)
    \/ Lower(t) \/ Release(t) \/ Chain(t)

Next == \E t \in Threads : Checkin(t) \/ Step(t)

(* A thread that runs comes to its next safepoint (loops poll, and a loop   *)
(* that cannot poll is stopped by signal); the collector and the waiting    *)
(* threads go on.  A blocked thread may stay blocked.                       *)
Live(t) ==
    Checkin(t) \/ CheckinSlow(t) \/ Ack(t) \/ Wait(t) \/ (At(t, "leave") /\ Unregister(t))
    \/ Choose(t) \/ Raise(t) \/ Snapshot(t) \/ Sync(t) \/ Mark(t)
    \/ Lower(t) \/ Release(t) \/ Chain(t)

Spec == Init /\ [][Next]_vars
FairSpec == Spec /\ \A t \in Threads : WF_vars(Live(t))

-------------------------------------------------------------------------------
Labels ==
    {"out", "run", "blocked", "checkin", "slow", "asked", "claim", "ack", "tell", "wait",
     "again", "asleep", "leave", "choose", "raise", "bump", "snapshot", "sync", "mark",
     "lower", "yield", "unlock", "chain", "rechain"}

(* Types; and no thread has read or acknowledged a cycle that has not begun. *)
TypeOK ==
    /\ registered \subseteq Threads
    /\ stop \in BOOLEAN /\ collecting \in BOOLEAN
    /\ minor \in BOOLEAN /\ major \in BOOLEAN
    /\ cycle \in Nat
    /\ mu \in Threads \cup {Nobody} /\ stwMu \in Threads \cup {Nobody}
    /\ blocked \in [Threads -> BOOLEAN]
    /\ acked \in [Threads -> 0..cycle] /\ seen \in [Threads -> 0..cycle]
    /\ pc \in [Threads -> Labels]
    /\ kind \in [Threads -> {"none", "minor", "major"}]
    /\ snap \in [Threads -> SUBSET Threads] /\ left \in [Threads -> SUBSET Threads]
    /\ then \in [Threads -> {"run", "leave"}]

InPause == {"raise", "bump", "snapshot", "sync", "mark", "lower"}

(* While a collector marks and sweeps, no other registered thread runs      *)
(* program code: each is blocked, waits, or has still to check in.          *)
StoppedWorld == \A c, t \in Threads : At(c, "mark") /\ t # c => ~At(t, "run")

(* At most one thread is between claiming a collection and handing it back. *)
OneCollector ==
    \A c, t \in Threads :
      pc[c] \in InPause \cup {"choose", "yield"} /\ pc[t] \in InPause \cup {"choose", "yield"}
        => c = t

(* Every thread in a snapshot stays registered while the collector uses the *)
(* snapshot: its thread-local flags are never read after it is gone.        *)
SnapshotAlive ==
    \A c \in Threads : pc[c] \in {"sync", "mark", "lower"} => snap[c] \subseteq registered

(* A raised stop always has a thread that will lower it, across the handover *)
(* from a minor to its major included; otherwise every thread waits for ever. *)
StopIsServed ==
    stop => \E c \in Threads : pc[c] \in InPause \cup {"yield", "unlock", "chain", "rechain"}

(* A thread asleep in a pause has acknowledged that pause: no collector     *)
(* waits for a thread that sleeps.                                          *)
SleeperHasAcked ==
    \A t \in Threads : At(t, "asleep") => stop /\ acked[t] = cycle

(* Every pause ends. *)
PauseEnds == stop ~> ~stop
===============================================================================
