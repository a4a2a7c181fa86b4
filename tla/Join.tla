--------------------------------- MODULE Join ---------------------------------
(***************************************************************************)
(* spawn f() as a value: join[T] handles (runtime/sl_containers.c), how a   *)
(* task's end or panic reaches them (sl_rt_fail in runtime/sl_core.c and    *)
(* the spawn entries the compiler emits), and joined spawns run in place    *)
(* on the spawner's own task (sl_protect_run).                              *)
(*                                                                         *)
(* A join is guarded by its own mutex, so each critical section is a step.  *)
(***************************************************************************)
EXTENDS Naturals, Sequences, SequencesExt

CONSTANTS Tasks,          \* the tasks
          Main,           \* the main task
          Joins,          \* the handles a run may create
          NoTask, NoJoin,
          SharedHandles   \* may a task other than the spawner wait on a handle?

VARIABLES outcome,  \* outcome[j]: "unborn", "pending", or done: "value", "error"
          waiter,   \* waiter[j]: the one task recorded as waiting
          spawner,  \* spawner[j]: who created the handle
          pc,       \* pc[t]
          target,   \* target[t]: the handle t waits on
          cur,      \* cur[t]: t->join, the handle t's end will be reported to
          recover,  \* recover[t]: the chain of sl_recover records, outermost first
          depth,    \* depth[t]: preempt_disable_depth in t's own code
          runs      \* history: runs[t], the handles whose functions t is running

joinVars == <<outcome, waiter, spawner>>
taskVars == <<pc, target, cur, recover, depth, runs>>
vars     == <<joinVars, taskVars>>

Done(j) == outcome[j] \in {"value", "error"}

Init ==
    /\ outcome = [j \in Joins |-> "unborn"]
    /\ waiter  = [j \in Joins |-> NoTask]
    /\ spawner = [j \in Joins |-> NoTask]
    /\ pc      = [t \in Tasks |-> IF t = Main THEN "run" ELSE "unborn"]
    /\ target  = [t \in Tasks |-> NoJoin]
    /\ cur     = [t \in Tasks |-> NoJoin]
    /\ recover = [t \in Tasks |-> <<>>]
    /\ depth   = [t \in Tasks |-> 0]
    /\ runs    = [t \in Tasks |-> <<>>]

(* sl_join_new. *)
NewJoin(t, j) ==
    /\ outcome[j] = "unborn"
    /\ outcome' = [outcome EXCEPT ![j] = "pending"]
    /\ spawner' = [spawner EXCEPT ![j] = t]
    /\ UNCHANGED waiter

(* spawn, to a task of its own: t->join is set by the task's entry. *)
Spawn(t, u, j) ==
    /\ pc[t] = "run" /\ pc[u] = "unborn"
    /\ NewJoin(t, j)
    /\ pc' = [pc EXCEPT ![u] = "run"]
    /\ cur' = [cur EXCEPT ![u] = j]
    /\ runs' = [runs EXCEPT ![u] = <<j>>]
    /\ UNCHANGED <<target, recover, depth>>

(* sl_protect_run: what a panic abandons is saved, then the body runs. *)
SpawnInPlace(t, j) ==
    /\ pc[t] = "run"
    /\ NewJoin(t, j)
    /\ recover' = [recover EXCEPT ![t] = Append(@, [join |-> cur[t], depth |-> depth[t]])]
    /\ cur' = [cur EXCEPT ![t] = j]
    /\ runs' = [runs EXCEPT ![t] = Append(@, j)]
    /\ UNCHANGED <<pc, target, depth>>

(* Mutant: a report wakes nobody. *)
ReportSilently(j, how, newpc) ==
    /\ outcome' = IF j = NoJoin \/ Done(j) THEN outcome ELSE [outcome EXCEPT ![j] = how]
    /\ pc' = newpc
    /\ UNCHANGED waiter

(* sl_join_finish and sl_join_fail: the first report decides, and wakes the *)
(* recorded waiter.  newpc holds the reporter's own move.                   *)
Report(j, how, newpc) ==
    \/ /\ j = NoJoin \/ Done(j)
       /\ pc' = newpc
       /\ UNCHANGED <<outcome, waiter>>
    \/ /\ j # NoJoin /\ ~Done(j)
       /\ outcome' = [outcome EXCEPT ![j] = how]
       /\ waiter' = [waiter EXCEPT ![j] = NoTask]
       /\ pc' = [t \in Tasks |-> IF t = waiter[j] THEN "relock" ELSE newpc[t]]

(* Mutant: t->join is not restored. *)
LeaveKeepsJoin(t, d) ==
    /\ recover' = [recover EXCEPT ![t] = Front(@)]
    /\ target' = [target EXCEPT ![t] = Last(runs[t])]
    /\ runs' = [runs EXCEPT ![t] = Front(@)]
    /\ depth' = [depth EXCEPT ![t] = d]
    /\ UNCHANGED cur

(* Back in sl_protect_run: the saved join is restored, the depth is d, and  *)
(* the spawner's next act is join_wait on the same handle.                  *)
LeaveProtected(t, d) ==
    /\ recover' = [recover EXCEPT ![t] = Front(@)]
    /\ target' = [target EXCEPT ![t] = Last(runs[t])]
    /\ runs' = [runs EXCEPT ![t] = Front(@)]
    /\ cur' = [cur EXCEPT ![t] = Last(recover[t]).join]
    /\ depth' = [depth EXCEPT ![t] = d]

(* The function t is running returns. *)
Return(t) ==
    /\ pc[t] = "run" /\ runs[t] # <<>>
    /\ \/ /\ recover[t] # <<>>
          /\ Report(Last(runs[t]), "value", [pc EXCEPT ![t] = "wait"])
          /\ LeaveProtected(t, depth[t])
       \/ /\ recover[t] = <<>>
          /\ Report(Last(runs[t]), "value", [pc EXCEPT ![t] = "ended"])
          /\ runs' = [runs EXCEPT ![t] = <<>>]
          /\ cur' = [cur EXCEPT ![t] = NoJoin]
          /\ UNCHANGED <<target, recover, depth>>
    /\ UNCHANGED <<spawner>>

(* Mutants: a panic in a protected call is not reported; the bracket that   *)
(* sl_rt_fail opened stays open.                                            *)
PanicUnreported(t) ==
    /\ pc[t] = "run" /\ recover[t] # <<>>
    /\ pc' = [pc EXCEPT ![t] = "wait"]
    /\ LeaveProtected(t, Last(recover[t]).depth)
    /\ UNCHANGED joinVars

PanicKeepsBracket(t) ==
    /\ pc[t] = "run" /\ recover[t] # <<>>
    /\ Report(cur[t], "error", [pc EXCEPT ![t] = "wait"])
    /\ LeaveProtected(t, depth[t] + 1)
    /\ UNCHANGED <<spawner>>

(* sl_rt_fail: the error goes to t->join.  Inside a protected call control  *)
(* comes back to its start; otherwise the task ends.  (The main task        *)
(* outside any protected call ends the process instead.)                    *)
Panic(t) ==
    /\ pc[t] = "run" /\ runs[t] # <<>>
    /\ \/ /\ recover[t] # <<>>
          /\ Report(cur[t], "error", [pc EXCEPT ![t] = "wait"])
          /\ LeaveProtected(t, Last(recover[t]).depth)
       \/ /\ recover[t] = <<>>
          /\ Report(cur[t], "error", [pc EXCEPT ![t] = "ended"])
          /\ runs' = [runs EXCEPT ![t] = <<>>]
          /\ depth' = [depth EXCEPT ![t] = @ + 1]
          /\ UNCHANGED <<target, cur, recover>>
    /\ UNCHANGED <<spawner>>

(* join_wait(h) begins. *)
Wait(t, j) ==
    /\ pc[t] = "run"
    /\ outcome[j] # "unborn" /\ j \notin Range(runs[t])
    /\ spawner[j] = t \/ SharedHandles
    /\ pc' = [pc EXCEPT ![t] = "wait"]
    /\ target' = [target EXCEPT ![t] = j]
    /\ UNCHANGED <<joinVars, cur, recover, depth, runs>>

(* sl_join_wait, under j->mu. *)
WaitLocked(t) ==
    /\ pc[t] \in {"wait", "relock"}
    /\ LET j == target[t] IN
         \/ /\ Done(j)
            /\ pc' = [pc EXCEPT ![t] = "run"]
            /\ target' = [target EXCEPT ![t] = NoJoin]
            /\ UNCHANGED waiter
         \/ /\ ~Done(j)
            /\ waiter' = [waiter EXCEPT ![j] = t]
            /\ pc' = [pc EXCEPT ![t] = "parked"]
            /\ UNCHANGED target
    /\ UNCHANGED <<outcome, spawner, cur, recover, depth, runs>>

Next == \E t \in Tasks :
    \/ Return(t) \/ Panic(t) \/ WaitLocked(t)
    \/ \E j \in Joins : Wait(t, j) \/ SpawnInPlace(t, j)
                          \/ \E u \in Tasks : Spawn(t, u, j)

Spec == Init /\ [][Next]_vars

(* A task in join_wait that can run is run. *)
Fairness == \A t \in Tasks : WF_vars(WaitLocked(t))
FairSpec == Spec /\ Fairness

-----------------------------------------------------------------------------
(* Properties.                                                              *)

(* The variables have their types. *)
TypeOK ==
    /\ outcome \in [Joins -> {"unborn", "pending", "value", "error"}]
    /\ waiter \in [Joins -> Tasks \cup {NoTask}]
    /\ spawner \in [Joins -> Tasks \cup {NoTask}]
    /\ pc \in [Tasks -> {"unborn", "run", "wait", "parked", "relock", "ended"}]
    /\ target \in [Tasks -> Joins \cup {NoJoin}]
    /\ cur \in [Tasks -> Joins \cup {NoJoin}]
    /\ recover \in [Tasks -> Seq([join : Joins \cup {NoJoin}, depth : Nat])]
    /\ depth \in [Tasks -> Nat]
    /\ runs \in [Tasks -> Seq(Joins)]

(* A panic is reported to the innermost function it ends, and to no other:  *)
(* t->join and the saved chain are exactly the functions t is running.      *)
PanicReachesItsJoin ==
    \A t \in Tasks : runs[t] # <<>> =>
      /\ cur[t] = Last(runs[t])
      /\ \A i \in DOMAIN recover[t] :
           recover[t][Len(recover[t]) + 1 - i].join =
             (IF i < Len(runs[t]) THEN runs[t][Len(runs[t]) - i] ELSE NoJoin)

(* A handle that is not done yet has exactly one task that will report it. *)
PendingHasReporter ==
    \A j \in Joins : outcome[j] = "pending" =>
      \E t \in Tasks :
        /\ pc[t] # "ended" /\ j \in Range(runs[t])
        /\ \A u \in Tasks \ {t} : j \notin Range(runs[u])

(* After a recovered panic a task is as preemptible as before it. *)
BracketRestored == \A t \in Tasks : pc[t] # "ended" => depth[t] = 0

(* join_wait parks until f finishes: nobody sleeps on a handle that is done. *)
NoStrandedJoiner == \A t \in Tasks : pc[t] = "parked" => ~Done(target[t])

(* ... and whoever waits on a handle that is done goes on. *)
WaiterReturns ==
    \A t \in Tasks : (target[t] # NoJoin /\ Done(target[t])) ~> (pc[t] = "run")

=============================================================================
