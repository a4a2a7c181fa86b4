--------------------------------- MODULE Idle ---------------------------------
(***************************************************************************)
(* proc.wait_idle() (runtime/sl_core.c): a task waits until nothing runs    *)
(* but tasks that wait for the same thing.  `active` and `idlers` are       *)
(* atomics read and written outside the lock by tasks that end; the wait    *)
(* list is guarded by sl_rt_idle_mu.                                        *)
(***************************************************************************)
EXTENDS Integers, Sequences, SequencesExt, FiniteSets

CONSTANTS Tasks, Main, Nobody,
          MaxWaits      \* bound: wait_idle calls in a run

ASSUME IdleAssumption == Main \in Tasks /\ Nobody \notin Tasks /\ MaxWaits \in Nat

VARIABLES active,   \* sl_rt_active_spawns
          idlers,   \* sl_rt_idle_spawned_waiters
          mu,       \* who holds sl_rt_idle_mu
          list,     \* sl_rt_idle_waiters, oldest first
          pc,
          left,     \* left[t]: what t's own decrement left
          waits

vars == <<active, idlers, mu, list, pc, left, waits>>

Spawned(t) == t # Main     \* sl_rt_cur_is_spawned

Init ==
    /\ active = 0 /\ idlers = 0 /\ mu = Nobody /\ list = <<>>
    /\ pc = [t \in Tasks |-> IF t = Main THEN "run" ELSE "unborn"]
    /\ left = [t \in Tasks |-> 0]
    /\ waits = 0

Goto(t, l) == [pc EXCEPT ![t] = l]

(* Bound: no more tasks are spawned than the model has. *)
CanSpawn == Cardinality({t \in Tasks : pc[t] = "unborn"})
              > Cardinality({t \in Tasks : pc[t] = "submit"})

(* Mutant: the task is not counted. *)
SpawnsUncounted(t) ==
    /\ pc[t] = "run" /\ CanSpawn
    /\ pc' = Goto(t, "submit")
    /\ UNCHANGED <<active, idlers, mu, list, left, waits>>

(* spawn: counted first, submitted after. *)
SpawnsInc(t) ==
    /\ pc[t] = "run" /\ CanSpawn
    /\ active' = active + 1
    /\ pc' = Goto(t, "submit")
    /\ UNCHANGED <<idlers, mu, list, left, waits>>

Submit(t) ==
    /\ pc[t] = "submit"
    /\ \E u \in Tasks : /\ pc[u] = "unborn"
                        /\ pc' = [pc EXCEPT ![t] = "run", ![u] = "run"]
    /\ UNCHANGED <<active, idlers, mu, list, left, waits>>

(* sl_rt_active_spawns_dec: the subtraction, then the comparison. *)
SpawnsDec(t) ==
    /\ pc[t] = "run" /\ Spawned(t)
    /\ active' = active - 1
    /\ left' = [left EXCEPT ![t] = active - 1]
    /\ pc' = Goto(t, "compare")
    /\ UNCHANGED <<idlers, mu, list, waits>>

(* Mutant: the waiting tasks are not counted out. *)
CompareWithZero(t) ==
    /\ pc[t] = "compare"
    /\ pc' = Goto(t, IF left[t] <= 0 THEN "notify" ELSE "ended")
    /\ UNCHANGED <<active, idlers, mu, list, left, waits>>

Compare(t) ==
    /\ pc[t] = "compare"
    /\ pc' = Goto(t, IF left[t] <= idlers THEN "notify" ELSE "ended")
    /\ UNCHANGED <<active, idlers, mu, list, left, waits>>

(* sl_rt_idle_notify: everyone on the list is resumed, under the lock. *)
Notify(t) ==
    /\ pc[t] = "notify" /\ mu = Nobody
    /\ list' = <<>>
    /\ pc' = [u \in Tasks |-> IF u \in Range(list) THEN "relock"
                              ELSE IF u = t THEN "ended" ELSE pc[u]]
    /\ UNCHANGED <<active, idlers, mu, left, waits>>

(* sl_rt_wait_idle: the lock, and the count before the check. *)
WaitIdle(t) ==
    /\ pc[t] = "run" /\ waits < MaxWaits /\ mu = Nobody
    /\ waits' = waits + 1
    /\ mu' = t
    /\ idlers' = IF Spawned(t) THEN idlers + 1 ELSE idlers
    /\ pc' = Goto(t, "check")
    /\ UNCHANGED <<active, list, left>>

Relock(t) ==
    /\ pc[t] = "relock" /\ mu = Nobody
    /\ mu' = t
    /\ pc' = Goto(t, "check")
    /\ UNCHANGED <<active, idlers, list, left, waits>>

(* Mutant: the lock is released before the task is on the list. *)
CheckUnlocks(t) ==
    /\ pc[t] = "check"
    /\ \/ /\ active > idlers
          /\ pc' = Goto(t, "park")
          /\ mu' = Nobody
          /\ UNCHANGED idlers
       \/ /\ active <= idlers
          /\ idlers' = IF Spawned(t) THEN idlers - 1 ELSE idlers
          /\ mu' = Nobody
          /\ pc' = Goto(t, "run")
    /\ UNCHANGED <<active, list, left, waits>>

(* The two loads and the comparison.  idlers only changes under the lock,   *)
(* so reading it with `active` is reading it at either moment.              *)
Check(t) ==
    /\ pc[t] = "check"
    /\ \/ /\ active > idlers
          /\ pc' = Goto(t, "park")
          /\ UNCHANGED <<idlers, mu>>
       \/ /\ active <= idlers
          /\ idlers' = IF Spawned(t) THEN idlers - 1 ELSE idlers
          /\ mu' = Nobody
          /\ pc' = Goto(t, "run")
    /\ UNCHANGED <<active, list, left, waits>>

(* On the list and switched out before sl_rt_idle_mu is released. *)
Park(t) ==
    /\ pc[t] = "park"
    /\ list' = Append(list, t)
    /\ pc' = Goto(t, "parked")
    /\ mu' = Nobody
    /\ UNCHANGED <<active, idlers, left, waits>>

Ending(t)  == Compare(t) \/ Notify(t)
Waiting(t) == Relock(t) \/ Check(t) \/ Park(t)

Next == \E t \in Tasks :
    \/ SpawnsInc(t) \/ Submit(t) \/ SpawnsDec(t) \/ Ending(t)
    \/ WaitIdle(t) \/ Waiting(t)

Goes(t) == Submit(t) \/ Compare(t) \/ Check(t) \/ Park(t)

Spec == Init /\ [][Next]_vars

(* Tasks that can run do, and a contended lock is not withheld for ever     *)
(* from one of them.  A task is never obliged to end or to wait.            *)
Fairness == \A t \in Tasks :
    SF_vars(Notify(t)) /\ SF_vars(Relock(t))
      /\ WF_vars(Goes(t))
FairSpec == Spec /\ Fairness

-----------------------------------------------------------------------------
(* Properties.                                                              *)

(* Types, and the counters count what they are said to count. *)
TypeOK ==
    /\ mu \in Tasks \cup {Nobody}
    /\ list \in Seq(Tasks)
    /\ left \in [Tasks -> Int]
    /\ active = Cardinality({t \in Tasks : Spawned(t) /\
                   pc[t] \in {"run", "submit", "check", "park", "parked", "relock"}})
              + Cardinality({t \in Tasks : pc[t] = "submit"})
    /\ idlers = Cardinality({t \in Tasks : Spawned(t) /\
                   pc[t] \in {"check", "park", "parked", "relock"}})

(* When wait_idle returns, no other spawned task is running: each has ended *)
(* or is itself in wait_idle.                                               *)
IdleMeansIdle ==
    [][\A t \in Tasks : pc[t] = "check" /\ pc'[t] = "run" =>
         \A u \in Tasks \ {t, Main} : pc[u] \notin {"run", "submit"}]_vars

(* Nobody is left asleep with nothing to wait for: once no task is on its   *)
(* way through spawn, end or wait, a sleeper waits for a running task.      *)
NoStrandedIdler ==
    (/\ list # <<>>
     /\ \A t \in Tasks : pc[t] \in {"unborn", "run", "parked", "ended"})
      => \E t \in Tasks : Spawned(t) /\ pc[t] = "run"

(* The main task's wait ends once every other task has ended. *)
MainSeesIdle ==
    (pc[Main] = "parked" /\ \A t \in Tasks \ {Main} : pc[t] \in {"unborn", "ended"})
      ~> (pc[Main] = "run")

=============================================================================
