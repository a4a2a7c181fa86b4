-------------------------------- MODULE Mutex --------------------------------
(***************************************************************************)
(* mutex (runtime/sl_containers.c): the task-level lock.  A pthread mutex   *)
(* guards the fields, so one critical section is one step; a contended      *)
(* lock parks the task on `waiters`, and unlock wakes one waiter without    *)
(* handing it the lock.                                                     *)
(*                                                                         *)
(* The owner is recorded as the address of an sl_task.  The runtime reuses  *)
(* those structs (sl_task_grab, sl_task_release), so the model's Slots are  *)
(* the structs: a slot runs one task after another.  `inside`, a history    *)
(* variable, says whether the task now in a slot holds the lock.            *)
(***************************************************************************)
EXTENDS Naturals, Sequences, SequencesExt

CONSTANTS Slots,        \* the sl_task structs
          Null,         \* owner when nobody holds the lock
          MayDropLock,  \* may a task end while it holds the lock?
          MaxCalls      \* bound: calls made on the mutex

ASSUME MutexAssumption ==
    /\ Null \notin Slots
    /\ MayDropLock \in BOOLEAN
    /\ MaxCalls \in Nat

VARIABLES held, owner,
          waiters,   \* slots parked on the lock, oldest first
          pc,        \* pc[s]: where slot s's task is
          inside,    \* slots whose present task locked and has not unlocked
          calls      \* calls made so far

vars == <<held, owner, waiters, pc, inside, calls>>

Init ==
    /\ held = FALSE
    /\ owner = Null
    /\ waiters = <<>>
    /\ pc = [s \in Slots |-> "free"]
    /\ inside = {}
    /\ calls = 0

Goto(s, label) == [pc EXCEPT ![s] = label]

(* sl_task_grab: a free struct becomes a new task. *)
TaskStart(s) ==
    /\ pc[s] = "free"
    /\ pc' = Goto(s, "idle")
    /\ UNCHANGED <<held, owner, waiters, inside, calls>>

(* sl_task_release: the task is over and its struct is free again. *)
TaskEnd(s) ==
    /\ pc[s] = "idle"
    /\ s \in inside => MayDropLock
    /\ pc' = Goto(s, "free")
    /\ inside' = inside \ {s}
    /\ UNCHANGED <<held, owner, waiters, calls>>

Call(s, op) ==
    /\ pc[s] = "idle"
    /\ calls < MaxCalls
    /\ calls' = calls + 1
    /\ pc' = Goto(s, op)
    /\ UNCHANGED <<held, owner, waiters, inside>>

(* The lock is taken by slot s. *)
Acquire(s) ==
    /\ held' = TRUE
    /\ owner' = s
    /\ inside' = inside \cup {s}

(* Mutant: the lock is taken whether or not it is held. *)
LockUnchecked(s) ==
    /\ pc[s] \in {"lock", "relock"}
    /\ Acquire(s)
    /\ pc' = Goto(s, "idle")
    /\ UNCHANGED <<waiters, calls>>

(* sl_mutex_lock, from either lock of m->mu.  Only the first one checks for *)
(* recursion, which is reported as an error.                                *)
Lock(s) ==
    /\ pc[s] \in {"lock", "relock"}
    /\ \/ /\ pc[s] = "lock" /\ held /\ owner = s
          /\ pc' = Goto(s, "idle")
          /\ UNCHANGED <<held, owner, waiters, inside>>
       \/ /\ held /\ (pc[s] = "lock" => owner # s)
          /\ waiters' = Append(waiters, s)
          /\ pc' = Goto(s, "parked")
          /\ UNCHANGED <<held, owner, inside>>
       \/ /\ ~held
          /\ Acquire(s)
          /\ pc' = Goto(s, "idle")
          /\ UNCHANGED waiters
    /\ UNCHANGED calls

TryLock(s) ==
    /\ pc[s] = "trylock"
    /\ \/ held /\ UNCHANGED <<held, owner, inside>>
       \/ ~held /\ Acquire(s)
    /\ pc' = Goto(s, "idle")
    /\ UNCHANGED <<waiters, calls>>

(* Mutant: the owner is not compared. *)
UnlockByAnyone(s) ==
    /\ pc[s] = "unlock"
    /\ \/ ~held /\ pc' = Goto(s, "idle") /\ UNCHANGED <<held, owner, waiters, inside>>
       \/ /\ held
          /\ held' = FALSE
          /\ owner' = Null
          /\ inside' = inside \ {s}
          /\ waiters' = IF waiters = <<>> THEN <<>> ELSE Tail(waiters)
          /\ pc' = [r \in Slots |->
                      IF waiters # <<>> /\ r = Head(waiters) THEN "relock"
                      ELSE IF r = s THEN "idle" ELSE pc[r]]
    /\ UNCHANGED calls

(* Mutant: nobody is woken. *)
UnlockSilently(s) ==
    /\ pc[s] = "unlock"
    /\ pc' = Goto(s, "idle")
    /\ IF held /\ owner = s
       THEN held' = FALSE /\ owner' = Null /\ inside' = inside \ {s}
       ELSE UNCHANGED <<held, owner, inside>>
    /\ UNCHANGED <<waiters, calls>>

(* sl_mutex_unlock: an error if the lock is free or another struct is the   *)
(* recorded owner; else the lock is released and the oldest waiter resumed. *)
Unlock(s) ==
    /\ pc[s] = "unlock"
    /\ \/ /\ ~held \/ owner # s
          /\ pc' = Goto(s, "idle")
          /\ UNCHANGED <<held, owner, waiters, inside>>
       \/ /\ held /\ owner = s
          /\ held' = FALSE
          /\ owner' = Null
          /\ inside' = inside \ {s}
          /\ \/ /\ waiters = <<>>
                /\ pc' = Goto(s, "idle")
                /\ UNCHANGED waiters
             \/ /\ waiters # <<>>
                /\ waiters' = Tail(waiters)
                /\ pc' = [pc EXCEPT ![s] = "idle", ![Head(waiters)] = "relock"]
    /\ UNCHANGED calls

Step(s) == Lock(s) \/ TryLock(s) \/ Unlock(s)

Next == \E s \in Slots :
    \/ TaskStart(s) \/ TaskEnd(s) \/ Step(s)
    \/ \E op \in {"lock", "trylock", "unlock"} : Call(s, op)

Spec == Init /\ [][Next]_vars

(* A task that is runnable is run. *)
Fairness == \A s \in Slots : WF_vars(Step(s))
FairSpec == Spec /\ Fairness

-----------------------------------------------------------------------------
(* Properties.                                                              *)

(* The variables have their types. *)
TypeOK ==
    /\ held \in BOOLEAN
    /\ owner \in Slots \cup {Null}
    /\ waiters \in Seq(Slots)
    /\ pc \in [Slots -> {"free", "idle", "lock", "relock", "parked", "trylock", "unlock"}]
    /\ inside \subseteq Slots
    /\ calls \in 0 .. MaxCalls

(* At most one task is between its lock and its unlock, and the mutex shows *)
(* it as held by that task's struct.                                        *)
MutualExclusion == \A s \in inside : held /\ owner = s

(* A task never waits for a lock it holds itself: the recursion check comes *)
(* before the wait, and a woken waiter cannot have become the owner.        *)
NeverWaitsForItself == \A s \in inside : pc[s] \notin {"parked", "relock"}

(* The wait list holds exactly the parked tasks, each once, so an unlock    *)
(* resumes a task that has switched out.                                    *)
WaitersAreParked ==
    /\ \A i \in DOMAIN waiters : pc[waiters[i]] = "parked"
    /\ \A i, j \in DOMAIN waiters : waiters[i] = waiters[j] => i = j
    /\ \A s \in Slots : pc[s] = "parked" => \E i \in DOMAIN waiters : waiters[i] = s

(* Unlock wakes one waiter and hands nothing over.  Whoever barges in, a    *)
(* free lock with waiters always has one of them on its way.                *)
NoStrandedLocker ==
    ~held /\ waiters # <<>> => \E s \in Slots : pc[s] = "relock"

(* Unlocking a mutex the calling task does not hold is an error: the lock   *)
(* is only ever released by the unlock of the task that holds it.           *)
OnlyHolderUnlocks ==
    [][held /\ ~held' => \E s \in inside : pc[s] = "unlock" /\ s \notin inside']_vars

(* A free lock that tasks wait for is taken again. *)
LockMovesOn == (~held /\ waiters # <<>>) ~> held

=============================================================================
