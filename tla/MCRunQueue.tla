------------------------------ MODULE MCRunQueue ------------------------------
(* Two workers, one waker without a runnext slot and three tasks that hash   *)
(* to one stripe.                                                            *)
EXTENDS RunQueue, TLC

Together == [t \in Tasks |-> 1]

(* Sound where every task has the same stripe: no definition names a worker *)
(* or a task, and the runs that use it check invariants only.               *)
Alike == Permutations(Workers) \cup Permutations(Tasks)
===============================================================================
