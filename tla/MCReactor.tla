------------------------------ MODULE MCReactor ------------------------------
(* Two tasks, one descriptor number, the reactor thread and one polling      *)
(* worker.                                                                   *)
EXTENDS Reactor, TLC

Sym == Permutations(Tasks) \cup Permutations(Pollers)
===============================================================================
