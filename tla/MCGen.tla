--------------------------------- MODULE MCGen ---------------------------------
(* Gen for TLC: tasks are interchangeable, and so are the objects of one kind. *)
EXTENDS Gen, TLC

Perms == {p \in Permutations(Objs \cup Tasks) :
            \A x \in Objs \cup Tasks : (x \in Tasks <=> p[x] \in Tasks) /\ (x \in Lists <=> p[x] \in Lists)}
===============================================================================
