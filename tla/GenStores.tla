------------------------------- MODULE GenStores -------------------------------
(***************************************************************************)
(* `&mut` into an object (src/codegen/expr.c, stmt.c), over the generations *)
(* of module Gen.  The barrier runs when the reference is made; a store     *)
(* through the reference has none.                                          *)
(***************************************************************************)
EXTENDS Gen

CONSTANTS Nothing

VARIABLES ref           \* the position a task holds a &mut to

InitStores == Init /\ ref = [t \in Tasks |-> Nothing]

(* `&mut o.f`: the container is remembered here. *)
Borrow(t, o, i) ==
    /\ Running(t) /\ ref[t] = Nothing /\ o \in roots[t] /\ i \in DOMAIN slots[o]
    /\ Lower(o, 0)
    /\ Remember(t, o)
    /\ ref' = [ref EXCEPT ![t] = [obj |-> o, pos |-> i]]
    /\ UNCHANGED <<age, slots, orphans, sched, roots>>

(* `*r = v`, the last use of the reference. *)
StoreThrough(t, v) ==
    /\ Running(t) /\ ref[t] # Nothing /\ {ref[t].obj, v} \subseteq roots[t]
    /\ ref[t].pos \in DOMAIN slots[ref[t].obj]
    /\ slots' = [slots EXCEPT ![ref[t].obj][ref[t].pos] = v]
    /\ ref' = [ref EXCEPT ![t] = Nothing]
    /\ UNCHANGED <<age, clean, remembered, listed, sched, roots>>

NextStores ==
    \/ Next /\ UNCHANGED ref
    \/ \E t \in Tasks, o \in Objs :
         StoreThrough(t, o) \/ \E i \in 1..Width : Borrow(t, o, i)

SpecStores == InitStores /\ [][NextStores]_<<vars, ref>>
===============================================================================
