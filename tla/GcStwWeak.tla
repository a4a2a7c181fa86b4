------------------------------- MODULE GcStwWeak -------------------------------
(***************************************************************************)
(* The same protocol on the memory order the code asks for.  A worker that  *)
(* leaves the network poll clears sl_rt_gc_blocked with a release store and *)
(* then checks in with acquire loads; nothing orders the two, so the loads  *)
(* may be performed while the store still sits in the core's store buffer.  *)
(***************************************************************************)
EXTENDS GcStw

VARIABLES buffered      \* threads whose clearing of `blocked` is not yet seen

weakVars == <<vars, buffered>>

WeakInit == Init /\ buffered = {}

(* The store is issued, and other threads see the old value. *)
UnblockBuffered(t) ==
    /\ At(t, "blocked")
    /\ buffered' = buffered \cup {t}
    /\ Goto(t, "checkin")
    /\ UNCHANGED <<shared, seen, kind, snap, left, then>>

(* The store reaches memory. *)
Flush(t) ==
    /\ t \in buffered
    /\ buffered' = buffered \ {t}
    /\ blocked' = [blocked EXCEPT ![t] = FALSE]
    /\ UNCHANGED <<registered, flags, locks, acked, pc, seen, kind, snap, left, then>>

(* Only the check-in's loads may overtake the store; whatever the thread    *)
(* does after them comes after a read-modify-write or a store.              *)
WeakNext ==
    \E t \in Threads :
      \/ UnblockBuffered(t) \/ Flush(t)
      \/ Checkin(t) /\ UNCHANGED buffered
      \/ t \notin buffered /\ Step(t) /\ UNCHANGED buffered

WeakSpec == WeakInit /\ [][WeakNext]_weakVars
===============================================================================
