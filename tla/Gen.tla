---------------------------------- MODULE Gen ----------------------------------
(***************************************************************************)
(* The generations of the collector (runtime/sl_gc.c) and the write        *)
(* barriers of the containers (runtime/sl_containers.c).  An object is      *)
(* young, aged (it survived one minor) or old.  A minor traces young        *)
(* objects only: from the tasks that ran recently, and from the remembered  *)
(* old objects, a list or map only past its frontier (gc_clean).  A         *)
(* collection is one step, because the world is stopped (module GcStw).     *)
(***************************************************************************)
EXTENDS Integers, Sequences, FiniteSets

CONSTANTS Objs, Tasks,
          Lists,        \* the objects that are lists or maps: they have a frontier
          Width         \* bound: elements of a list; another object has one pointer

ASSUME GenAssumption == Lists \subseteq Objs /\ Width \in Nat

VARIABLES age,          \* gen: "young" is 0, "aged" 2, "old" 1
          slots,        \* an object's pointers
          clean,        \* gc_clean: positions up to it hold nothing young
          remembered,   \* the object's flag
          shard,        \* gc_rem_buf of each task
          orphans,      \* sl_gc_rem_orphans
          state,        \* where a task is
          async,        \* async_preempted
          roots,        \* what a task's safepoints (or its saved registers) name
          idle          \* minors since the task stopped, counted up to 2

heap == <<age, slots, clean, remembered>>
listed == <<shard, orphans>>
sched == <<state, async, idle>>
vars == <<heap, listed, sched, roots>>

Young == {o \in Objs : age[o] \in {"young", "aged"}}
Old == {o \in Objs : age[o] = "old"}
Entries == orphans \cup UNION {shard[t] : t \in Tasks}

Init ==
    /\ age = [o \in Objs |-> "free"]
    /\ slots = [o \in Objs |-> <<>>]
    /\ clean = [o \in Objs |-> 0]
    /\ remembered = [o \in Objs |-> FALSE]
    /\ shard = [t \in Tasks |-> {}]
    /\ orphans = {}
    /\ \E main \in Tasks : state = [t \in Tasks |-> IF t = main THEN "running" ELSE "gone"]
    /\ async = [t \in Tasks |-> FALSE]
    /\ roots = [t \in Tasks |-> {}]
    /\ idle = [t \in Tasks |-> 0]

Running(t) == state[t] = "running"
Room(o) == IF o \in Lists THEN Width ELSE 1

-------------------------------------------------------------------------------
(* Allocation, loads, and stores with their barriers.                       *)

(* sl_gc_alloc: born young. *)
Alloc(t, o) ==
    /\ Running(t) /\ age[o] = "free"
    /\ age' = [age EXCEPT ![o] = "young"]
    /\ roots' = [roots EXCEPT ![t] = @ \cup {o}]
    /\ UNCHANGED <<slots, clean, remembered, listed, sched>>

Load(t, o, i) ==
    /\ Running(t) /\ o \in roots[t] /\ i \in DOMAIN slots[o]
    /\ roots' = [roots EXCEPT ![t] = @ \cup {slots[o][i]}]
    /\ UNCHANGED <<heap, listed, sched>>

(* A variable that is not live any more. *)
Drop(t, o) ==
    /\ Running(t) /\ o \in roots[t]
    /\ roots' = [roots EXCEPT ![t] = @ \ {o}]
    /\ UNCHANGED <<heap, listed, sched>>

(* sl_gc_remember_obj: an old object, once. *)
Remember(t, o) ==
    IF age[o] = "old" /\ ~remembered[o]
    THEN /\ remembered' = [remembered EXCEPT ![o] = TRUE]
         /\ shard' = [shard EXCEPT ![t] = @ \cup {o}]
    ELSE UNCHANGED <<remembered, shard>>

(* The frontier of o comes down to n; only lists and maps have one. *)
Lower(o, n) == clean' = [clean EXCEPT ![o] = IF o \in Lists /\ n < @ THEN n ELSE @]

(* sl_arr_push, and sl_map_put of a new key. *)
Push(t, o, v) ==
    /\ Running(t) /\ {o, v} \subseteq roots[t] /\ Len(slots[o]) < Room(o)
    /\ slots' = [slots EXCEPT ![o] = Append(@, v)]
    /\ Lower(o, Len(slots[o]))
    /\ Remember(t, o)
    /\ UNCHANGED <<age, orphans, sched, roots>>

(* a[i] = v: the position is known, and named to the barrier. *)
SetAt(t, o, i, v) ==
    /\ Running(t) /\ {o, v} \subseteq roots[t] /\ i \in DOMAIN slots[o]
    /\ slots' = [slots EXCEPT ![o][i] = v]
    /\ Lower(o, i - 1)
    /\ Remember(t, o)
    /\ UNCHANGED <<age, orphans, sched, roots>>

(* A map update, a struct field, a channel's buffer, a join's value: the    *)
(* whole object is dirty.                                                   *)
Update(t, o, i, v) ==
    /\ Running(t) /\ {o, v} \subseteq roots[t] /\ i \in DOMAIN slots[o]
    /\ slots' = [slots EXCEPT ![o][i] = v]
    /\ Lower(o, 0)
    /\ Remember(t, o)
    /\ UNCHANGED <<age, orphans, sched, roots>>

(* sl_arr_pop: the length goes down, with no barrier; the caller has the    *)
(* element.                                                                 *)
Pop(t, o) ==
    /\ Running(t) /\ o \in roots[t] \cap Lists /\ slots[o] # <<>>
    /\ slots' = [slots EXCEPT ![o] = SubSeq(@, 1, Len(@) - 1)]
    /\ roots' = [roots EXCEPT ![t] = @ \cup {slots[o][Len(slots[o])]}]
    /\ UNCHANGED <<age, clean, remembered, listed, sched>>

(* sl_map_del: the entries after the deleted one move down a position. *)
Delete(t, o, i) ==
    /\ Running(t) /\ o \in roots[t] \cap Lists /\ i \in DOMAIN slots[o]
    /\ slots' = [slots EXCEPT ![o] = SubSeq(@, 1, i - 1) \o SubSeq(@, i + 1, Len(@))]
    /\ Lower(o, i - 1)
    /\ UNCHANGED <<age, remembered, listed, sched, roots>>

-------------------------------------------------------------------------------
(* Tasks.                                                                   *)

(* A spawn: the child's arguments are in its entry_arg. *)
Spawn(t, u, v) ==
    /\ Running(t) /\ state[u] = "gone" /\ v \in roots[t]
    /\ state' = [state EXCEPT ![u] = "new"]
    /\ roots' = [roots EXCEPT ![u] = {v}]
    /\ UNCHANGED <<heap, listed, async, idle>>

(* A park, a yield or a preemption: the task is stamped with the number of  *)
(* minors done.                                                             *)
Stop(t, signalled) ==
    /\ Running(t)
    /\ state' = [state EXCEPT ![t] = "stopped"]
    /\ async' = [async EXCEPT ![t] = signalled]
    /\ idle' = [idle EXCEPT ![t] = 0]
    /\ UNCHANGED <<heap, listed, roots>>

Run(t) ==
    /\ state[t] \in {"new", "stopped"}
    /\ state' = [state EXCEPT ![t] = "running"]
    /\ async' = [async EXCEPT ![t] = FALSE]
    /\ idle' = [idle EXCEPT ![t] = 0]
    /\ UNCHANGED <<heap, listed, roots>>

(* sl_gc_flush_task: what a finished task remembered goes to the orphans. *)
Finish(t) ==
    /\ Running(t)
    /\ state' = [state EXCEPT ![t] = "gone"]
    /\ roots' = [roots EXCEPT ![t] = {}]
    /\ orphans' = orphans \cup shard[t]
    /\ shard' = [shard EXCEPT ![t] = {}]
    /\ UNCHANGED <<heap, async, idle>>

-------------------------------------------------------------------------------
(* Collections.                                                             *)

Kids(o, from) == {slots[o][i] : i \in {j \in DOMAIN slots[o] : j > from}}

(* The least set that holds `start` and, with an object of `through`, its    *)
(* pointers.                                                                *)
Closure(start, through) ==
    {o \in Objs : \A S \in SUBSET Objs :
        start \subseteq S /\ (\A p \in S \cap through : Kids(p, 0) \subseteq S) => o \in S}

(* What a mark reaches from `start` when it traces the objects of `through`. *)
Trace(start, through) == Closure(start, through)

(* Mutant: one minor is enough. *)
IdleAfterOne(t) == state[t] = "stopped" /\ ~async[t] /\ idle[t] >= 1

(* sl_gc_task_idle: two minors have scanned the task since it stopped. *)
Idle(t) == state[t] = "stopped" /\ ~async[t] /\ idle[t] >= 2

(* Mutant: a task that has not run yet has nothing to scan. *)
ScannedStarted == UNION {roots[t] : t \in {u \in Tasks : ~Idle(u) /\ state[u] # "new"}}

(* sl_gc_root_units_build: every task that runs, is queued or parked. *)
ScannedRoots == UNION {roots[t] : t \in {u \in Tasks : ~Idle(u)}}

(* The positions of a remembered object at which its trace meets an object  *)
(* that stays young: one that survives its first minor.                     *)
Met(e) == {i \in DOMAIN slots[e] : i > clean[e] /\ age[slots[e][i]] = "young"}

(* Mutant: the remembered objects are not traced. *)
MarkedFromRoots == Young \cap Trace(ScannedRoots, Young)

Marked ==
    Young \cap Trace(ScannedRoots \cup UNION {Kids(e, clean[e]) : e \in Entries}, Young)

Promoted == {o \in Marked : age[o] = "aged"}
Kept == {e \in Entries : Met(e) # {}}

(* Mutant: the frontier is left after the first young element. *)
FrontierPast(e) ==
    IF Met(e) = {} THEN Len(slots[e])
    ELSE CHOOSE i \in Met(e) : \A j \in Met(e) : i <= j

(* sl_gc_trace_arr_minor's new frontier. *)
Frontier(e) ==
    IF Met(e) = {} THEN Len(slots[e])
    ELSE (CHOOSE i \in Met(e) : \A j \in Met(e) : i <= j) - 1

(* sl_gc_page_sweep_minor and sl_gc_minor_promote; the entries kept by the  *)
(* mark and the promoted objects make the next minor's remembered set.      *)
SweepMinor ==
    /\ age' = [o \in Objs |-> IF o \in Promoted THEN "old"
                              ELSE IF o \in Marked THEN "aged"
                              ELSE IF o \in Young THEN "free" ELSE age[o]]
    /\ slots' = [o \in Objs |-> IF o \in Young \ Marked THEN <<>> ELSE slots[o]]
    /\ clean' = [o \in Objs |-> IF o \in Young THEN 0
                                ELSE IF o \in Entries \cap Lists THEN Frontier(o) ELSE clean[o]]
    /\ remembered' = [o \in Objs |->
                        IF o \in Entries \cup Promoted THEN o \in Kept \cup Promoted
                        ELSE remembered[o]]
    /\ orphans' = Kept \cup Promoted

Minor ==
    /\ SweepMinor
    /\ shard' = [t \in Tasks |-> {}]
    /\ idle' = [t \in Tasks |-> IF state[t] = "stopped" /\ idle[t] < 2 THEN idle[t] + 1 ELSE idle[t]]
    /\ UNCHANGED <<state, async, roots>>

(* sl_gc_collect: everything reachable survives and is old, and nothing is  *)
(* remembered.                                                              *)
Major ==
    LET live == Trace(UNION {roots[t] : t \in Tasks}, Objs)
    IN /\ age' = [o \in Objs |-> IF o \in live THEN "old" ELSE "free"]
       /\ slots' = [o \in Objs |-> IF o \in live THEN slots[o] ELSE <<>>]
       /\ clean' = [o \in Objs |-> IF o \in live THEN clean[o] ELSE 0]
       /\ remembered' = [o \in Objs |-> FALSE]
       /\ orphans' = {} /\ shard' = [t \in Tasks |-> {}]
       /\ UNCHANGED <<sched, roots>>

-------------------------------------------------------------------------------
Mutate(t) ==
    \/ \E o \in Objs :
         \/ Alloc(t, o) \/ Drop(t, o) \/ Pop(t, o)
         \/ \E v \in Objs : Push(t, o, v)
         \/ \E i \in 1..Width :
              \/ Load(t, o, i) \/ Delete(t, o, i)
              \/ \E v \in Objs : SetAt(t, o, i, v) \/ Update(t, o, i, v)
    \/ \E u \in Tasks, v \in Objs : Spawn(t, u, v)
    \/ Finish(t)

Next ==
    \/ \E t \in Tasks : Mutate(t) \/ Stop(t, TRUE) \/ Stop(t, FALSE) \/ Run(t)
    \/ Minor
    \/ Major

Spec == Init /\ [][Next]_vars

-------------------------------------------------------------------------------
(* Types: ages, flags and frontiers as sl_gc_obj and sl_arr declare them. *)
TypeOK ==
    /\ age \in [Objs -> {"free", "young", "aged", "old"}]
    /\ slots \in [Objs -> Seq(Objs)]
    /\ clean \in [Objs -> Nat]
    /\ remembered \in [Objs -> BOOLEAN]
    /\ shard \in [Tasks -> SUBSET Objs] /\ orphans \subseteq Objs
    /\ state \in [Tasks -> {"gone", "new", "running", "stopped"}]
    /\ async \in [Tasks -> BOOLEAN]
    /\ roots \in [Tasks -> SUBSET Objs]
    /\ idle \in [Tasks -> 0..2]

Reachable == Closure(UNION {roots[t] : t \in Tasks}, Objs)

(* What a task can still reach is never freed, by a minor or by a major. *)
LiveIsKept == \A o \in Reachable : age[o] # "free"

(* No old object, dead ones included, points at a freed object: a stale     *)
(* word on a scanned stack may bring a dead old object back into a mark.    *)
OldIsClosed == \A o \in Old : \A i \in DOMAIN slots[o] : age[slots[o][i]] # "free"

(* The next minor finds every pointer from an old object to a young one: in *)
(* a remembered object, past its frontier.                                  *)
OldYoungRemembered ==
    \A o \in Old : \A i \in DOMAIN slots[o] :
      slots[o][i] \in Young => o \in Entries /\ i > clean[o]

(* A task a minor leaves out holds nothing young. *)
IdleRootsAreOld == \A t \in Tasks : Idle(t) => roots[t] \subseteq Old

(* The flag that makes a barrier a no-op is set only on objects the next    *)
(* collection will harvest.                                                 *)
FlagMeansListed == \A o \in Objs : remembered[o] => o \in Entries
===============================================================================
