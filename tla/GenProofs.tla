------------------------------- MODULE GenProofs -------------------------------
(***************************************************************************)
(* No collection frees an object that a task can reach, for any number of   *)
(* objects and tasks.                                                       *)
(*                                                                         *)
(* The invariant says why a minor may leave the old objects alone: whatever *)
(* young object an old one points at is past the frontier of a remembered   *)
(* object, and a task that is left out of the scan holds only old objects,  *)
(* since each of the two minors that scanned it made its roots older.       *)
(***************************************************************************)
EXTENDS Gen, SequenceTheorems, WellFoundedInduction, NaturalsInduction, TLAPS

(* Pointers and roots name allocated objects; a free object has no pointers. *)
PointersLive ==
    /\ \A o \in Objs : age[o] = "free" => slots[o] = <<>>
    /\ \A o \in Objs : \A i \in DOMAIN slots[o] : age[slots[o][i]] # "free"
    /\ \A t \in Tasks : \A o \in roots[t] : age[o] # "free"

(* A stopped task's roots age with every minor. *)
RootsAge ==
    \A t \in Tasks : state[t] = "stopped" /\ async[t] = FALSE =>
      /\ idle[t] >= 1 => \A o \in roots[t] : age[o] # "young"
      /\ idle[t] >= 2 => \A o \in roots[t] : age[o] = "old"

(* Only lists and maps have a frontier. *)
StructIsDirty == \A o \in Objs \ Lists : clean[o] = 0

IInv ==
    /\ TypeOK /\ PointersLive /\ OldYoungRemembered /\ FlagMeansListed
    /\ RootsAge /\ StructIsDirty

-------------------------------------------------------------------------------
(* A closure holds where it starts and what its objects point at. *)
LEMMA ClosureClosed ==
    ASSUME TypeOK, NEW start \in SUBSET Objs, NEW through
    PROVE  /\ Closure(start, through) \in SUBSET Objs
           /\ start \subseteq Closure(start, through)
           /\ \A p \in Closure(start, through) \cap through :
                Kids(p, 0) \subseteq Closure(start, through)
<1>1. Closure(start, through) \in SUBSET Objs /\ start \subseteq Closure(start, through)
  BY DEF Closure
<1>2. ASSUME NEW p \in Closure(start, through) \cap through, NEW k \in Kids(p, 0)
      PROVE  k \in Closure(start, through)
  <2>1. p \in Objs /\ p \in through BY DEF Closure
  <2>2. k \in Objs BY <2>1, <1>2 DEF TypeOK, Kids
  <2>3. ASSUME NEW S \in SUBSET Objs, start \subseteq S,
               \A q \in S \cap through : Kids(q, 0) \subseteq S
        PROVE  k \in S
    <3>1. p \in S BY <2>3 DEF Closure
    <3> QED BY <3>1, <2>1, <2>3, <1>2
  <2> QED BY <2>2, <2>3 DEF Closure
<1> QED BY <1>1, <1>2

(* Any closed set that holds the start holds the closure. *)
LEMMA ClosureLeast ==
    ASSUME NEW start, NEW through, NEW S \in SUBSET Objs, start \subseteq S,
           \A p \in S \cap through : Kids(p, 0) \subseteq S
    PROVE  Closure(start, through) \subseteq S
BY DEF Closure

(* The pointers of an object are objects. *)
LEMMA KidsAreObjs ==
    ASSUME TypeOK, NEW o \in Objs, NEW n
    PROVE  Kids(o, n) \in SUBSET Objs
BY DEF TypeOK, Kids

(* What a minor marks: the young objects of the scanned roots and past the  *)
(* frontier of the remembered ones, and the young pointers of marked ones.  *)
LEMMA MarkedClosed ==
    ASSUME TypeOK
    PROVE  /\ Marked \subseteq Young
           /\ \A o \in ScannedRoots \cap Young : o \in Marked
           /\ \A e \in Entries \cap Objs : Kids(e, clean[e]) \cap Young \subseteq Marked
           /\ \A o \in Marked : Kids(o, 0) \cap Young \subseteq Marked
<1> DEFINE start == ScannedRoots \cup UNION {Kids(e, clean[e]) : e \in Entries}
<1>0. Entries \subseteq Objs BY DEF TypeOK, Entries
<1>1. ScannedRoots \subseteq Objs BY DEF TypeOK, ScannedRoots
<1>2. \A e \in Entries : Kids(e, clean[e]) \subseteq Objs BY <1>0, KidsAreObjs
<1>3. start \in SUBSET Objs BY <1>1, <1>2
<1>4. Marked = Young \cap Closure(start, Young) BY DEF Marked, Trace
<1> HIDE DEF start
<1>5. start \subseteq Closure(start, Young) BY <1>3, ClosureClosed
<1>6. \A p \in Closure(start, Young) \cap Young : Kids(p, 0) \subseteq Closure(start, Young)
  BY <1>3, ClosureClosed
<1>7. ScannedRoots \subseteq start /\ \A e \in Entries : Kids(e, clean[e]) \subseteq start
  BY DEF start
<1> QED BY <1>4, <1>5, <1>6, <1>7

-------------------------------------------------------------------------------
(* The empty heap satisfies it. *)
LEMMA InitIInv == Init => IInv
<1> SUFFICES ASSUME Init PROVE IInv
  OBVIOUS
<1>1. TypeOK
  <2>1. /\ age \in [Objs -> {"free", "young", "aged", "old"}]
        /\ slots \in [Objs -> Seq(Objs)]
        /\ clean \in [Objs -> Nat]
        /\ shard \in [Tasks -> SUBSET Objs] /\ orphans \subseteq Objs
        /\ roots \in [Tasks -> SUBSET Objs]
        /\ idle \in [Tasks -> 0..2]
    BY DEF Init
  <2>2. remembered \in [Objs -> BOOLEAN] /\ async \in [Tasks -> BOOLEAN]
    BY Zenon DEF Init
  <2>3. state \in [Tasks -> {"gone", "new", "running", "stopped"}]
    BY DEF Init
  <2> QED BY <2>1, <2>2, <2>3 DEF TypeOK
<1>2. PointersLive BY DEF Init, PointersLive
<1>3. OldYoungRemembered BY DEF Init, OldYoungRemembered, Old
<1>4. FlagMeansListed BY DEF Init, FlagMeansListed
<1>5. RootsAge BY DEF Init, RootsAge
<1>6. StructIsDirty BY DEF Init, StructIsDirty
<1> QED BY <1>1, <1>2, <1>3, <1>4, <1>5, <1>6 DEF IInv
-------------------------------------------------------------------------------
(* sl_gc_remember_obj leaves the flag true only of listed objects, and lists *)
(* an old one.                                                              *)
LEMMA RememberStep ==
    ASSUME TypeOK, FlagMeansListed, NEW t \in Tasks, NEW o \in Objs,
           Remember(t, o), orphans' = orphans
    PROVE  /\ remembered' \in [Objs -> BOOLEAN] /\ shard' \in [Tasks -> SUBSET Objs]
           /\ Entries \subseteq Entries'
           /\ age[o] = "old" => o \in Entries'
           /\ FlagMeansListed'
<1>1. CASE age[o] = "old" /\ ~remembered[o]
  <2>1. /\ remembered' = [remembered EXCEPT ![o] = TRUE]
        /\ shard' = [shard EXCEPT ![t] = @ \cup {o}]
    BY <1>1 DEF Remember
  <2>2. remembered' \in [Objs -> BOOLEAN] BY <2>1, Zenon DEF TypeOK
  <2>3. shard' \in [Tasks -> SUBSET Objs] BY <2>1 DEF TypeOK
  <2>4. o \in shard'[t] /\ \A u \in Tasks : shard[u] \subseteq shard'[u] BY <2>1 DEF TypeOK
  <2>5. Entries \subseteq Entries' /\ o \in Entries' BY <2>4 DEF Entries
  <2>6. \A p \in Objs : p # o => remembered'[p] = remembered[p] BY <2>1 DEF TypeOK
  <2> QED BY <2>2, <2>3, <2>5, <2>6 DEF FlagMeansListed
<1>2. CASE ~(age[o] = "old" /\ ~remembered[o])
  <2>1. remembered' = remembered /\ shard' = shard BY <1>2 DEF Remember
  <2>2. Entries' = Entries BY <2>1 DEF Entries
  <2> QED BY <1>2, <2>1, <2>2 DEF TypeOK, FlagMeansListed
<1> QED BY <1>1, <1>2

(* A frontier only comes down, and to n at the most. *)
LEMMA LowerStep ==
    ASSUME TypeOK, StructIsDirty, NEW o \in Objs, NEW n \in Nat, Lower(o, n)
    PROVE  /\ clean' \in [Objs -> Nat] /\ StructIsDirty'
           /\ \A p \in Objs : clean'[p] <= clean[p]
           /\ clean'[o] <= n
BY GenAssumption DEF TypeOK, StructIsDirty, Lower

(* A step that neither ages nor frees keeps the pointers live and the       *)
(* remembered set complete, if every pointer after it was there before and  *)
(* is not newly below the frontier, or is a root stored in a listed object. *)
LEMMA StoreStep ==
    ASSUME TypeOK, PointersLive, OldYoungRemembered, age' = age, Entries \subseteq Entries',
           \A p \in Objs : age[p] = "free" => slots'[p] = <<>>,
           \A t \in Tasks : \A r \in roots'[t] : age[r] # "free",
           \A p \in Objs : \A i \in DOMAIN slots'[p] :
              \/ \E j \in DOMAIN slots[p] :
                   slots'[p][i] = slots[p][j] /\ (j > clean[p] => i > clean'[p])
              \/ /\ age[slots'[p][i]] # "free"
                 /\ i > clean'[p] /\ (age[p] = "old" => p \in Entries')
    PROVE  PointersLive' /\ OldYoungRemembered'
<1>1. PointersLive' BY DEF PointersLive
<1>2. Old' = Old /\ Young' = Young BY DEF Old, Young
<1>3. OldYoungRemembered'
  <2> SUFFICES ASSUME NEW p \in Old, NEW i \in DOMAIN slots'[p], slots'[p][i] \in Young
               PROVE  p \in Entries' /\ i > clean'[p]
    BY <1>2 DEF OldYoungRemembered
  <2>1. p \in Objs /\ age[p] = "old" BY DEF Old
  <2> QED BY <2>1 DEF OldYoungRemembered
<1> QED BY <1>1, <1>3

(* One step per action of a task, one leaf per conjunct it can disturb. *)
LEMMA MutatorIInv ==
    ASSUME IInv, NEW t \in Tasks, Mutate(t) \/ Stop(t, TRUE) \/ Stop(t, FALSE) \/ Run(t)
    PROVE  IInv'
<1> USE GenAssumption
<1>1. ASSUME NEW o \in Objs, Alloc(t, o)
      PROVE  IInv'
  <2>1. TypeOK'
    BY <1>1 DEF IInv, TypeOK, Alloc, Running, heap, listed, sched
  <2>2. PointersLive'
    BY <1>1 DEF IInv, TypeOK, PointersLive, Alloc, Running, heap, listed, sched
  <2>3. OldYoungRemembered'
    BY SMTT(60), <1>1 DEF IInv, TypeOK, OldYoungRemembered, FlagMeansListed, StructIsDirty, PointersLive, Old, Young, Entries, Alloc, Running, heap, listed, sched
  <2>4. FlagMeansListed'
    BY <1>1 DEF IInv, TypeOK, FlagMeansListed, Entries, Alloc, Running, heap, listed, sched
  <2>5. RootsAge'
    BY <1>1 DEF IInv, TypeOK, RootsAge, PointersLive, Alloc, Running, heap, listed, sched
  <2>6. StructIsDirty'
    BY <1>1 DEF IInv, TypeOK, StructIsDirty, Alloc, Running, heap, listed, sched
  <2> QED BY <2>1, <2>2, <2>3, <2>4, <2>5, <2>6 DEF IInv
<1>2. ASSUME NEW o \in Objs, Drop(t, o)
      PROVE  IInv'
  <2>1. TypeOK'
    BY <1>2 DEF IInv, TypeOK, Drop, Running, heap, listed, sched
  <2>2. PointersLive'
    BY <1>2 DEF IInv, TypeOK, PointersLive, Drop, Running, heap, listed, sched
  <2>3. OldYoungRemembered'
    BY <1>2 DEF IInv, TypeOK, OldYoungRemembered, FlagMeansListed, StructIsDirty, PointersLive, Old, Young, Entries, Drop, Running, heap, listed, sched
  <2>4. FlagMeansListed'
    BY <1>2 DEF IInv, TypeOK, FlagMeansListed, Entries, Drop, Running, heap, listed, sched
  <2>5. RootsAge'
    BY <1>2 DEF IInv, TypeOK, RootsAge, PointersLive, Drop, Running, heap, listed, sched
  <2>6. StructIsDirty'
    BY <1>2 DEF IInv, TypeOK, StructIsDirty, Drop, Running, heap, listed, sched
  <2> QED BY <2>1, <2>2, <2>3, <2>4, <2>5, <2>6 DEF IInv
<1>3. ASSUME NEW u \in Tasks, NEW v \in Objs, Spawn(t, u, v)
      PROVE  IInv'
  <2>1. TypeOK'
    BY <1>3 DEF IInv, TypeOK, Spawn, Running, heap, listed, sched
  <2>2. PointersLive'
    BY <1>3 DEF IInv, TypeOK, PointersLive, Spawn, Running, heap, listed, sched
  <2>3. OldYoungRemembered'
    BY <1>3 DEF IInv, TypeOK, OldYoungRemembered, FlagMeansListed, StructIsDirty, PointersLive, Old, Young, Entries, Spawn, Running, heap, listed, sched
  <2>4. FlagMeansListed'
    BY <1>3 DEF IInv, TypeOK, FlagMeansListed, Entries, Spawn, Running, heap, listed, sched
  <2>5. RootsAge'
    BY <1>3 DEF IInv, TypeOK, RootsAge, PointersLive, Spawn, Running, heap, listed, sched
  <2>6. StructIsDirty'
    BY <1>3 DEF IInv, TypeOK, StructIsDirty, Spawn, Running, heap, listed, sched
  <2> QED BY <2>1, <2>2, <2>3, <2>4, <2>5, <2>6 DEF IInv
<1>4. ASSUME Finish(t)
      PROVE  IInv'
  <2>1. TypeOK'
    BY <1>4 DEF IInv, TypeOK, Finish, Running, heap, listed, sched
  <2>2. PointersLive'
    BY <1>4 DEF IInv, TypeOK, PointersLive, Finish, Running, heap, listed, sched
  <2>3. OldYoungRemembered'
    BY <1>4 DEF IInv, TypeOK, OldYoungRemembered, FlagMeansListed, StructIsDirty, PointersLive, Old, Young, Entries, Finish, Running, heap, listed, sched
  <2>4. FlagMeansListed'
    BY <1>4 DEF IInv, TypeOK, FlagMeansListed, Entries, Finish, Running, heap, listed, sched
  <2>5. RootsAge'
    BY <1>4 DEF IInv, TypeOK, RootsAge, PointersLive, Finish, Running, heap, listed, sched
  <2>6. StructIsDirty'
    BY <1>4 DEF IInv, TypeOK, StructIsDirty, Finish, Running, heap, listed, sched
  <2> QED BY <2>1, <2>2, <2>3, <2>4, <2>5, <2>6 DEF IInv
<1>5. ASSUME NEW s \in BOOLEAN, Stop(t, s)
      PROVE  IInv'
  <2>1. TypeOK'
    BY <1>5 DEF IInv, TypeOK, Stop, Running, heap, listed, sched
  <2>2. PointersLive'
    BY <1>5 DEF IInv, TypeOK, PointersLive, Stop, Running, heap, listed, sched
  <2>3. OldYoungRemembered'
    BY <1>5 DEF IInv, TypeOK, OldYoungRemembered, FlagMeansListed, StructIsDirty, PointersLive, Old, Young, Entries, Stop, Running, heap, listed, sched
  <2>4. FlagMeansListed'
    BY <1>5 DEF IInv, TypeOK, FlagMeansListed, Entries, Stop, Running, heap, listed, sched
  <2>5. RootsAge'
    BY <1>5 DEF IInv, TypeOK, RootsAge, PointersLive, Stop, Running, heap, listed, sched
  <2>6. StructIsDirty'
    BY <1>5 DEF IInv, TypeOK, StructIsDirty, Stop, Running, heap, listed, sched
  <2> QED BY <2>1, <2>2, <2>3, <2>4, <2>5, <2>6 DEF IInv
<1>6. ASSUME Run(t)
      PROVE  IInv'
  <2>1. TypeOK'
    BY <1>6 DEF IInv, TypeOK, Run, Running, heap, listed, sched
  <2>2. PointersLive'
    BY <1>6 DEF IInv, TypeOK, PointersLive, Run, Running, heap, listed, sched
  <2>3. OldYoungRemembered'
    BY <1>6 DEF IInv, TypeOK, OldYoungRemembered, FlagMeansListed, StructIsDirty, PointersLive, Old, Young, Entries, Run, Running, heap, listed, sched
  <2>4. FlagMeansListed'
    BY <1>6 DEF IInv, TypeOK, FlagMeansListed, Entries, Run, Running, heap, listed, sched
  <2>5. RootsAge'
    BY <1>6 DEF IInv, TypeOK, RootsAge, PointersLive, Run, Running, heap, listed, sched
  <2>6. StructIsDirty'
    BY <1>6 DEF IInv, TypeOK, StructIsDirty, Run, Running, heap, listed, sched
  <2> QED BY <2>1, <2>2, <2>3, <2>4, <2>5, <2>6 DEF IInv
<1>7. ASSUME NEW o \in Objs, NEW i \in 1..Width, Load(t, o, i)
      PROVE  IInv'
  <2>1. TypeOK'
    BY <1>7 DEF IInv, TypeOK, Load, Running, heap, listed, sched
  <2>2. PointersLive'
    BY <1>7 DEF IInv, TypeOK, PointersLive, Load, Running, heap, listed, sched
  <2>3. OldYoungRemembered'
    BY <1>7 DEF IInv, OldYoungRemembered, Old, Young, Entries, Load, heap, listed
  <2>4. FlagMeansListed'
    BY <1>7 DEF IInv, TypeOK, FlagMeansListed, Entries, Load, Running, heap, listed, sched
  <2>5. RootsAge'
    BY <1>7 DEF IInv, TypeOK, RootsAge, PointersLive, Load, Running, heap, listed, sched
  <2>6. StructIsDirty'
    BY SMTT(60), <1>7 DEF IInv, TypeOK, StructIsDirty, Load, Running, heap, listed, sched
  <2> QED BY <2>1, <2>2, <2>3, <2>4, <2>5, <2>6 DEF IInv
<1>8. ASSUME NEW o \in Objs, NEW v \in Objs, Push(t, o, v)
      PROVE  IInv'
  <2> USE DEF IInv
  <2>1. /\ o \in roots[t] /\ v \in roots[t] /\ age' = age /\ roots' = roots /\ orphans' = orphans
        /\ UNCHANGED sched /\ Lower(o, Len(slots[o])) /\ Remember(t, o) /\ Len(slots[o]) \in Nat
    BY <1>8 DEF Push, TypeOK
  <2>2. slots[o] \in Seq(Objs) /\ slots \in [Objs -> Seq(Objs)] /\ clean \in [Objs -> Nat] BY DEF TypeOK
  <2>3. /\ slots' \in [Objs -> Seq(Objs)]
        /\ DOMAIN slots'[o] = 1..(Len(slots[o]) + 1) /\ DOMAIN slots[o] = 1..Len(slots[o])
        /\ slots'[o][Len(slots[o]) + 1] = v
        /\ \A j \in DOMAIN slots[o] : slots'[o][j] = slots[o][j]
        /\ \A p \in Objs : p # o => slots'[p] = slots[p]
        /\ age[o] # "free"
    <3>1. slots' = [slots EXCEPT ![o] = Append(@, v)] BY <1>8 DEF Push
    <3>2. slots'[o] = Append(slots[o], v) BY <3>1, <2>2
    <3>3. age[o] # "free" BY <2>1 DEF PointersLive
    <3> QED BY SMTT(60), <3>1, <3>2, <3>3, <2>2
  <2>4. /\ remembered' \in [Objs -> BOOLEAN] /\ shard' \in [Tasks -> SUBSET Objs]
        /\ Entries \subseteq Entries' /\ (age[o] = "old" => o \in Entries') /\ FlagMeansListed'
    BY <2>1, RememberStep
  <2>5. /\ clean' \in [Objs -> Nat] /\ StructIsDirty' /\ \A p \in Objs : clean'[p] <= clean[p]
        /\ clean'[o] <= Len(slots[o])
    BY <2>1, LowerStep
  <2>6. TypeOK' BY SMTT(60), <2>1, <2>3, <2>4, <2>5 DEF TypeOK, sched
  <2>7. \A p \in Objs : age[p] = "free" => slots'[p] = <<>>
    BY Zenon, <2>1, <2>3 DEF PointersLive
  <2>8. \A p \in Objs : \A i1 \in DOMAIN slots'[p] :
          \/ \E j \in DOMAIN slots[p] :
               slots'[p][i1] = slots[p][j] /\ (j > clean[p] => i1 > clean'[p])
          \/ /\ age[slots'[p][i1]] # "free"
             /\ i1 > clean'[p] /\ (age[p] = "old" => p \in Entries')
    <3> SUFFICES ASSUME NEW p \in Objs, NEW i1 \in DOMAIN slots'[p]
                 PROVE  \/ \E j \in DOMAIN slots[p] :
                             slots'[p][i1] = slots[p][j] /\ (j > clean[p] => i1 > clean'[p])
                        \/ /\ age[slots'[p][i1]] # "free"
                           /\ i1 > clean'[p] /\ (age[p] = "old" => p \in Entries')
      OBVIOUS
    <3>0. slots'[p] \in Seq(Objs) /\ slots[p] \in Seq(Objs) BY <2>2, <2>3
    <3>1. i1 \in Nat BY <3>0
    <3>2. CASE p = o /\ i1 = Len(slots[o]) + 1
      <4>1. slots'[p][i1] = v /\ age[v] # "free" BY <3>2, <2>1, <2>3 DEF PointersLive
      <4>2. clean'[o] \in Nat /\ Len(slots[o]) \in Nat /\ Len(slots[o]) < Len(slots[o]) + 1 BY <2>1, <2>5
      <4>3. i1 > clean'[p] BY <3>2, <4>2, <2>5, <3>1
      <4> QED BY SMTT(60), <4>1, <4>3, <3>2, <2>4
    <3>3. CASE ~(p = o /\ i1 = Len(slots[o]) + 1)
      <4>1. i1 \in DOMAIN slots[p] /\ slots'[p][i1] = slots[p][i1]
        <5>1. CASE p = o
          <6>1. i1 \in DOMAIN slots[o] BY <5>1, <3>3, <2>3, <3>0, <3>1
          <6> QED BY <5>1, <6>1, <3>3, <2>3
        <5>2. CASE p # o BY <5>2, <2>3
        <5> QED BY <5>1, <5>2
      <4>2. i1 > clean[p] => i1 > clean'[p] BY SMTT(60), <3>1, <2>5, <2>2
      <4> QED BY <4>1, <4>2
    <3> QED BY <3>2, <3>3
  <2>9. PointersLive' /\ OldYoungRemembered'
    <3>1. \A u \in Tasks : \A r \in roots'[u] : age[r] # "free" BY <2>1 DEF PointersLive
    <3> QED BY SMTT(60), <3>1, <2>1, <2>4, <2>7, <2>8, StoreStep
  <2>10. RootsAge' BY SMTT(60), <2>1 DEF RootsAge, sched
  <2> QED BY <2>4, <2>5, <2>6, <2>9, <2>10
<1>9. ASSUME NEW o \in Objs, NEW i \in 1..Width, NEW v \in Objs, SetAt(t, o, i, v)
      PROVE  IInv'
  <2> USE DEF IInv
  <2>1. /\ o \in roots[t] /\ v \in roots[t] /\ age' = age /\ roots' = roots /\ orphans' = orphans
        /\ UNCHANGED sched /\ Lower(o, i - 1) /\ Remember(t, o) /\ i - 1 \in Nat
    BY <1>9 DEF SetAt, TypeOK
  <2>2. slots[o] \in Seq(Objs) /\ slots \in [Objs -> Seq(Objs)] /\ clean \in [Objs -> Nat] BY DEF TypeOK
  <2>3. /\ slots' \in [Objs -> Seq(Objs)]
        /\ i \in DOMAIN slots[o] /\ DOMAIN slots'[o] = DOMAIN slots[o] /\ slots'[o][i] = v
        /\ \A j \in DOMAIN slots[o] : j # i => slots'[o][j] = slots[o][j]
        /\ \A p \in Objs : p # o => slots'[p] = slots[p]
        /\ age[o] # "free"
    <3>1. slots' = [slots EXCEPT ![o][i] = v] /\ i \in DOMAIN slots[o] BY <1>9 DEF SetAt
    <3>2. slots'[o] = [slots[o] EXCEPT ![i] = v] BY <3>1, <2>2
    <3>3. age[o] # "free" BY <2>1 DEF PointersLive
    <3> QED BY <3>1, <3>2, <3>3, <2>2
  <2>4. /\ remembered' \in [Objs -> BOOLEAN] /\ shard' \in [Tasks -> SUBSET Objs]
        /\ Entries \subseteq Entries' /\ (age[o] = "old" => o \in Entries') /\ FlagMeansListed'
    BY <2>1, RememberStep
  <2>5. /\ clean' \in [Objs -> Nat] /\ StructIsDirty' /\ \A p \in Objs : clean'[p] <= clean[p]
        /\ clean'[o] <= i - 1
    BY <2>1, LowerStep
  <2>6. TypeOK' BY Zenon, <2>1, <2>3, <2>4, <2>5 DEF TypeOK, sched
  <2>7. \A p \in Objs : age[p] = "free" => slots'[p] = <<>>
    BY Zenon, <2>1, <2>3 DEF PointersLive
  <2>8. \A p \in Objs : \A i1 \in DOMAIN slots'[p] :
          \/ \E j \in DOMAIN slots[p] :
               slots'[p][i1] = slots[p][j] /\ (j > clean[p] => i1 > clean'[p])
          \/ /\ age[slots'[p][i1]] # "free"
             /\ i1 > clean'[p] /\ (age[p] = "old" => p \in Entries')
    <3> SUFFICES ASSUME NEW p \in Objs, NEW i1 \in DOMAIN slots'[p]
                 PROVE  \/ \E j \in DOMAIN slots[p] :
                             slots'[p][i1] = slots[p][j] /\ (j > clean[p] => i1 > clean'[p])
                        \/ /\ age[slots'[p][i1]] # "free"
                           /\ i1 > clean'[p] /\ (age[p] = "old" => p \in Entries')
      OBVIOUS
    <3>0. slots'[p] \in Seq(Objs) /\ slots[p] \in Seq(Objs) BY <2>2, <2>3
    <3>1. i1 \in Nat BY <3>0
    <3>2. CASE p = o /\ i1 = i
      <4>1. slots'[p][i1] = v /\ age[v] # "free" BY <3>2, <2>1, <2>3 DEF PointersLive
      <4>2. clean'[o] \in Nat /\ i - 1 \in Nat /\ i - 1 < i BY <2>1, <2>5
      <4>3. i1 > clean'[p] BY <3>2, <4>2, <2>5, <3>1
      <4> QED BY SMTT(60), <4>1, <4>3, <3>2, <2>4
    <3>3. CASE ~(p = o /\ i1 = i)
      <4>1. i1 \in DOMAIN slots[p] /\ slots'[p][i1] = slots[p][i1]
        <5>1. CASE p = o
          <6>1. i1 \in DOMAIN slots[o] BY <5>1, <3>3, <2>3, <3>0, <3>1
          <6> QED BY <5>1, <6>1, <3>3, <2>3
        <5>2. CASE p # o BY <5>2, <2>3
        <5> QED BY <5>1, <5>2
      <4>2. i1 > clean[p] => i1 > clean'[p] BY SMTT(60), <3>1, <2>5, <2>2
      <4> QED BY <4>1, <4>2
    <3> QED BY <3>2, <3>3
  <2>9. PointersLive' /\ OldYoungRemembered'
    <3>1. \A u \in Tasks : \A r \in roots'[u] : age[r] # "free" BY SMTT(60), <2>1 DEF PointersLive
    <3> QED BY SMTT(60), <3>1, <2>1, <2>4, <2>7, <2>8, StoreStep
  <2>10. RootsAge' BY <2>1 DEF RootsAge, sched
  <2> QED BY <2>4, <2>5, <2>6, <2>9, <2>10
<1>10. ASSUME NEW o \in Objs, NEW i \in 1..Width, NEW v \in Objs, Update(t, o, i, v)
      PROVE  IInv'
  <2> USE DEF IInv
  <2>1. /\ o \in roots[t] /\ v \in roots[t] /\ age' = age /\ roots' = roots /\ orphans' = orphans
        /\ UNCHANGED sched /\ Lower(o, 0) /\ Remember(t, o) /\ 0 \in Nat
    BY <1>10 DEF Update, TypeOK
  <2>2. slots[o] \in Seq(Objs) /\ slots \in [Objs -> Seq(Objs)] /\ clean \in [Objs -> Nat] BY DEF TypeOK
  <2>3. /\ slots' \in [Objs -> Seq(Objs)]
        /\ i \in DOMAIN slots[o] /\ DOMAIN slots'[o] = DOMAIN slots[o] /\ slots'[o][i] = v
        /\ \A j \in DOMAIN slots[o] : j # i => slots'[o][j] = slots[o][j]
        /\ \A p \in Objs : p # o => slots'[p] = slots[p]
        /\ age[o] # "free"
    <3>1. slots' = [slots EXCEPT ![o][i] = v] /\ i \in DOMAIN slots[o] BY SMTT(60), <1>10 DEF Update
    <3>2. slots'[o] = [slots[o] EXCEPT ![i] = v] BY <3>1, <2>2
    <3>3. age[o] # "free" BY <2>1 DEF PointersLive
    <3> QED BY <3>1, <3>2, <3>3, <2>2
  <2>4. /\ remembered' \in [Objs -> BOOLEAN] /\ shard' \in [Tasks -> SUBSET Objs]
        /\ Entries \subseteq Entries' /\ (age[o] = "old" => o \in Entries') /\ FlagMeansListed'
    BY <2>1, RememberStep
  <2>5. /\ clean' \in [Objs -> Nat] /\ StructIsDirty' /\ \A p \in Objs : clean'[p] <= clean[p]
        /\ clean'[o] <= 0
    BY <2>1, LowerStep
  <2>6. TypeOK' BY Zenon, <2>1, <2>3, <2>4, <2>5 DEF TypeOK, sched
  <2>7. \A p \in Objs : age[p] = "free" => slots'[p] = <<>>
    BY ZenonT(60), <2>1, <2>3 DEF PointersLive
  <2>8. \A p \in Objs : \A i1 \in DOMAIN slots'[p] :
          \/ \E j \in DOMAIN slots[p] :
               slots'[p][i1] = slots[p][j] /\ (j > clean[p] => i1 > clean'[p])
          \/ /\ age[slots'[p][i1]] # "free"
             /\ i1 > clean'[p] /\ (age[p] = "old" => p \in Entries')
    <3> SUFFICES ASSUME NEW p \in Objs, NEW i1 \in DOMAIN slots'[p]
                 PROVE  \/ \E j \in DOMAIN slots[p] :
                             slots'[p][i1] = slots[p][j] /\ (j > clean[p] => i1 > clean'[p])
                        \/ /\ age[slots'[p][i1]] # "free"
                           /\ i1 > clean'[p] /\ (age[p] = "old" => p \in Entries')
      OBVIOUS
    <3>0. slots'[p] \in Seq(Objs) /\ slots[p] \in Seq(Objs) BY <2>2, <2>3
    <3>1. i1 \in Nat BY <3>0
    <3>2. CASE p = o /\ i1 = i
      <4>1. slots'[p][i1] = v /\ age[v] # "free" BY <3>2, <2>1, <2>3 DEF PointersLive
      <4>2. clean'[o] \in Nat /\ 0 \in Nat /\ 0 < i BY <2>1, <2>5
      <4>3. i1 > clean'[p] BY SMTT(60), <3>2, <4>2, <2>5, <3>1
      <4> QED BY <4>1, <4>3, <3>2, <2>4
    <3>3. CASE ~(p = o /\ i1 = i)
      <4>1. i1 \in DOMAIN slots[p] /\ slots'[p][i1] = slots[p][i1]
        <5>1. CASE p = o
          <6>1. i1 \in DOMAIN slots[o] BY <5>1, <3>3, <2>3, <3>0, <3>1
          <6> QED BY <5>1, <6>1, <3>3, <2>3
        <5>2. CASE p # o BY <5>2, <2>3
        <5> QED BY <5>1, <5>2
      <4>2. i1 > clean[p] => i1 > clean'[p] BY SMTT(60), <3>1, <2>5, <2>2
      <4> QED BY <4>1, <4>2
    <3> QED BY <3>2, <3>3
  <2>9. PointersLive' /\ OldYoungRemembered'
    <3>1. \A u \in Tasks : \A r \in roots'[u] : age[r] # "free" BY SMTT(60), <2>1 DEF PointersLive
    <3> QED BY <3>1, <2>1, <2>4, <2>7, <2>8, StoreStep
  <2>10. RootsAge' BY <2>1 DEF RootsAge, sched
  <2> QED BY <2>4, <2>5, <2>6, <2>9, <2>10
<1>11. ASSUME NEW o \in Objs, Pop(t, o)
      PROVE  IInv'
  <2> USE DEF IInv
  <2>1. /\ o \in roots[t] /\ slots[o] # <<>> /\ age' = age /\ clean' = clean /\ UNCHANGED <<remembered, listed, sched>>
        /\ slots' = [slots EXCEPT ![o] = SubSeq(@, 1, Len(@) - 1)]
        /\ roots' = [roots EXCEPT ![t] = @ \cup {slots[o][Len(slots[o])]}]
    BY <1>11 DEF Pop
  <2>2. slots[o] \in Seq(Objs) /\ slots \in [Objs -> Seq(Objs)] /\ clean \in [Objs -> Nat] BY DEF TypeOK
  <2>3. /\ Len(slots[o]) \in DOMAIN slots[o] /\ slots'[o] \in Seq(Objs)
        /\ DOMAIN slots'[o] = 1..(Len(slots[o]) - 1)
        /\ \A j \in DOMAIN slots'[o] : j \in DOMAIN slots[o] /\ slots'[o][j] = slots[o][j]
        /\ \A p \in Objs : p # o => slots'[p] = slots[p]
    <3>1. slots'[o] = SubSeq(slots[o], 1, Len(slots[o]) - 1) BY <2>1, <2>2
    <3>2. Len(slots[o]) \in Nat /\ Len(slots[o]) >= 1 BY <2>1, <2>2
    <3> QED BY SMTT(60), <3>1, <3>2, <2>1, <2>2
  <2>4. slots' \in [Objs -> Seq(Objs)] BY <2>1, <2>2, <2>3
  <2>5. slots[o][Len(slots[o])] \in Objs /\ age[slots[o][Len(slots[o])]] # "free"
    BY <2>2, <2>3 DEF PointersLive
  <2>6. roots' \in [Tasks -> SUBSET Objs] BY <2>1, <2>5 DEF TypeOK
  <2>7. TypeOK' BY <2>1, <2>4, <2>6 DEF TypeOK, listed, sched
  <2>8. Entries' = Entries BY <2>1 DEF Entries, listed
  <2>9. \A u \in Tasks : \A r \in roots'[u] : age[r] # "free"
    BY SMTT(60), <2>1, <2>5 DEF PointersLive, TypeOK
  <2>10. \A p \in Objs : age[p] = "free" => slots'[p] = <<>>
    <3>1. age[o] # "free" BY <2>1 DEF PointersLive
    <3> QED BY <3>1, <2>3 DEF PointersLive
  <2>11. \A p \in Objs : \A i \in DOMAIN slots'[p] :
           \E j \in DOMAIN slots[p] : slots'[p][i] = slots[p][j] /\ (j > clean[p] => i > clean'[p])
    BY SMTT(60), <2>1, <2>3
  <2>12. PointersLive' /\ OldYoungRemembered'
    BY <2>1, <2>8, <2>9, <2>10, <2>11, StoreStep
  <2>13. FlagMeansListed' BY <2>1, <2>8 DEF FlagMeansListed
  <2>14. RootsAge' BY <2>1, <1>11 DEF RootsAge, sched, Pop, Running, TypeOK
  <2>15. StructIsDirty' BY <2>1 DEF StructIsDirty
  <2> QED BY <2>7, <2>12, <2>13, <2>14, <2>15
<1>12. ASSUME NEW o \in Objs, NEW i \in 1..Width, Delete(t, o, i)
      PROVE  IInv'
  <2> USE DEF IInv
  <2>1. /\ o \in roots[t] /\ i \in DOMAIN slots[o] /\ age' = age /\ roots' = roots
        /\ UNCHANGED <<remembered, listed, sched>> /\ Lower(o, i - 1) /\ i - 1 \in Nat
        /\ slots' = [slots EXCEPT ![o] = SubSeq(@, 1, i - 1) \o SubSeq(@, i + 1, Len(@))]
    BY <1>12 DEF Delete
  <2>2. slots[o] \in Seq(Objs) /\ slots \in [Objs -> Seq(Objs)] /\ clean \in [Objs -> Nat] BY SMTT(60) DEF TypeOK
  <2>3. /\ slots'[o] \in Seq(Objs)
        /\ DOMAIN slots'[o] = 1..(Len(slots[o]) - 1) /\ DOMAIN slots[o] = 1..Len(slots[o])
        /\ \A j \in DOMAIN slots'[o] : slots'[o][j] = slots[o][IF j < i THEN j ELSE j + 1]
        /\ \A p \in Objs : p # o => slots'[p] = slots[p]
    <3> DEFINE a == SubSeq(slots[o], 1, i - 1)
               b == SubSeq(slots[o], i + 1, Len(slots[o]))
    <3>1. slots'[o] = a \o b BY Zenon, <2>1, <2>2
    <3>2. Len(slots[o]) \in Nat /\ i \in 1..Len(slots[o]) /\ DOMAIN slots[o] = 1..Len(slots[o])
      <4>1. slots[o] \in Seq(Objs) /\ i \in DOMAIN slots[o] BY <2>1, <2>2
      <4> QED BY <4>1
    <3>3. a \in Seq(Objs) /\ Len(a) = i - 1 /\ \A j \in 1..(i - 1) : a[j] = slots[o][j]
      <4>1. 1 \in Int /\ i - 1 \in Int BY <3>2
      <4>2. \A k \in 1..(i - 1) : slots[o][k] \in Objs BY <3>2, <2>2
      <4>3. /\ a \in Seq(Objs)
            /\ Len(a) = IF 1 <= i - 1 THEN i - 1 - 1 + 1 ELSE 0
            /\ \A j \in 1..(i - 1 - 1 + 1) : a[j] = slots[o][1 + j - 1]
        BY <4>1, <4>2, SubSeqProperties
      <4> HIDE DEF a
      <4> QED BY <4>3, <3>2
    <3>4. b \in Seq(Objs) /\ Len(b) = Len(slots[o]) - i /\ \A j \in 1..(Len(slots[o]) - i) : b[j] = slots[o][i + j]
      <4>1. i + 1 \in Int /\ Len(slots[o]) \in Int BY <3>2
      <4>2. \A k \in (i + 1)..Len(slots[o]) : slots[o][k] \in Objs BY <3>2, <2>2
      <4>3. /\ b \in Seq(Objs)
            /\ Len(b) = IF i + 1 <= Len(slots[o]) THEN Len(slots[o]) - (i + 1) + 1 ELSE 0
            /\ \A j \in 1..(Len(slots[o]) - (i + 1) + 1) : b[j] = slots[o][(i + 1) + j - 1]
        BY <4>1, <4>2, SubSeqProperties
      <4>4. Len(b) = Len(slots[o]) - i BY <4>3, <3>2
      <4>5. ASSUME NEW j \in 1..(Len(slots[o]) - i) PROVE b[j] = slots[o][i + j]
        <5>1. j \in 1..(Len(slots[o]) - (i + 1) + 1) /\ (i + 1) + j - 1 = i + j BY <3>2, <4>5
        <5>2. b[j] = slots[o][(i + 1) + j - 1] BY SMTT(60), <4>3, <5>1
        <5> QED BY <5>1, <5>2
      <4> HIDE DEF b
      <4> QED BY <4>3, <4>4, <4>5
    <3> HIDE DEF a, b
    <3>5. a \o b \in Seq(Objs) /\ Len(a \o b) = Len(slots[o]) - 1
      <4>1. a \o b \in Seq(Objs) /\ Len(a \o b) = Len(a) + Len(b) BY Zenon, <3>3, <3>4, ConcatProperties
      <4> QED BY <4>1, <3>2, <3>3, <3>4
    <3>6. DOMAIN slots'[o] = 1..(Len(slots[o]) - 1)
      <4>1. slots'[o] \in Seq(Objs) /\ Len(slots'[o]) = Len(slots[o]) - 1 BY <3>1, <3>5
      <4> QED BY <4>1
    <3>7. ASSUME NEW j \in 1..(Len(slots[o]) - 1)
          PROVE  slots'[o][j] = slots[o][IF j < i THEN j ELSE j + 1]
      <4>1. CASE j < i BY <4>1, <3>1, <3>2, <3>3, <3>4
      <4>2. CASE ~(j < i)
        <5>1. j - (i - 1) \in 1..(Len(slots[o]) - i) /\ i + (j - (i - 1)) = j + 1 BY <4>2, <3>2, <3>7
        <5>2. (a \o b)[j] = b[j - (i - 1)] BY <5>1, <4>2, <3>2, <3>3, <3>4, <3>7
        <5> QED BY Zenon, <5>1, <5>2, <3>1, <3>4, <4>2
      <4> QED BY <4>1, <4>2
    <3> QED BY ZenonT(60), <2>1, <2>2, <3>1, <3>2, <3>5, <3>6, <3>7
  <2>4. slots' \in [Objs -> Seq(Objs)] BY Zenon, <2>1, <2>2, <2>3
  <2>5. /\ clean' \in [Objs -> Nat] /\ StructIsDirty' /\ \A p \in Objs : clean'[p] <= clean[p]
        /\ clean'[o] <= i - 1
    BY <2>1, LowerStep
  <2>7. TypeOK' BY SMTT(60), <2>1, <2>4, <2>5 DEF TypeOK, listed, sched
  <2>8. Entries' = Entries BY <2>1 DEF Entries, listed
  <2>9. \A u \in Tasks : \A r \in roots'[u] : age[r] # "free" BY <2>1 DEF PointersLive
  <2>10. \A p \in Objs : age[p] = "free" => slots'[p] = <<>>
    <3>1. age[o] # "free" BY SMTT(60), <2>1 DEF PointersLive
    <3> QED BY SMTT(60), <3>1, <2>3 DEF PointersLive
  <2>11. ASSUME NEW p \in Objs, NEW i1 \in DOMAIN slots'[p]
         PROVE  \E j \in DOMAIN slots[p] : slots'[p][i1] = slots[p][j] /\ (j > clean[p] => i1 > clean'[p])
    <3>1. CASE p = o
      <4>1. i1 \in 1..(Len(slots[o]) - 1) /\ Len(slots[o]) \in Nat BY <3>1, <2>2, <2>3
      <4>2. CASE i1 < i
        <5>1. i1 \in DOMAIN slots[p] /\ slots'[p][i1] = slots[p][i1] BY <4>1, <4>2, <3>1, <2>3
        <5>2. i1 > clean[p] => i1 > clean'[p] BY <4>1, <2>2, <2>5
        <5> QED BY <5>1, <5>2
      <4>3. CASE ~(i1 < i)
        <5>1. i1 + 1 \in DOMAIN slots[p] /\ slots'[p][i1] = slots[p][i1 + 1] BY SMTT(60), <4>1, <4>3, <3>1, <2>3
        <5>2. i1 > clean'[p] BY <4>1, <4>3, <3>1, <2>1, <2>5
        <5> QED BY <5>1, <5>2
      <4> QED BY <4>2, <4>3
    <3>2. CASE p # o
      <4>1. slots'[p] = slots[p] /\ i1 \in Nat BY SMTT(60), <3>2, <2>2, <2>3
      <4>2. i1 > clean[p] => i1 > clean'[p] BY <4>1, <2>2, <2>5
      <4> QED BY <4>1, <4>2
    <3> QED BY <3>1, <3>2
  <2>12. PointersLive' /\ OldYoungRemembered'
    BY Zenon, <2>1, <2>8, <2>9, <2>10, <2>11, StoreStep
  <2>13. FlagMeansListed' BY <2>1, <2>8 DEF FlagMeansListed
  <2>14. RootsAge' BY <2>1 DEF RootsAge, sched
  <2> QED BY <2>5, <2>7, <2>12, <2>13, <2>14
<1> QED BY Zenon, <1>1, <1>2, <1>3, <1>4, <1>5, <1>6, <1>7, <1>8, <1>9, <1>10, <1>11, <1>12 DEF Mutate

-------------------------------------------------------------------------------
(* A non-empty set of positions has a first one. *)
LEMMA FirstPosition ==
    ASSUME NEW S \in SUBSET Nat, S # {}
    PROVE  \E i \in S : \A j \in S : i <= j
<1>1. \E i \in S : \A j \in S : ~(<<j, i>> \in OpToRel(<, Nat))
  BY Zenon, NatLessThanWellFounded, WFMin
<1>2. PICK i \in S : \A j \in S : ~(<<j, i>> \in OpToRel(<, Nat)) BY Zenon, <1>1
<1>3. \A j \in S : ~(j < i) BY Zenon, <1>2 DEF OpToRel
<1> QED BY <1>3

(* The new frontier is before the first position that still holds something *)
(* young.                                                                   *)
LEMMA FrontierStep ==
    ASSUME TypeOK, NEW e \in Objs
    PROVE  Frontier(e) \in Nat /\ \A i \in Met(e) : Frontier(e) < i
<1>1. slots[e] \in Seq(Objs) /\ Met(e) \subseteq Nat \ {0} BY DEF TypeOK, Met
<1>2. CASE Met(e) = {} BY <1>1, <1>2 DEF Frontier
<1>3. CASE Met(e) # {}
  <2>1. \E i \in Met(e) : \A j \in Met(e) : i <= j BY <1>1, <1>3, FirstPosition
  <2> DEFINE first == CHOOSE i \in Met(e) : \A j \in Met(e) : i <= j
  <2>2. first \in Met(e) /\ \A j \in Met(e) : first <= j BY <2>1
  <2>3. Frontier(e) = first - 1 BY <1>3 DEF Frontier
  <2> HIDE DEF first
  <2> QED BY <1>1, <2>2, <2>3
<1> QED BY <1>2, <1>3

(* What a minor does not free keeps only pointers that it does not free. *)
LEMMA SurvivorsPoint ==
    ASSUME IInv, NEW o \in Objs, age[o] # "free", o \notin Young \ Marked,
           NEW i \in DOMAIN slots[o]
    PROVE  /\ slots[o][i] \in Objs /\ age[slots[o][i]] # "free"
           /\ slots[o][i] \in Young => slots[o][i] \in Marked
<1>1. slots[o][i] \in Objs /\ age[slots[o][i]] # "free" /\ i \in Nat \ {0}
  <2>1. slots[o] \in Seq(Objs) BY DEF IInv, TypeOK
  <2> QED BY <2>1 DEF IInv, PointersLive
<1>2. ASSUME slots[o][i] \in Young PROVE slots[o][i] \in Marked
  <2>1. CASE o \in Old
    <3>1. o \in Entries /\ i > clean[o] BY <1>2, <2>1 DEF IInv, OldYoungRemembered
    <3>2. slots[o][i] \in Kids(o, clean[o]) BY <3>1 DEF Kids
    <3> QED BY <1>2, <3>1, <3>2, MarkedClosed DEF IInv
  <2>2. CASE o \in Marked
    <3>1. slots[o][i] \in Kids(o, 0) BY <1>1 DEF Kids
    <3> QED BY <1>2, <2>2, <3>1, MarkedClosed DEF IInv
  <2>3. o \in Old \/ o \in Young BY DEF IInv, TypeOK, Old, Young
  <2> QED BY <2>1, <2>2, <2>3
<1> QED BY <1>1, <1>2

(* A minor frees no root: it scans every task but those whose roots are old. *)
LEMMA RootsMarked ==
    ASSUME IInv, NEW t \in Tasks, NEW r \in roots[t], r \in Young
    PROVE  r \in Marked /\ idle[t] \in 0..2
           /\ (state[t] = "stopped" /\ async[t] = FALSE => idle[t] # 2)
<1>0. async[t] \in BOOLEAN BY Zenon DEF IInv, TypeOK
<1>1. idle[t] \in 0..2 /\ age[r] # "old" BY DEF IInv, TypeOK, Young
<1>2. state[t] = "stopped" /\ async[t] = FALSE => idle[t] # 2 BY <1>1 DEF IInv, RootsAge
<1>3. ~Idle(t)
  <2>1. ASSUME Idle(t) PROVE FALSE
    <3>1. state[t] = "stopped" /\ async[t] = FALSE BY <2>1, <1>0, Zenon DEF Idle
    <3>2. idle[t] >= 2 BY <2>1 DEF Idle
    <3> QED BY <1>1, <1>2, <3>1, <3>2
  <2> QED BY <2>1
<1>4. r \in ScannedRoots BY <1>3 DEF ScannedRoots
<1> QED BY <1>1, <1>2, <1>4, MarkedClosed DEF IInv

(* A minor keeps the invariant. *)
LEMMA MinorIInv ==
    ASSUME IInv, Minor
    PROVE  IInv'
<1> USE GenAssumption
<1>1. /\ \A o \in Objs : age'[o] = IF o \in Promoted THEN "old"
                                   ELSE IF o \in Marked THEN "aged"
                                   ELSE IF o \in Young THEN "free" ELSE age[o]
      /\ \A o \in Objs : slots'[o] = IF o \in Young \ Marked THEN <<>> ELSE slots[o]
      /\ \A o \in Objs : clean'[o] = IF o \in Young THEN 0
                           ELSE IF o \in Entries \cap Lists THEN Frontier(o) ELSE clean[o]
      /\ roots' = roots /\ state' = state /\ async' = async
  BY DEF Minor, SweepMinor
<1>2. /\ \A o \in Objs : remembered'[o] = IF o \in Entries \cup Promoted
                                          THEN o \in Kept \cup Promoted ELSE remembered[o]
      /\ orphans' = Kept \cup Promoted
  BY DEF Minor, SweepMinor
<1>3. Marked \subseteq Young /\ Promoted \subseteq Marked /\ Young \subseteq Objs /\ Entries \subseteq Objs
  BY MarkedClosed DEF IInv, TypeOK, Promoted, Young, Entries
<1>4. Entries' = Kept \cup Promoted
  <2>1. shard' = [t \in Tasks |-> {}] BY DEF Minor
  <2> QED BY <2>1, <1>2 DEF Entries
<1>5. TypeOK'
  <2>1. age' \in [Objs -> {"free", "young", "aged", "old"}]
    BY SMTT(60) DEF Minor, SweepMinor, IInv, TypeOK
  <2>2. slots' \in [Objs -> Seq(Objs)]
    <3>1. \A o \in Objs : (IF o \in Young \ Marked THEN <<>> ELSE slots[o]) \in Seq(Objs)
      BY DEF IInv, TypeOK
    <3> QED BY <3>1 DEF Minor, SweepMinor
  <2>3. clean' \in [Objs -> Nat]
    <3>1. \A o \in Objs : Frontier(o) \in Nat BY FrontierStep DEF IInv
    <3> QED BY <3>1 DEF Minor, SweepMinor, IInv, TypeOK
  <2>4. remembered' \in [Objs -> BOOLEAN]
    <3>1. ASSUME NEW o \in Objs
          PROVE  (IF o \in Entries \cup Promoted THEN o \in Kept \cup Promoted
                  ELSE remembered[o]) \in BOOLEAN
      <4>1. remembered[o] \in BOOLEAN BY Zenon DEF IInv, TypeOK
      <4>2. (o \in Kept \cup Promoted) \in BOOLEAN BY SMT
      <4>3. CASE o \in Entries \cup Promoted BY <4>2, <4>3, Zenon
      <4>4. CASE ~(o \in Entries \cup Promoted) BY <4>1, <4>4, Zenon
      <4> QED BY <4>3, <4>4
    <3> QED BY <3>1, Zenon DEF Minor, SweepMinor
  <2>5. shard' \in [Tasks -> SUBSET Objs] BY DEF Minor
  <2>6. orphans' \subseteq Objs BY <1>2, <1>3 DEF Kept
  <2>7. idle' \in [Tasks -> 0..2] BY DEF Minor, IInv, TypeOK
  <2> QED BY <2>1, <2>2, <2>3, <2>4, <2>5, <2>6, <2>7, <1>1 DEF IInv, TypeOK
<1>6. \A o \in Objs : age'[o] = "free" <=> (age[o] = "free" \/ o \in Young \ Marked)
  BY <1>1, <1>3 DEF Young
<1>7. PointersLive'
  <2>1. ASSUME NEW o \in Objs, age'[o] = "free" PROVE slots'[o] = <<>>
    BY <2>1, <1>1, <1>6 DEF IInv, PointersLive
  <2>2. ASSUME NEW o \in Objs, NEW i \in DOMAIN slots'[o] PROVE age'[slots'[o][i]] # "free"
    <3>1. o \notin Young \ Marked /\ slots'[o] = slots[o] BY <2>2, <1>1
    <3>2. age[o] # "free" BY <2>2, <3>1 DEF IInv, PointersLive
    <3> QED BY <3>1, <3>2, <1>6, SurvivorsPoint
  <2>3. ASSUME NEW t \in Tasks, NEW r \in roots'[t] PROVE age'[r] # "free"
    <3>1. r \in Objs /\ r \in roots[t] /\ age[r] # "free" BY <1>1 DEF IInv, TypeOK, PointersLive
    <3> QED BY Zenon, <3>1, <1>6, RootsMarked
  <2> QED BY SMTT(60), <2>1, <2>2, <2>3 DEF PointersLive
<1>8. OldYoungRemembered'
  <2> SUFFICES ASSUME NEW o \in Old', NEW i \in DOMAIN slots'[o], slots'[o][i] \in Young'
               PROVE  o \in Entries' /\ i > clean'[o]
    BY DEF OldYoungRemembered
  <2>1. o \in Objs /\ age'[o] = "old" BY DEF Old
  <2>2. o \notin Young \ Marked /\ slots'[o] = slots[o] BY <2>1, <1>1
  <2>3. i \in Nat \ {0} /\ i \in DOMAIN slots[o]
    <3>1. slots[o] \in Seq(Objs) BY <2>1 DEF IInv, TypeOK
    <3> QED BY <3>1, <2>2
  <2>4. slots[o][i] \in Marked /\ age[slots[o][i]] = "young"
    BY SMTT(60), <2>2, <1>1, <1>3 DEF Young, Promoted
  <2>5. CASE o \in Promoted
    BY <2>5, <2>1, <2>3, <1>1, <1>3, <1>4
  <2>6. CASE o \notin Promoted
    <3>1. o \in Old /\ o \notin Young BY <2>1, <2>6, <1>1 DEF Old, Young
    <3>2. o \in Entries /\ i > clean[o]
      BY <3>1, <2>3, <2>4, <1>3 DEF IInv, OldYoungRemembered
    <3>3. i \in Met(o) BY <3>2, <2>3, <2>4 DEF Met
    <3>4. o \in Entries' BY <3>2, <3>3, <1>4 DEF Kept
    <3>5. Frontier(o) \in Nat /\ Frontier(o) < i BY <3>3, <2>1, FrontierStep DEF IInv
    <3>6. clean'[o] = Frontier(o) \/ clean'[o] = clean[o] BY <3>1, <2>1, <1>1
    <3> QED BY SMTT(60), <3>2, <3>4, <3>5, <3>6, <2>3
  <2> QED BY <2>5, <2>6
<1>9. FlagMeansListed'
  BY Zenon, <1>2, <1>4 DEF IInv, FlagMeansListed
<1>10. RootsAge'
  <2> SUFFICES ASSUME NEW t \in Tasks, state[t] = "stopped", async[t] = FALSE
               PROVE  /\ \A r \in roots[t] : age'[r] # "young"
                      /\ idle'[t] >= 2 => \A r \in roots[t] : age'[r] = "old"
    BY Zenon, <1>1 DEF RootsAge
  <2>1. ASSUME NEW r \in roots[t] PROVE r \in Objs /\ age'[r] # "young"
    BY Zenon, <1>1 DEF IInv, TypeOK, Young
  <2>2. ASSUME idle'[t] >= 2, NEW r \in roots[t] PROVE age'[r] = "old"
    <3>1. idle[t] \in {1, 2}
      <4>1. idle[t] \in 0..2 BY DEF IInv, TypeOK
      <4>2. idle'[t] = IF state[t] = "stopped" /\ idle[t] < 2 THEN idle[t] + 1 ELSE idle[t] BY DEF Minor
      <4> QED BY <4>1, <4>2, <2>2
    <3>2. r \in Objs /\ age[r] \notin {"young", "free"}
      BY <2>1, <3>1 DEF IInv, RootsAge, PointersLive
    <3>3. CASE age[r] = "old" BY SMTT(60), <3>2, <3>3, <1>1, <1>3 DEF Young
    <3>4. CASE age[r] = "aged"
      <4>1. r \in Young BY <3>2, <3>4 DEF Young
      <4>2. r \in Promoted BY Zenon, <4>1, <3>4, RootsMarked DEF Promoted
      <4> QED BY SMTT(60), <4>2, <3>2, <1>1
    <3> QED BY <3>2, <3>3, <3>4 DEF IInv, TypeOK
  <2> QED BY <2>1, <2>2
<1>11. StructIsDirty' BY <1>1 DEF IInv, StructIsDirty
<1> QED BY <1>5, <1>7, <1>8, <1>9, <1>10, <1>11 DEF IInv

(* A major keeps the invariant: what it keeps is closed under pointers, and *)
(* all of it is old.                                                        *)
LEMMA MajorIInv ==
    ASSUME IInv, Major
    PROVE  IInv'
<1> DEFINE start == UNION {roots[t] : t \in Tasks}
           live == Closure(start, Objs)
<1>1. start \in SUBSET Objs BY DEF IInv, TypeOK
<1>2. /\ age' = [o \in Objs |-> IF o \in live THEN "old" ELSE "free"]
      /\ slots' = [o \in Objs |-> IF o \in live THEN slots[o] ELSE <<>>]
      /\ clean' = [o \in Objs |-> IF o \in live THEN clean[o] ELSE 0]
      /\ remembered' = [o \in Objs |-> FALSE]
      /\ orphans' = {} /\ shard' = [t \in Tasks |-> {}]
      /\ UNCHANGED <<sched, roots>>
  BY DEF Major, Trace
<1>3. \A t \in Tasks : roots[t] \subseteq start OBVIOUS
<1> HIDE DEF start
<1>4. live \in SUBSET Objs /\ start \subseteq live /\ \A p \in live : Kids(p, 0) \subseteq live
  BY <1>1, ClosureClosed DEF IInv
<1> HIDE DEF live
<1>5. TypeOK'
  <2>1. slots' \in [Objs -> Seq(Objs)]
    <3>1. \A o \in Objs : (IF o \in live THEN slots[o] ELSE <<>>) \in Seq(Objs) BY DEF IInv, TypeOK
    <3> QED BY <3>1, <1>2
  <2>2. remembered' \in [Objs -> BOOLEAN] BY <1>2, Zenon
  <2>3. /\ age' \in [Objs -> {"free", "young", "aged", "old"}] /\ clean' \in [Objs -> Nat]
        /\ shard' \in [Tasks -> SUBSET Objs] /\ orphans' \subseteq Objs
    BY <1>2 DEF IInv, TypeOK
  <2> QED BY <2>1, <2>2, <2>3, <1>2 DEF IInv, TypeOK, sched
<1>6. \A o \in Objs : (age'[o] = "old" /\ o \in live) \/ (age'[o] = "free" /\ o \notin live) BY <1>2
<1>7. PointersLive'
  <2>1. \A o \in Objs : age'[o] = "free" => slots'[o] = <<>> BY <1>2, <1>6
  <2>2. ASSUME NEW o \in Objs, NEW i \in DOMAIN slots'[o] PROVE age'[slots'[o][i]] # "free"
    <3>1. o \in live /\ slots'[o] = slots[o] BY <1>2
    <3>2. slots[o] \in Seq(Objs) BY DEF IInv, TypeOK
    <3>3. slots[o][i] \in Kids(o, 0) BY <3>1, <3>2 DEF Kids
    <3> QED BY <3>1, <3>3, <1>4, <1>6
  <2>3. ASSUME NEW t \in Tasks, NEW r \in roots'[t] PROVE age'[r] # "free"
    BY <1>2, <1>3, <1>4, <1>6
  <2> QED BY <2>1, <2>2, <2>3 DEF PointersLive
<1>8. OldYoungRemembered'
  <2>1. Young' = {} BY <1>6 DEF Young
  <2> QED BY <2>1 DEF OldYoungRemembered
<1>9. FlagMeansListed' BY <1>2 DEF FlagMeansListed
<1>10. RootsAge' BY <1>2, <1>3, <1>4, <1>6 DEF RootsAge
<1>11. StructIsDirty' BY <1>2, GenAssumption DEF IInv, StructIsDirty
<1> QED BY <1>5, <1>7, <1>8, <1>9, <1>10, <1>11 DEF IInv

(* The invariant holds for every number of tasks and objects. *)
LEMMA SpecIInv == Spec => []IInv
<1>1. IInv /\ [Next]_vars => IInv'
  <2> SUFFICES ASSUME IInv, [Next]_vars PROVE IInv' OBVIOUS
  <2>1. ASSUME NEW t \in Tasks, Mutate(t) \/ Stop(t, TRUE) \/ Stop(t, FALSE) \/ Run(t) PROVE IInv'
    BY Zenon, <2>1, MutatorIInv
  <2>2. CASE Minor BY <2>2, MinorIInv
  <2>3. CASE Major BY <2>3, MajorIInv
  <2>4. CASE UNCHANGED vars
    <3>1. TypeOK' BY <2>4 DEF IInv, TypeOK, vars, heap, listed, sched
    <3>2. PointersLive' BY SMTT(60), <2>4 DEF IInv, PointersLive, vars, heap, listed, sched
    <3>3. OldYoungRemembered' /\ FlagMeansListed'
      BY <2>4 DEF IInv, OldYoungRemembered, FlagMeansListed, Entries, Old, Young, vars, heap, listed, sched
    <3>4. RootsAge' /\ StructIsDirty'
      BY <2>4 DEF IInv, RootsAge, StructIsDirty, vars, heap, listed, sched
    <3> QED BY <3>1, <3>2, <3>3, <3>4 DEF IInv
  <2> QED BY Zenon, <2>1, <2>2, <2>3, <2>4 DEF Next
<1> QED BY InitIInv, <1>1, PTL DEF Spec

(* No collection frees what a task can reach through its roots, however old *)
(* the objects on the way are (sl_gc_collect_minor_real, sl_gc_collect).    *)
THEOREM ReachableIsKept == Spec => []LiveIsKept
<1>1. ASSUME IInv PROVE LiveIsKept
  <2> DEFINE S == {o \in Objs : age[o] # "free"}
             start == UNION {roots[t] : t \in Tasks}
  <2>1. start \subseteq S BY SMTT(60), <1>1 DEF IInv, TypeOK, PointersLive
  <2>2. ASSUME NEW p \in S, NEW k \in Kids(p, 0) PROVE k \in S
    <3>1. PICK i \in DOMAIN slots[p] : k = slots[p][i] BY <2>2 DEF Kids
    <3>2. slots[p] \in Seq(Objs) BY <1>1 DEF IInv, TypeOK
    <3>3. k \in Objs BY <3>1, <3>2
    <3> QED BY <3>1, <3>3, <1>1 DEF IInv, PointersLive
  <2>3. S \in SUBSET Objs OBVIOUS
  <2>4. Reachable = Closure(start, Objs) BY DEF Reachable
  <2> HIDE DEF start
  <2>5. Reachable \subseteq S
    <3>1. \A p \in S \cap Objs : Kids(p, 0) \subseteq S BY <2>2
    <3> HIDE DEF S
    <3> QED BY <2>1, <2>3, <2>4, <3>1, ClosureLeast
  <2> QED BY <2>5 DEF LiveIsKept
<1> QED BY <1>1, SpecIInv, PTL

(* Old objects, dead ones included, never point at freed memory, so a stale *)
(* word of a scanned stack cannot lead a mark into it.                      *)
THEOREM OldObjectsClosed == Spec => []OldIsClosed
<1>1. IInv => OldIsClosed BY DEF IInv, PointersLive, OldIsClosed, Old
<1> QED BY <1>1, SpecIInv, PTL

(* The remembered set is complete at every step of every task: a minor may  *)
(* start at any safepoint.                                                  *)
THEOREM RememberedComplete == Spec => []OldYoungRemembered
<1>1. IInv => OldYoungRemembered BY DEF IInv
<1> QED BY <1>1, SpecIInv, PTL

(* The tasks sl_gc_task_idle leaves out of a minor hold nothing young. *)
THEOREM IdleTasksHoldOld == Spec => []IdleRootsAreOld
<1>1. ASSUME IInv PROVE IdleRootsAreOld
  <2> SUFFICES ASSUME NEW t \in Tasks, Idle(t) PROVE roots[t] \subseteq Old
    BY DEF IdleRootsAreOld
  <2>1. async[t] \in BOOLEAN BY <1>1, Zenon DEF IInv, TypeOK
  <2>2. state[t] = "stopped" /\ async[t] = FALSE BY <2>1, ZenonT(60) DEF Idle
  <2>3. idle[t] >= 2 BY DEF Idle
  <2> QED BY SMTT(60), <1>1, <2>2, <2>3 DEF IInv, RootsAge, TypeOK, Old
<1> QED BY <1>1, SpecIInv, PTL
===============================================================================
