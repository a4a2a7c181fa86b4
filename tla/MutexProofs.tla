----------------------------- MODULE MutexProofs -----------------------------
(* Safety of the mutex for any number of task structs. *)
EXTENDS Mutex, SequenceTheorems, TLAPS

(* The inductive invariant: the parts of the safety of the lock, which only  *)
(* hold together.                                                            *)
IInv == /\ TypeOK
        /\ MutualExclusion
        /\ NeverWaitsForItself
        /\ WaitersAreParked
        /\ NoStrandedLocker

(* sl_mutex_new: a new lock is free and has no waiter. *)
LEMMA InitInv == Init => IInv
<1> SUFFICES ASSUME Init PROVE IInv
  OBVIOUS
<1>1. TypeOK
  <2>1. held \in BOOLEAN
    BY Zenon DEF Init
  <2>2. waiters \in Seq(Slots) /\ owner \in Slots \cup {Null} /\ calls \in 0 .. MaxCalls
    BY MutexAssumption DEF Init
  <2> QED BY <2>1, <2>2 DEF Init, TypeOK
<1>2. MutualExclusion /\ NeverWaitsForItself /\ NoStrandedLocker
  BY DEF Init, MutualExclusion, NeverWaitsForItself, NoStrandedLocker
<1>3. WaitersAreParked
  BY DEF Init, WaitersAreParked
<1> QED BY <1>1, <1>2, <1>3 DEF IInv

(* Appending a slot that is not parked yet keeps the list and pc in step. *)
LEMMA PushKeepsWaiters ==
  ASSUME TypeOK, WaitersAreParked, NEW s \in Slots, pc[s] # "parked",
         waiters' = Append(waiters, s), pc' = Goto(s, "parked")
  PROVE  WaitersAreParked'
<1> DEFINE n == Len(waiters)
<1>1. /\ n \in Nat /\ DOMAIN waiters = 1 .. n
      /\ DOMAIN waiters' = 1 .. n + 1
      /\ \A i \in 1 .. n : waiters'[i] = waiters[i] /\ waiters[i] \in Slots
      /\ waiters'[n + 1] = s
  BY AppendProperties DEF TypeOK
<1>2. \A i \in 1 .. n : waiters[i] # s
  BY <1>1 DEF WaitersAreParked
<1>3. \A i \in DOMAIN waiters' : pc'[waiters'[i]] = "parked"
  BY <1>1 DEF WaitersAreParked, Goto, TypeOK
<1>4. \A i, j \in DOMAIN waiters' : waiters'[i] = waiters'[j] => i = j
  BY SMTT(60), <1>1, <1>2 DEF WaitersAreParked
<1>5. \A r \in Slots : pc'[r] = "parked" => \E i \in DOMAIN waiters' : waiters'[i] = r
  <2> SUFFICES ASSUME NEW r \in Slots, pc'[r] = "parked"
               PROVE  \E i \in DOMAIN waiters' : waiters'[i] = r
    OBVIOUS
  <2>1. CASE r = s
    BY <1>1, <2>1
  <2>2. CASE r # s
    <3>1. pc[r] = "parked"
      BY <2>2 DEF Goto, TypeOK
    <3>2. PICK i \in 1 .. n : waiters[i] = r
      BY <1>1, <3>1 DEF WaitersAreParked
    <3> QED BY <1>1, <3>2
  <2> QED BY <2>1, <2>2
<1> QED BY <1>3, <1>4, <1>5 DEF WaitersAreParked

(* Popping the oldest waiter and resuming it does, too. *)
LEMMA PopKeepsWaiters ==
  ASSUME TypeOK, WaitersAreParked, NEW s \in Slots, pc[s] # "parked", waiters # <<>>,
         waiters' = Tail(waiters),
         pc' = [pc EXCEPT ![s] = "idle", ![Head(waiters)] = "relock"]
  PROVE  WaitersAreParked' /\ Head(waiters) \in Slots /\ pc'[Head(waiters)] = "relock"
<1> DEFINE n == Len(waiters)
<1>1. /\ n \in Nat /\ n # 0 /\ DOMAIN waiters = 1 .. n
      /\ waiters[1] = Head(waiters)
      /\ DOMAIN waiters' = 1 .. n - 1
      /\ \A i \in 1 .. n : waiters[i] \in Slots
      /\ \A i \in 1 .. n - 1 : waiters'[i] = waiters[i + 1]
  BY EmptySeq, HeadTailProperties DEF TypeOK
<1>2. \A i \in 1 .. n - 1 : waiters[i + 1] # waiters[1]
  BY <1>1 DEF WaitersAreParked
<1>3. waiters[1] \in Slots /\ waiters[1] # s /\ \A i \in 1 .. n : waiters[i] # s
  BY <1>1 DEF WaitersAreParked
<1>4. \A r \in Slots : pc'[r] = IF r = waiters[1] THEN "relock"
                                ELSE IF r = s THEN "idle" ELSE pc[r]
  BY <1>1, <1>3 DEF TypeOK
<1>5. \A i \in DOMAIN waiters' : pc'[waiters'[i]] = "parked"
  <2> SUFFICES ASSUME NEW i \in 1 .. n - 1
               PROVE  pc'[waiters'[i]] = "parked"
    BY Zenon, <1>1
  <2>1. /\ waiters'[i] = waiters[i + 1] /\ i + 1 \in 1 .. n
        /\ waiters[i + 1] \in Slots
    BY <1>1
  <2>2. pc[waiters[i + 1]] = "parked"
    BY <1>1, <2>1 DEF WaitersAreParked
  <2> QED BY Zenon, <1>2, <1>3, <1>4, <2>1, <2>2
<1>6. \A i, j \in DOMAIN waiters' : waiters'[i] = waiters'[j] => i = j
  BY <1>1 DEF WaitersAreParked
<1>7. \A r \in Slots : pc'[r] = "parked" => \E i \in DOMAIN waiters' : waiters'[i] = r
  <2> SUFFICES ASSUME NEW r \in Slots, pc'[r] = "parked"
               PROVE  \E i \in DOMAIN waiters' : waiters'[i] = r
    OBVIOUS
  <2>1. pc[r] = "parked" /\ r # waiters[1]
    BY <1>1, <1>3 DEF TypeOK
  <2>2. PICK i \in 1 .. n : waiters[i] = r
    BY <1>1, <2>1 DEF WaitersAreParked
  <2>3. i - 1 \in 1 .. n - 1 /\ waiters'[i - 1] = r
    BY <1>1, <2>1, <2>2
  <2> QED BY Zenon, <1>1, <2>3
<1>8. WaitersAreParked'
  BY <1>5, <1>6, <1>7, Zenon DEF WaitersAreParked
<1>9. Head(waiters) \in Slots
  BY <1>1, <1>3, Zenon
<1>10. pc'[Head(waiters)] = "relock"
  BY <1>1, <1>3, <1>4, Zenon
<1> QED BY <1>8, <1>9, <1>10, Zenon

(* A step that only moves one slot between states that are neither parked   *)
(* nor on the way to relock leaves the wait list and its promise alone.     *)
LEMMA QuietMove ==
  ASSUME TypeOK, WaitersAreParked, NEW s \in Slots, NEW l,
         pc[s] \notin {"parked", "relock"}, l # "parked",
         pc' = Goto(s, l), waiters' = waiters, NoStrandedLocker, held => held'
  PROVE  WaitersAreParked' /\ NoStrandedLocker'
<1>1. \A r \in Slots : pc'[r] = IF r = s THEN l ELSE pc[r]
  BY DEF Goto, TypeOK
<1>2. \A i \in DOMAIN waiters : waiters[i] \in Slots /\ waiters[i] # s
  BY DEF TypeOK, WaitersAreParked
<1>3. WaitersAreParked'
  BY <1>1, <1>2 DEF WaitersAreParked
<1>4. NoStrandedLocker'
  BY <1>1 DEF NoStrandedLocker
<1> QED BY <1>3, <1>4

(* Every step of the mutex keeps the inductive invariant. *)
LEMMA StepInv == IInv /\ [Next]_vars => IInv'
<1> SUFFICES ASSUME IInv, [Next]_vars
             PROVE  IInv'
  OBVIOUS
<1> USE MutexAssumption
<1>inv. TypeOK /\ MutualExclusion /\ NeverWaitsForItself /\ WaitersAreParked
        /\ NoStrandedLocker
  BY DEF IInv
<1>1. ASSUME NEW s \in Slots, TaskStart(s) PROVE IInv'
  <2>1. WaitersAreParked' /\ NoStrandedLocker'
    BY SMTT(60), <1>inv, <1>1, QuietMove DEF TaskStart
  <2>2. TypeOK' /\ MutualExclusion' /\ NeverWaitsForItself'
    BY SMTT(60), <1>inv, <1>1
       DEF TaskStart, Goto, TypeOK, MutualExclusion, NeverWaitsForItself
  <2> QED BY <2>1, <2>2 DEF IInv
<1>2. ASSUME NEW s \in Slots, TaskEnd(s) PROVE IInv'
  <2>1. WaitersAreParked' /\ NoStrandedLocker'
    BY <1>inv, <1>2, QuietMove DEF TaskEnd
  <2>2. TypeOK' /\ MutualExclusion' /\ NeverWaitsForItself'
    BY <1>inv, <1>2
       DEF TaskEnd, Goto, TypeOK, MutualExclusion, NeverWaitsForItself
  <2> QED BY <2>1, <2>2 DEF IInv
<1>3. ASSUME NEW s \in Slots, NEW op \in {"lock", "trylock", "unlock"}, Call(s, op)
      PROVE IInv'
  <2>1. WaitersAreParked' /\ NoStrandedLocker'
    BY <1>inv, <1>3, QuietMove DEF Call
  <2>2. TypeOK' /\ MutualExclusion' /\ NeverWaitsForItself'
    BY <1>inv, <1>3 DEF Call, Goto, TypeOK, MutualExclusion, NeverWaitsForItself
  <2> QED BY <2>1, <2>2 DEF IInv
<1>4. ASSUME NEW s \in Slots, Lock(s) PROVE IInv'
  <2>1. CASE pc[s] = "lock" /\ held /\ owner = s /\ UNCHANGED <<held, owner, waiters, inside>>
             /\ pc' = Goto(s, "idle")
    <3>1. WaitersAreParked' /\ NoStrandedLocker'
      BY <1>inv, <2>1, QuietMove
    <3>2. TypeOK' /\ MutualExclusion' /\ NeverWaitsForItself'
      BY <1>inv, <1>4, <2>1
         DEF Lock, Goto, TypeOK, MutualExclusion, NeverWaitsForItself
    <3> QED BY <3>1, <3>2 DEF IInv
  <2>2. CASE held /\ (pc[s] = "lock" => owner # s) /\ waiters' = Append(waiters, s)
             /\ pc' = Goto(s, "parked") /\ UNCHANGED <<held, owner, inside>>
    <3>1. pc[s] # "parked" /\ s \notin inside
      BY <1>inv, <1>4, <2>2 DEF Lock, MutualExclusion, NeverWaitsForItself
    <3>2. WaitersAreParked'
      BY SMTT(60), <1>inv, <2>2, <3>1, PushKeepsWaiters
    <3>3. waiters' \in Seq(Slots)
      BY SMTT(60), <1>inv, <2>2, AppendProperties DEF TypeOK
    <3>4. TypeOK' /\ MutualExclusion' /\ NeverWaitsForItself' /\ NoStrandedLocker'
      BY SMTT(60), <1>inv, <1>4, <2>2, <3>1, <3>3
         DEF Lock, Goto, TypeOK, MutualExclusion, NeverWaitsForItself, NoStrandedLocker
    <3> QED BY <3>2, <3>4 DEF IInv
  <2>3. CASE ~held /\ Acquire(s) /\ pc' = Goto(s, "idle") /\ UNCHANGED waiters
    <3>1. held'
      BY <2>3 DEF Acquire
    <3>2. \A i \in DOMAIN waiters : waiters[i] \in Slots /\ waiters[i] # s
      BY SMTT(60), <1>inv, <1>4 DEF Lock, WaitersAreParked, TypeOK
    <3>3. WaitersAreParked' /\ NoStrandedLocker'
      BY SMTT(60), <1>inv, <2>3, <3>1, <3>2 DEF WaitersAreParked, NoStrandedLocker, Goto, TypeOK
    <3>4. inside' = {s}
      BY <1>inv, <2>3 DEF Acquire, MutualExclusion
    <3>5. MutualExclusion' /\ NeverWaitsForItself'
      BY SMTT(60), <1>inv, <2>3, <3>1, <3>4
         DEF Acquire, MutualExclusion, NeverWaitsForItself, Goto, TypeOK
    <3>6. held' \in BOOLEAN
      BY <2>3, Zenon DEF Acquire
    <3>7. TypeOK'
      BY SMTT(60), <1>inv, <1>4, <2>3, <3>4, <3>6 DEF Lock, Acquire, TypeOK, Goto
    <3> QED BY <3>3, <3>5, <3>7 DEF IInv
  <2> QED BY SMTT(60), <1>4, <2>1, <2>2, <2>3 DEF Lock
<1>5. ASSUME NEW s \in Slots, TryLock(s) PROVE IInv'
  <2>1. held => held'
    BY <1>5 DEF TryLock, Acquire
  <2>2. WaitersAreParked' /\ NoStrandedLocker'
    BY <1>inv, <1>5, <2>1, QuietMove DEF TryLock
  <2>3. CASE held /\ UNCHANGED <<held, owner, inside>>
    BY SMTT(60), <1>inv, <1>5, <2>2, <2>3
       DEF TryLock, Goto, TypeOK, MutualExclusion, NeverWaitsForItself, IInv
  <2>4. CASE ~held /\ Acquire(s)
    <3>1. held' \in BOOLEAN /\ held'
      BY <2>4, Zenon DEF Acquire
    <3>2. inside' = {s}
      BY <1>inv, <2>4 DEF Acquire, MutualExclusion
    <3>3. TypeOK' /\ MutualExclusion' /\ NeverWaitsForItself'
      BY SMTT(60), <1>inv, <1>5, <2>4, <3>1, <3>2
         DEF TryLock, Acquire, Goto, TypeOK, MutualExclusion, NeverWaitsForItself
    <3> QED BY <2>2, <3>3 DEF IInv
  <2> QED BY <1>5, <2>3, <2>4 DEF TryLock
<1>6. ASSUME NEW s \in Slots, Unlock(s) PROVE IInv'
  <2>1. CASE (~held \/ owner # s) /\ pc' = Goto(s, "idle")
             /\ UNCHANGED <<held, owner, waiters, inside>>
    <3>1. WaitersAreParked' /\ NoStrandedLocker'
      BY <1>inv, <1>6, <2>1, QuietMove DEF Unlock
    <3>2. TypeOK' /\ MutualExclusion' /\ NeverWaitsForItself'
      BY <1>inv, <1>6, <2>1
         DEF Unlock, Goto, TypeOK, MutualExclusion, NeverWaitsForItself
    <3> QED BY <3>1, <3>2 DEF IInv
  <2>2. CASE held /\ owner = s /\ ~held' /\ held' = FALSE /\ owner' = Null
             /\ inside' = inside \ {s}
    <3>1. inside' = {}
      BY <1>inv, <2>2 DEF MutualExclusion
    <3>2. MutualExclusion' /\ NeverWaitsForItself'
      BY <3>1 DEF MutualExclusion, NeverWaitsForItself
    <3>3. held' \in BOOLEAN
      BY <2>2, Zenon
    <3>4. CASE waiters = <<>> /\ pc' = Goto(s, "idle") /\ UNCHANGED waiters
      <4>1. WaitersAreParked' /\ NoStrandedLocker'
        BY SMTT(60), <1>inv, <1>6, <3>4 DEF Unlock, WaitersAreParked, NoStrandedLocker, Goto, TypeOK
      <4>2. TypeOK'
        BY SMTT(60), <1>inv, <1>6, <2>2, <3>1, <3>3, <3>4 DEF Unlock, Goto, TypeOK
      <4> QED BY SMTT(60), <3>2, <4>1, <4>2 DEF IInv
    <3>5. CASE waiters # <<>> /\ waiters' = Tail(waiters)
               /\ pc' = [pc EXCEPT ![s] = "idle", ![Head(waiters)] = "relock"]
      <4>1. pc[s] # "parked"
        BY <1>6 DEF Unlock
      <4>2. WaitersAreParked' /\ Head(waiters) \in Slots /\ pc'[Head(waiters)] = "relock"
        BY Zenon, <1>inv, <3>5, <4>1, PopKeepsWaiters
      <4>3. NoStrandedLocker'
        BY <4>2 DEF NoStrandedLocker
      <4>4. waiters' \in Seq(Slots)
        BY <1>inv, <3>5, HeadTailProperties DEF TypeOK
      <4>5. TypeOK'
        BY SMTT(60), <1>inv, <1>6, <2>2, <3>1, <3>3, <3>5, <4>4 DEF Unlock, TypeOK
      <4> QED BY SMTT(60), <3>2, <4>2, <4>3, <4>5 DEF IInv
    <3> QED BY SMTT(60), <1>6, <2>2, <3>4, <3>5 DEF Unlock
  <2> QED BY Zenon, <1>6, <2>1, <2>2 DEF Unlock
<1>7. CASE UNCHANGED vars
  BY <1>inv, <1>7 DEF vars, IInv, TypeOK, MutualExclusion, NeverWaitsForItself,
                      WaitersAreParked, NoStrandedLocker
<1> QED BY SMTT(60), <1>1, <1>2, <1>3, <1>4, <1>5, <1>6, <1>7 DEF Next, Step

(* For any number of tasks: at most one holds the mutex, nobody waits for   *)
(* itself, the wait list is exactly the parked tasks, and a free mutex with *)
(* waiters has one on its way.                                              *)
THEOREM MutexSafe ==
    Spec => [](TypeOK /\ MutualExclusion /\ NeverWaitsForItself
                 /\ WaitersAreParked /\ NoStrandedLocker)
<1>1. IInv => TypeOK /\ MutualExclusion /\ NeverWaitsForItself
                /\ WaitersAreParked /\ NoStrandedLocker
  BY DEF IInv
<1> QED BY InitInv, StepInv, <1>1, PTL DEF Spec

(* If no task ends while it holds the lock, the recorded owner is the       *)
(* holder.                                                                  *)
HeldByATask == held => owner \in inside

(* If no task ends while it holds the lock, only the holder's unlock ever   *)
(* releases it.  The assumption is needed: see the run mutex_drop.          *)
THEOREM HolderUnlocks ==
  ASSUME MayDropLock = FALSE
  PROVE  Spec => OnlyHolderUnlocks
<1>1. Init => HeldByATask
  BY DEF Init, HeldByATask
<1>2. HeldByATask /\ [Next]_vars => HeldByATask'
  <2> SUFFICES ASSUME HeldByATask, [Next]_vars, held'
               PROVE  owner' \in inside'
    BY DEF HeldByATask
  <2>1. ASSUME NEW s \in Slots, TaskStart(s) \/ \E op \in {"lock", "trylock", "unlock"} : Call(s, op)
        PROVE  owner' \in inside'
    <3>1. UNCHANGED <<held, owner, inside>>
      BY Zenon, <2>1 DEF TaskStart, Call
    <3> QED BY <3>1, Zenon DEF HeldByATask
  <2>2. ASSUME NEW s \in Slots, TaskEnd(s)
        PROVE  owner' \in inside'
    BY <2>2 DEF TaskEnd, HeldByATask
  <2>3. ASSUME NEW s \in Slots, Lock(s) \/ TryLock(s)
        PROVE  owner' \in inside'
    <3>1. Acquire(s) \/ UNCHANGED <<held, owner, inside>>
      BY <2>3, Zenon DEF Lock, TryLock
    <3>2. CASE Acquire(s)
      BY <3>2 DEF Acquire
    <3>3. CASE UNCHANGED <<held, owner, inside>>
      BY <3>3, Zenon DEF HeldByATask
    <3> QED BY Zenon, <3>1, <3>2, <3>3
  <2>4. ASSUME NEW s \in Slots, Unlock(s)
        PROVE  owner' \in inside'
    <3>1. UNCHANGED <<held, owner, inside>> \/ held' = FALSE
      BY <2>4, ZenonT(60) DEF Unlock
    <3>2. CASE UNCHANGED <<held, owner, inside>>
      BY <3>2, Zenon DEF HeldByATask
    <3>3. CASE held' = FALSE
      BY <3>3
    <3> QED BY <3>1, <3>2, <3>3
  <2>5. CASE UNCHANGED vars
    BY <2>5 DEF vars, HeldByATask
  <2> QED BY SMTT(60), <2>1, <2>2, <2>3, <2>4, <2>5 DEF Next, Step
<1>3. HeldByATask /\ [Next]_vars =>
        [held /\ ~held' => \E s \in inside : pc[s] = "unlock" /\ s \notin inside']_vars
  <2> SUFFICES ASSUME HeldByATask, Next, held, ~held'
               PROVE  \E s \in inside : pc[s] = "unlock" /\ s \notin inside'
    BY DEF vars
  <2>1. PICK s \in Slots : Unlock(s)
    <3>1. ASSUME NEW s \in Slots, Lock(s) \/ TryLock(s) PROVE FALSE
      BY Zenon, <3>1 DEF Lock, TryLock, Acquire
    <3>2. ASSUME NEW s \in Slots, TaskStart(s) \/ TaskEnd(s) PROVE FALSE
      BY Zenon, <3>2 DEF TaskStart, TaskEnd
    <3>3. ASSUME NEW s \in Slots, NEW op, Call(s, op) PROVE FALSE
      BY <3>3 DEF Call
    <3> QED BY <3>1, <3>2, <3>3 DEF Next, Step
  <2>2. /\ owner = s /\ inside' = inside \ {s} /\ pc[s] = "unlock"
    BY Zenon, <2>1 DEF Unlock
  <2> QED BY <2>2 DEF HeldByATask
<1> QED BY <1>1, <1>2, <1>3, PTL DEF Spec, OnlyHolderUnlocks

=============================================================================
