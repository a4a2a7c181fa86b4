------------------------------ MODULE GcStwProofs ------------------------------
(***************************************************************************)
(* For any number of threads and of collections: while one thread marks, no *)
(* other runs program code; there is one collector; and the threads it asks *)
(* are registered. *)
(***************************************************************************)
EXTENDS GcStw, TLAPS

(* Where a thread cannot come back to program code while the stop is up. *)
Halted == {"out", "blocked", "checkin", "slow", "ack", "tell", "wait", "again", "asleep", "leave"}

(* Between the claim of a collection and its being handed back. *)
Claimed == {"choose", "raise", "bump", "snapshot", "sync", "mark", "lower", "yield"}

(* One collector, and the flag says so. *)
Claims ==
    /\ \A c \in Threads : pc[c] \in Claimed => collecting = TRUE
    /\ \A c, d \in Threads : pc[c] \in Claimed /\ pc[d] \in Claimed => c = d

(* The stop is up from the first store of a pause to the last. *)
StopUp ==
    \A c \in Threads : pc[c] \in {"bump", "snapshot", "sync", "mark", "lower"} => stop = TRUE

(* Who counts as stopped is halted. *)
StoppedIsHalted ==
    /\ \A t \in Threads : blocked[t] = TRUE => pc[t] = "blocked"
    /\ \A c, t \in Threads :
         pc[c] \in {"snapshot", "sync", "mark"} /\ t # c /\ acked[t] = cycle => pc[t] \in Halted

(* Unregistered threads run nothing. *)
RunningIsRegistered == \A t \in Threads : t \notin registered => pc[t] = "out"

(* Whoever the collector is not waiting for is halted, also after the pass  *)
(* starts over.                                                             *)
AskedIsHalted ==
    /\ \A c, t \in Threads : pc[c] = "sync" /\ t # c => t \in left[c] \/ pc[t] \in Halted
    /\ \A c, t \in Threads : pc[c] = "sync" /\ t # c => t \in snap[c] \/ pc[t] \in Halted
    /\ \A c, t \in Threads : pc[c] \in {"mark", "lower"} /\ t # c => pc[t] \in Halted

(* The collector of a minor that hands over to a major with the stop up:    *)
(* nobody else can claim the collection or withdraw the request.            *)
HandsOver(c) ==
    /\ pc[c] \in {"yield", "unlock", "chain", "rechain", "raise"}
    /\ pc[c] # "raise" => kind[c] = "minor" /\ major = TRUE
    /\ pc[c] \in {"unlock", "chain", "rechain"} => collecting = FALSE
    /\ \A t \in Threads : t # c => pc[t] \in Halted

Pausing(c) == pc[c] \in {"bump", "snapshot", "sync", "mark", "lower"}

StopServed == stop = TRUE => \E c \in Threads : Pausing(c) \/ HandsOver(c)

(* A waiting thread has published what it read; a sleeping one read the     *)
(* cycle that is running.                                                   *)
SleepersAcked ==
    \A t \in Threads :
      /\ pc[t] \in {"wait", "again", "asleep"} => acked[t] = seen[t]
      /\ pc[t] = "asleep" => stop = TRUE /\ acked[t] = cycle

IInv ==
    /\ TypeOK
    /\ Claims /\ StopUp /\ StoppedIsHalted /\ RunningIsRegistered /\ AskedIsHalted
    /\ SnapshotAlive /\ StopServed /\ SleepersAcked

-------------------------------------------------------------------------------
USE DEF At, Goto, flags, locks, shared

(* The invariant holds before any thread registers. *)
LEMMA InitIInv == Init => IInv
<1> SUFFICES ASSUME Init PROVE IInv
  OBVIOUS
<1>1. TypeOK
  <2>1. cycle \in Nat /\ 0 \in 0..cycle
    BY DEF Init
  <2>2. acked \in [Threads -> 0..cycle] /\ seen \in [Threads -> 0..cycle]
    BY <2>1 DEF Init
  <2>3. /\ blocked \in [Threads -> BOOLEAN] /\ then \in [Threads -> {"run", "leave"}]
        /\ pc \in [Threads -> Labels] /\ kind \in [Threads -> {"none", "minor", "major"}]
        /\ snap \in [Threads -> SUBSET Threads] /\ left \in [Threads -> SUBSET Threads]
    BY DEF Init, Labels
  <2>4. /\ stop \in BOOLEAN /\ collecting \in BOOLEAN /\ minor \in BOOLEAN /\ major \in BOOLEAN
        /\ registered \subseteq Threads
        /\ mu \in Threads \cup {Nobody} /\ stwMu \in Threads \cup {Nobody}
    BY Zenon DEF Init
  <2>. QED BY <2>1, <2>2, <2>3, <2>4, Zenon DEF TypeOK
<1>2. Claims /\ StopUp /\ StoppedIsHalted /\ StopServed
  BY DEF Init, Claims, Claimed, StopUp, StoppedIsHalted, StopServed
<1>3. RunningIsRegistered /\ AskedIsHalted /\ SnapshotAlive
  BY DEF Init, RunningIsRegistered, AskedIsHalted, SnapshotAlive
<1>4. SleepersAcked
  BY DEF Init, SleepersAcked
<1>. QED BY <1>1, <1>2, <1>3, <1>4 DEF IInv

(* Every step of every thread keeps it. *)
LEMMA StepIInv ==
    ASSUME IInv, [Next]_vars
    PROVE  IInv'
<1>1. ASSUME NEW t \in Threads, Checkin(t) PROVE IInv'
  <2>1. TypeOK'
    BY <1>1 DEF IInv, TypeOK, Checkin, Labels
  <2>2. (Claims /\ StopUp /\ RunningIsRegistered /\ SnapshotAlive)'
    BY <1>1 DEF IInv, TypeOK, Checkin, Claims, Claimed, StopUp, RunningIsRegistered,
       SnapshotAlive
  <2>3. StoppedIsHalted'
    BY <1>1 DEF IInv, TypeOK, Checkin, StoppedIsHalted, Claims, Claimed, StopUp, Halted
  <2>4. AskedIsHalted'
    BY <1>1 DEF IInv, TypeOK, Checkin, AskedIsHalted, StoppedIsHalted,
       RunningIsRegistered, Claims, Claimed, StopUp, Halted
  <2>5. StopServed'
    BY <1>1 DEF IInv, TypeOK, Checkin, StopServed, HandsOver, Pausing,
       AskedIsHalted, Claims, Claimed, Halted
  <2>6. SleepersAcked'
    BY <1>1 DEF IInv, TypeOK, Checkin, SleepersAcked
  <2>. QED BY <2>1, <2>2, <2>3, <2>4, <2>5, <2>6 DEF IInv
<1>2. ASSUME NEW t \in Threads, Register(t) PROVE IInv'
  <2>1. TypeOK'
    BY <1>2 DEF IInv, TypeOK, Register, Labels
  <2>2. (Claims /\ StopUp /\ RunningIsRegistered /\ SnapshotAlive)'
    BY <1>2 DEF IInv, TypeOK, Register, Claims, Claimed, StopUp, RunningIsRegistered,
       SnapshotAlive
  <2>3. StoppedIsHalted'
    BY <1>2 DEF IInv, TypeOK, Register, StoppedIsHalted, Claims, Claimed, StopUp, Halted
  <2>4. AskedIsHalted'
    BY <1>2 DEF IInv, TypeOK, Register, AskedIsHalted, StoppedIsHalted,
       RunningIsRegistered, Claims, Claimed, StopUp, Halted
  <2>5. StopServed'
    BY <1>2 DEF IInv, TypeOK, Register, StopServed, HandsOver, Pausing,
       AskedIsHalted, Claims, Claimed, Halted
  <2>6. SleepersAcked'
    BY <1>2 DEF IInv, TypeOK, Register, SleepersAcked
  <2>. QED BY <2>1, <2>2, <2>3, <2>4, <2>5, <2>6 DEF IInv
<1>3. ASSUME NEW t \in Threads, Request(t) PROVE IInv'
  <2>1. TypeOK'
    BY Zenon, <1>3 DEF IInv, TypeOK, Request, Labels
  <2>2. (Claims /\ StopUp /\ RunningIsRegistered /\ SnapshotAlive)'
    BY <1>3 DEF IInv, TypeOK, Request, Claims, Claimed, StopUp, RunningIsRegistered,
       SnapshotAlive
  <2>3. StoppedIsHalted'
    BY <1>3 DEF IInv, TypeOK, Request, StoppedIsHalted, Claims, Claimed, StopUp, Halted
  <2>4. AskedIsHalted'
    BY <1>3 DEF IInv, TypeOK, Request, AskedIsHalted, StoppedIsHalted,
       RunningIsRegistered, Claims, Claimed, StopUp, Halted
  <2>5. StopServed'
    BY <1>3 DEF IInv, TypeOK, Request, StopServed, HandsOver, Pausing,
       AskedIsHalted, Claims, Claimed, Halted
  <2>6. SleepersAcked'
    BY <1>3 DEF IInv, TypeOK, Request, SleepersAcked
  <2>. QED BY <2>1, <2>2, <2>3, <2>4, <2>5, <2>6 DEF IInv
<1>4. ASSUME NEW t \in Threads, Block(t) PROVE IInv'
  <2>1. TypeOK'
    BY <1>4 DEF IInv, TypeOK, Block, Labels
  <2>2. (Claims /\ StopUp /\ RunningIsRegistered /\ SnapshotAlive)'
    BY <1>4 DEF IInv, TypeOK, Block, Claims, Claimed, StopUp, RunningIsRegistered,
       SnapshotAlive
  <2>3. StoppedIsHalted'
    BY <1>4 DEF IInv, TypeOK, Block, StoppedIsHalted, Claims, Claimed, StopUp, Halted
  <2>4. AskedIsHalted'
    BY <1>4 DEF IInv, TypeOK, Block, AskedIsHalted, StoppedIsHalted,
       RunningIsRegistered, Claims, Claimed, StopUp, Halted
  <2>5. StopServed'
    BY <1>4 DEF IInv, TypeOK, Block, StopServed, HandsOver, Pausing,
       AskedIsHalted, Claims, Claimed, Halted
  <2>6. SleepersAcked'
    BY <1>4 DEF IInv, TypeOK, Block, SleepersAcked
  <2>. QED BY <2>1, <2>2, <2>3, <2>4, <2>5, <2>6 DEF IInv
<1>5. ASSUME NEW t \in Threads, Unblock(t) PROVE IInv'
  <2>1. TypeOK'
    BY <1>5 DEF IInv, TypeOK, Unblock, Labels
  <2>2. (Claims /\ StopUp /\ RunningIsRegistered /\ SnapshotAlive)'
    BY <1>5 DEF IInv, TypeOK, Unblock, Claims, Claimed, StopUp, RunningIsRegistered,
       SnapshotAlive
  <2>3. StoppedIsHalted'
    BY <1>5 DEF IInv, TypeOK, Unblock, StoppedIsHalted, Claims, Claimed, StopUp, Halted
  <2>4. AskedIsHalted'
    BY <1>5 DEF IInv, TypeOK, Unblock, AskedIsHalted, StoppedIsHalted,
       RunningIsRegistered, Claims, Claimed, StopUp, Halted
  <2>5. StopServed'
    BY <1>5 DEF IInv, TypeOK, Unblock, StopServed, HandsOver, Pausing,
       AskedIsHalted, Claims, Claimed, Halted
  <2>6. SleepersAcked'
    BY <1>5 DEF IInv, TypeOK, Unblock, SleepersAcked
  <2>. QED BY <2>1, <2>2, <2>3, <2>4, <2>5, <2>6 DEF IInv
<1>6. ASSUME NEW t \in Threads, CheckinSlow(t) PROVE IInv'
  <2>1. TypeOK'
    BY ZenonT(60), <1>6 DEF IInv, TypeOK, CheckinSlow, Labels
  <2>2. (Claims /\ StopUp /\ RunningIsRegistered /\ SnapshotAlive)'
    BY <1>6 DEF IInv, TypeOK, CheckinSlow, Claims, Claimed, StopUp, RunningIsRegistered,
       SnapshotAlive
  <2>3. StoppedIsHalted'
    BY <1>6 DEF IInv, TypeOK, CheckinSlow, StoppedIsHalted, Claims, Claimed, StopUp, Halted
  <2>4. AskedIsHalted'
    BY SMTT(60), <1>6 DEF IInv, TypeOK, CheckinSlow, AskedIsHalted, StoppedIsHalted,
       RunningIsRegistered, Claims, Claimed, StopUp, Halted
  <2>5. StopServed'
    BY <1>6 DEF IInv, TypeOK, CheckinSlow, StopServed, HandsOver, Pausing,
       AskedIsHalted, Claims, Claimed, Halted
  <2>6. SleepersAcked'
    BY <1>6 DEF IInv, TypeOK, CheckinSlow, SleepersAcked
  <2>. QED BY <2>1, <2>2, <2>3, <2>4, <2>5, <2>6 DEF IInv
<1>7. ASSUME NEW t \in Threads, Ack(t) PROVE IInv'
  <2>1. TypeOK'
    BY <1>7 DEF IInv, TypeOK, Ack, Labels
  <2>2. (Claims /\ StopUp /\ RunningIsRegistered /\ SnapshotAlive)'
    BY <1>7 DEF IInv, TypeOK, Ack, Claims, Claimed, StopUp, RunningIsRegistered,
       SnapshotAlive
  <2>3. StoppedIsHalted'
    BY <1>7 DEF IInv, TypeOK, Ack, StoppedIsHalted, Claims, Claimed, StopUp, Halted
  <2>4. AskedIsHalted'
    BY SMTT(60), <1>7 DEF IInv, TypeOK, Ack, AskedIsHalted, StoppedIsHalted,
       RunningIsRegistered, Claims, Claimed, StopUp, Halted
  <2>5. StopServed'
    BY <1>7 DEF IInv, TypeOK, Ack, StopServed, HandsOver, Pausing,
       AskedIsHalted, Claims, Claimed, Halted
  <2>6. SleepersAcked'
    BY <1>7 DEF IInv, TypeOK, Ack, SleepersAcked
  <2>. QED BY <2>1, <2>2, <2>3, <2>4, <2>5, <2>6 DEF IInv
<1>8. ASSUME NEW t \in Threads, Wait(t) PROVE IInv'
  <2>1. TypeOK'
    BY <1>8 DEF IInv, TypeOK, Wait, Labels
  <2>2. (Claims /\ StopUp /\ RunningIsRegistered /\ SnapshotAlive)'
    BY <1>8 DEF IInv, TypeOK, Wait, Claims, Claimed, StopUp, RunningIsRegistered,
       SnapshotAlive
  <2>3. StoppedIsHalted'
    BY <1>8 DEF IInv, TypeOK, Wait, StoppedIsHalted, Claims, Claimed, StopUp, Halted
  <2>4. AskedIsHalted'
    BY SMTT(60), <1>8 DEF IInv, TypeOK, Wait, AskedIsHalted, StoppedIsHalted,
       RunningIsRegistered, Claims, Claimed, StopUp, Halted
  <2>5. StopServed'
    BY <1>8 DEF IInv, TypeOK, Wait, StopServed, HandsOver, Pausing,
       AskedIsHalted, Claims, Claimed, Halted
  <2>6. SleepersAcked'
    BY <1>8 DEF IInv, TypeOK, Wait, SleepersAcked
  <2>. QED BY <2>1, <2>2, <2>3, <2>4, <2>5, <2>6 DEF IInv
<1>9. ASSUME NEW t \in Threads, Unregister(t) PROVE IInv'
  <2>1. TypeOK'
    BY <1>9 DEF IInv, TypeOK, Unregister, Labels
  <2>2. (Claims /\ StopUp /\ RunningIsRegistered /\ SnapshotAlive)'
    BY <1>9 DEF IInv, TypeOK, Unregister, Claims, Claimed, StopUp, RunningIsRegistered,
       SnapshotAlive
  <2>3. StoppedIsHalted'
    BY <1>9 DEF IInv, TypeOK, Unregister, StoppedIsHalted, Claims, Claimed, StopUp, Halted
  <2>4. AskedIsHalted'
    <3>1. CASE At(t, "run")
      BY <1>9, <3>1 DEF IInv, TypeOK, Unregister, AskedIsHalted, Halted
    <3>2. CASE At(t, "leave") /\ stop = TRUE
      BY <1>9, <3>2 DEF IInv, TypeOK, Unregister, AskedIsHalted, Halted
    <3>3. CASE At(t, "leave") /\ stop = FALSE
      BY <1>9, <3>3 DEF IInv, TypeOK, Unregister, AskedIsHalted, StopUp, Halted
    <3>. QED BY Zenon, <1>9, <3>1, <3>2, <3>3 DEF Unregister, IInv, TypeOK
  <2>5. StopServed'
    BY <1>9 DEF IInv, TypeOK, Unregister, StopServed, HandsOver, Pausing,
       AskedIsHalted, Claims, Claimed, Halted
  <2>6. SleepersAcked'
    BY <1>9 DEF IInv, TypeOK, Unregister, SleepersAcked
  <2>. QED BY <2>1, <2>2, <2>3, <2>4, <2>5, <2>6 DEF IInv
<1>10. ASSUME NEW t \in Threads, Choose(t) PROVE IInv'
  <2>1. TypeOK'
    BY <1>10 DEF IInv, TypeOK, Choose, Labels
  <2>2. (Claims /\ StopUp /\ RunningIsRegistered /\ SnapshotAlive)'
    BY <1>10 DEF IInv, TypeOK, Choose, Claims, Claimed, StopUp, RunningIsRegistered,
       SnapshotAlive
  <2>3. StoppedIsHalted'
    BY <1>10 DEF IInv, TypeOK, Choose, StoppedIsHalted, Claims, Claimed, StopUp, Halted
  <2>4. AskedIsHalted'
    BY <1>10 DEF IInv, TypeOK, Choose, AskedIsHalted, StoppedIsHalted,
       RunningIsRegistered, Claims, Claimed, StopUp, Halted
  <2>5. StopServed'
    BY <1>10 DEF IInv, TypeOK, Choose, StopServed, HandsOver, Pausing,
       AskedIsHalted, Claims, Claimed, Halted
  <2>6. SleepersAcked'
    BY <1>10 DEF IInv, TypeOK, Choose, SleepersAcked
  <2>. QED BY <2>1, <2>2, <2>3, <2>4, <2>5, <2>6 DEF IInv
<1>11. ASSUME NEW t \in Threads, Raise(t) PROVE IInv'
  <2>1. TypeOK'
    <3>1. CASE At(t, "raise")
      BY <1>11, <3>1 DEF IInv, TypeOK, Raise, Labels
    <3>2. CASE At(t, "bump")
      <4>1. cycle' \in Nat /\ acked' \in [Threads -> 0..cycle'] /\ seen' \in [Threads -> 0..cycle']
        BY <1>11, <3>2 DEF IInv, TypeOK, Raise
      <4>2. pc' \in [Threads -> Labels]
        BY <1>11, <3>2 DEF IInv, TypeOK, Raise, Broadcast, Labels
      <4>. QED BY <1>11, <3>2, <4>1, <4>2 DEF IInv, TypeOK, Raise
    <3>. QED BY <1>11, <3>1, <3>2 DEF Raise
  <2>2. (Claims /\ StopUp /\ RunningIsRegistered /\ SnapshotAlive)'
    BY <1>11 DEF IInv, TypeOK, Raise, Broadcast, Claims, Claimed, StopUp, RunningIsRegistered,
       SnapshotAlive
  <2>3. StoppedIsHalted'
    BY <1>11 DEF IInv, TypeOK, Raise, Broadcast, StoppedIsHalted, Claims, Claimed, StopUp, Halted
  <2>4. AskedIsHalted'
    BY SMTT(60), <1>11 DEF IInv, TypeOK, Raise, Broadcast, AskedIsHalted, StoppedIsHalted,
       RunningIsRegistered, Claims, Claimed, StopUp, Halted
  <2>5. StopServed'
    <3>1. Pausing(t)'
      BY <1>11 DEF IInv, TypeOK, Raise, Broadcast, Pausing
    <3>. QED BY <3>1 DEF StopServed
  <2>6. SleepersAcked'
    BY <1>11 DEF IInv, TypeOK, Raise, Broadcast, SleepersAcked
  <2>. QED BY <2>1, <2>2, <2>3, <2>4, <2>5, <2>6 DEF IInv
<1>12. ASSUME NEW t \in Threads, Snapshot(t) PROVE IInv'
  <2>1. TypeOK'
    BY <1>12 DEF IInv, TypeOK, Snapshot, Labels
  <2>2. (Claims /\ StopUp /\ RunningIsRegistered /\ SnapshotAlive)'
    BY <1>12 DEF IInv, TypeOK, Snapshot, Claims, Claimed, StopUp, RunningIsRegistered,
       SnapshotAlive
  <2>3. StoppedIsHalted'
    BY <1>12 DEF IInv, TypeOK, Snapshot, StoppedIsHalted, Claims, Claimed, StopUp, Halted
  <2>4. AskedIsHalted'
    BY <1>12 DEF IInv, TypeOK, Snapshot, AskedIsHalted, StoppedIsHalted,
       RunningIsRegistered, Claims, Claimed, StopUp, Halted
  <2>5. StopServed'
    BY <1>12 DEF IInv, TypeOK, Snapshot, StopServed, HandsOver, Pausing,
       AskedIsHalted, Claims, Claimed, Halted
  <2>6. SleepersAcked'
    BY <1>12 DEF IInv, TypeOK, Snapshot, SleepersAcked
  <2>. QED BY <2>1, <2>2, <2>3, <2>4, <2>5, <2>6 DEF IInv
<1>13. ASSUME NEW t \in Threads, Sync(t) PROVE IInv'
  <2>1. TypeOK'
    BY <1>13 DEF IInv, TypeOK, Sync, Stopped, Labels
  <2>2. (Claims /\ StopUp /\ RunningIsRegistered /\ SnapshotAlive)'
    BY <1>13 DEF IInv, TypeOK, Sync, Stopped, Claims, Claimed, StopUp, RunningIsRegistered,
       SnapshotAlive
  <2>3. StoppedIsHalted'
    BY <1>13 DEF IInv, TypeOK, Sync, Stopped, StoppedIsHalted, Claims, Claimed, StopUp, Halted
  <2>4. AskedIsHalted'
    BY <1>13 DEF IInv, TypeOK, Sync, Stopped, AskedIsHalted, StoppedIsHalted,
       RunningIsRegistered, Claims, Claimed, StopUp, Halted
  <2>5. StopServed'
    BY <1>13 DEF IInv, TypeOK, Sync, Stopped, StopServed, HandsOver, Pausing,
       AskedIsHalted, Claims, Claimed, Halted
  <2>6. SleepersAcked'
    BY <1>13 DEF IInv, TypeOK, Sync, Stopped, SleepersAcked
  <2>. QED BY <2>1, <2>2, <2>3, <2>4, <2>5, <2>6 DEF IInv
<1>14. ASSUME NEW t \in Threads, Mark(t) PROVE IInv'
  <2>1. TypeOK'
    <3>1. major' \in BOOLEAN
      BY Zenon, <1>14 DEF IInv, TypeOK, Mark
    <3>. QED BY Zenon, <1>14, <3>1 DEF IInv, TypeOK, Mark, Labels
  <2>2. (Claims /\ StopUp /\ RunningIsRegistered /\ SnapshotAlive)'
    BY <1>14 DEF IInv, TypeOK, Mark, Claims, Claimed, StopUp, RunningIsRegistered,
       SnapshotAlive
  <2>3. StoppedIsHalted'
    BY <1>14 DEF IInv, TypeOK, Mark, StoppedIsHalted, Claims, Claimed, StopUp, Halted
  <2>4. AskedIsHalted'
    BY <1>14 DEF IInv, TypeOK, Mark, AskedIsHalted, StoppedIsHalted,
       RunningIsRegistered, Claims, Claimed, StopUp, Halted
  <2>5. StopServed'
    BY <1>14 DEF IInv, TypeOK, Mark, StopServed, HandsOver, Pausing,
       AskedIsHalted, Claims, Claimed, Halted
  <2>6. SleepersAcked'
    BY <1>14 DEF IInv, TypeOK, Mark, SleepersAcked
  <2>. QED BY <2>1, <2>2, <2>3, <2>4, <2>5, <2>6 DEF IInv
<1>15. ASSUME NEW t \in Threads, Lower(t) PROVE IInv'
  <2>1. TypeOK'
    <3>1. CASE kind[t] = "minor" /\ major
      BY <1>15, <3>1 DEF IInv, TypeOK, Lower, Labels
    <3>2. CASE ~(kind[t] = "minor" /\ major)
      BY ZenonT(60), <1>15, <3>2 DEF IInv, TypeOK, Lower, Broadcast, Labels
    <3>. QED BY <3>1, <3>2
  <2>2. (Claims /\ StopUp /\ RunningIsRegistered /\ SnapshotAlive)'
    BY <1>15 DEF IInv, TypeOK, Lower, Broadcast, Claims, Claimed, StopUp, RunningIsRegistered,
       SnapshotAlive
  <2>3. StoppedIsHalted'
    BY <1>15 DEF IInv, TypeOK, Lower, Broadcast, StoppedIsHalted, Claims, Claimed, StopUp, Halted
  <2>4. AskedIsHalted'
    BY <1>15 DEF IInv, TypeOK, Lower, Broadcast, AskedIsHalted, StoppedIsHalted,
       RunningIsRegistered, Claims, Claimed, StopUp, Halted
  <2>5. StopServed'
    <3>1. CASE kind[t] = "minor" /\ major
      <4>1. HandsOver(t)'
        BY <1>15, <3>1 DEF IInv, TypeOK, Lower, HandsOver, AskedIsHalted, Halted
      <4>. QED BY <4>1 DEF StopServed
    <3>2. CASE ~(kind[t] = "minor" /\ major)
      BY Zenon, <1>15, <3>2 DEF Lower, StopServed
    <3>. QED BY <3>1, <3>2
  <2>6. SleepersAcked'
    BY <1>15 DEF IInv, TypeOK, Lower, Broadcast, SleepersAcked
  <2>. QED BY <2>1, <2>2, <2>3, <2>4, <2>5, <2>6 DEF IInv
<1>16. ASSUME NEW t \in Threads, Release(t) PROVE IInv'
  <2>1. TypeOK'
    <3>1. CASE At(t, "yield")
      BY Zenon, <1>16, <3>1 DEF IInv, TypeOK, Release, Labels
    <3>2. CASE At(t, "unlock")
      BY <1>16, <3>2 DEF IInv, TypeOK, Release, Labels
    <3>. QED BY <1>16, <3>1, <3>2 DEF Release
  <2>2. (Claims /\ StopUp /\ RunningIsRegistered /\ SnapshotAlive)'
    BY <1>16 DEF IInv, TypeOK, Release, Claims, Claimed, StopUp, RunningIsRegistered,
       SnapshotAlive
  <2>3. StoppedIsHalted'
    BY <1>16 DEF IInv, TypeOK, Release, StoppedIsHalted, Claims, Claimed, StopUp, Halted
  <2>4. AskedIsHalted'
    BY <1>16 DEF IInv, TypeOK, Release, AskedIsHalted, StoppedIsHalted,
       RunningIsRegistered, Claims, Claimed, StopUp, Halted
  <2>5. StopServed'
    BY <1>16 DEF IInv, TypeOK, Release, StopServed, HandsOver, Pausing,
       AskedIsHalted, Claims, Claimed, Halted
  <2>6. SleepersAcked'
    BY <1>16 DEF IInv, TypeOK, Release, SleepersAcked
  <2>. QED BY <2>1, <2>2, <2>3, <2>4, <2>5, <2>6 DEF IInv
<1>17. ASSUME NEW t \in Threads, Chain(t) PROVE IInv'
  <2>1. TypeOK'
    BY ZenonT(60), <1>17 DEF IInv, TypeOK, Chain, Labels
  <2>2. (Claims /\ StopUp /\ RunningIsRegistered /\ SnapshotAlive)'
    BY <1>17 DEF IInv, TypeOK, Chain, Claims, Claimed, StopUp, RunningIsRegistered,
       SnapshotAlive
  <2>3. StoppedIsHalted'
    BY <1>17 DEF IInv, TypeOK, Chain, StoppedIsHalted, Claims, Claimed, StopUp, Halted
  <2>4. AskedIsHalted'
    BY SMTT(60), <1>17 DEF IInv, TypeOK, Chain, AskedIsHalted, StoppedIsHalted,
       RunningIsRegistered, Claims, Claimed, StopUp, Halted
  <2>5. StopServed'
    BY <1>17 DEF IInv, TypeOK, Chain, StopServed, HandsOver, Pausing,
       AskedIsHalted, Claims, Claimed, Halted
  <2>6. SleepersAcked'
    BY SMTT(60), <1>17 DEF IInv, TypeOK, Chain, SleepersAcked
  <2>. QED BY <2>1, <2>2, <2>3, <2>4, <2>5, <2>6 DEF IInv
<1>18. CASE UNCHANGED vars
  BY <1>18 DEF IInv, vars, TypeOK, Claims, StopUp, StoppedIsHalted, RunningIsRegistered,
     AskedIsHalted, SnapshotAlive, StopServed, HandsOver, Pausing, SleepersAcked
<1>. QED
  BY <1>1, <1>2, <1>3, <1>4, <1>5, <1>6, <1>7, <1>8, <1>9,
     <1>10, <1>11, <1>12, <1>13, <1>14, <1>15, <1>16, <1>17, <1>18 DEF Next, Step

(* sl_gc.c: while a collector marks and sweeps, no other thread runs program *)
(* code, for any number of threads and cycles and however minors chain into  *)
(* majors.                                                                   *)
THEOREM WorldIsStopped == Spec => []StoppedWorld
<1>1. IInv => StoppedWorld
  BY DEF IInv, StoppedWorld, AskedIsHalted, Halted
<1>. QED BY InitIInv, StepIInv, <1>1, PTL DEF Spec

(* There is one collector, and every thread it asks is still registered. *)
THEOREM CollectorIsAlone == Spec => [](OneCollector /\ SnapshotAlive)
<1>1. IInv => OneCollector /\ SnapshotAlive
  BY DEF IInv, OneCollector, Claims, Claimed, InPause
<1>. QED BY InitIInv, StepIInv, <1>1, PTL DEF Spec

(* A raised stop always has a thread that will lower it: the handover from a *)
(* minor to its major, with sl_gc_collecting down, loses no stopped thread.  *)
THEOREM StopHasServer == Spec => []StopIsServed
<1>1. IInv => StopIsServed
  BY DEF IInv, StopIsServed, StopServed, HandsOver, Pausing, InPause, TypeOK
<1>. QED BY InitIInv, StepIInv, <1>1, PTL DEF Spec

(* A thread asleep in a pause has acknowledged it, so no collector waits for *)
(* a thread that sleeps.                                                     *)
THEOREM SleepersAreAcked == Spec => []SleeperHasAcked
<1>1. IInv => SleeperHasAcked
  BY DEF IInv, SleeperHasAcked, SleepersAcked
<1>. QED BY InitIInv, StepIInv, <1>1, PTL DEF Spec
===============================================================================
