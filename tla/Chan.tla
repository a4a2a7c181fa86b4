-------------------------------- MODULE Chan --------------------------------
(***************************************************************************)
(* chan[T] and select (runtime/sl_containers.c): bounded ring buffers whose *)
(* blocked parties park as nodes on per-channel wait lists.  A node lives   *)
(* on the stack of the task that pushed it.                                 *)
(*                                                                         *)
(* Every read or write of a channel happens under its mutex `mu`, and a     *)
(* parking call keeps `mu` locked until its context switch is complete      *)
(* (sl_task_park), so one critical section is one step.  A select never     *)
(* holds two channel locks: each arm it polls, enqueues or dequeues is a    *)
(* step of its own.                                                         *)
(***************************************************************************)
EXTENDS Naturals, Sequences, SequencesExt

CONSTANTS Tasks,      \* the tasks that use the channels
          Chans,      \* the channels
          Values,     \* what is sent
          Empty,      \* what a cleared buffer slot holds
          Programs    \* Programs[k]: a program the tasks may be running

Dirs == {"send", "recv"}

(* An arm names a channel, a direction and, to send, a value.  A plain      *)
(* chan_send, chan_recv or chan_close is a call of one arm; `dflt` says     *)
(* that a select has a default arm.                                         *)
Arms == [ch : Chans, dir : Dirs, val : Values \cup {Empty}]

IsCall(x) ==
    /\ x.op \in {"send", "recv", "close", "select"}
    /\ x.arms \in Seq(Arms) /\ x.arms # <<>>
    /\ x.dflt \in BOOLEAN
    /\ x.op # "select" => Len(x.arms) = 1
    /\ x.op \in Dirs => x.arms[1].dir = x.op
    /\ \A i \in DOMAIN x.arms : x.arms[i].dir = "send" => x.arms[i].val \in Values

(* A program makes each channel with a capacity, and says which calls each  *)
(* task may make and (the bound) how many of them.                          *)
IsProgram(p) ==
    /\ p.cap \in [Chans -> Nat \ {0}]
    /\ p.max \in Nat
    /\ \A t \in Tasks : p.calls[t] # {} /\ \A x \in p.calls[t] : IsCall(x)

ASSUME ChanAssumption ==
    /\ Empty \notin Values
    /\ \A k \in DOMAIN Programs : IsProgram(Programs[k])

VARIABLES prog,     \* Programs[prog] is the program that runs
          buf,      \* buf[c][i]: ring slot i of c
          head,     \* head[c]: slot of the oldest value
          count,    \* count[c]: values queued
          closed,   \* closed[c]
          waiters,  \* waiters[c][d]: parties waiting on c in direction d, oldest first
          pc,       \* pc[t]: where t is in its call, and the index of its loop
          call,     \* call[t]: the call t is in, or made last
          woken,    \* woken[t]: t's select has been claimed by a channel
          parked,   \* parked[t]: t's select has switched out
          start,    \* start[t]: the arm t's current poll began at
          ncalls    \* ncalls[t]: calls begun by t

chanVars == <<buf, head, count, closed>>
vars     == <<prog, chanVars, waiters, pc, call, woken, parked, start, ncalls>>

Cap      == Programs[prog].cap      \* Cap[c]: buffer capacity of channel c
Calls    == Programs[prog].calls    \* Calls[t]: the calls task t may make
MaxCalls == Programs[prog].max      \* bound: calls per task

At(label, i) == [at |-> label, i |-> i]

Labels == {"idle", "lock", "parked", "relock", "poll1", "enqueue", "poll2",
           "check", "selparked", "dequeue", "leave", "fail", "panicked"}

Node(t, i) == [task |-> t, arm |-> i]   \* arm 0: sel == NULL, a plain waiter

Arm(t, i) == call[t].arms[i]
NArms(t)  == Len(call[t].arms)

Init ==
    /\ prog \in DOMAIN Programs
    /\ buf     = [c \in Chans |-> [i \in 0 .. Cap[c] - 1 |-> Empty]]
    /\ head    = [c \in Chans |-> 0]
    /\ count   = [c \in Chans |-> 0]
    /\ closed  = [c \in Chans |-> FALSE]
    /\ waiters = [c \in Chans |-> [d \in Dirs |-> <<>>]]
    /\ pc      = [t \in Tasks |-> At("idle", 0)]
    /\ call    = [t \in Tasks |-> CHOOSE x \in Calls[t] : TRUE]
    /\ woken   = [t \in Tasks |-> FALSE]
    /\ parked  = [t \in Tasks |-> FALSE]
    /\ start   = [t \in Tasks |-> 0]
    /\ ncalls  = [t \in Tasks |-> 0]

-----------------------------------------------------------------------------
(* The ring buffer.                                                         *)

Full(c) == count[c] = Cap[c]

(* Stores v at the tail. *)
Put(c, v) ==
    /\ buf'   = [buf EXCEPT ![c][(head[c] + count[c]) % Cap[c]] = v]
    /\ count' = [count EXCEPT ![c] = @ + 1]
    /\ UNCHANGED <<head, closed>>

(* sl_chan_take: the value at head leaves and its slot is cleared. *)
Take(c) ==
    /\ buf'   = [buf EXCEPT ![c][head[c]] = Empty]
    /\ head'  = [head EXCEPT ![c] = (@ + 1) % Cap[c]]
    /\ count' = [count EXCEPT ![c] = @ - 1]
    /\ UNCHANGED closed

-----------------------------------------------------------------------------
(* Waking.                                                                  *)

Plain(w)   == w.arm = 0
Claimed(w) == ~Plain(w) /\ woken[w.task]

(* sl_waiter_wake on every node of W: a plain waiter is resumed; a select   *)
(* not yet claimed is claimed, and resumed only if it has switched out.     *)
(* newpc holds the caller's own move.                                       *)
Wake(W, newpc) ==
    LET plains == {w.task : w \in {x \in W : Plain(x)}}
        claims == {w.task : w \in {x \in W : ~Plain(x) /\ ~Claimed(x)}}
    IN  /\ woken' = [t \in Tasks |-> woken[t] \/ t \in claims]
        /\ pc' = [t \in Tasks |->
                    IF t \in plains THEN At("relock", 0)
                    ELSE IF t \in claims /\ parked[t] THEN At("dequeue", 1)
                    ELSE newpc[t]]

(* sl_wl_wake_one: pops waiters until one is not already claimed. *)
WakeOne(c, d, newpc) ==
    LET q == waiters[c][d] IN
      \/ /\ \A i \in DOMAIN q : Claimed(q[i])
         /\ waiters' = [waiters EXCEPT ![c][d] = <<>>]
         /\ Wake({}, newpc)
      \/ \E n \in DOMAIN q :
           /\ ~Claimed(q[n]) /\ \A i \in 1 .. n - 1 : Claimed(q[i])
           /\ waiters' = [waiters EXCEPT ![c][d] = SubSeq(q, n + 1, Len(q))]
           /\ Wake({q[n]}, newpc)

-----------------------------------------------------------------------------
(* chan_send, chan_recv and chan_close.                                     *)

Goto(t, label, i) == [pc EXCEPT ![t] = At(label, i)]

(* A call starts.  A task whose last call raised an error goes on only if a *)
(* joined spawn recovered it.                                               *)
Begin(t, x) ==
    /\ pc[t].at \in {"idle", "panicked"}
    /\ ncalls[t] < MaxCalls
    /\ call' = [call EXCEPT ![t] = x]
    /\ ncalls' = [ncalls EXCEPT ![t] = @ + 1]
    /\ \/ /\ x.op # "select"
          /\ pc' = Goto(t, "lock", 0)
          /\ UNCHANGED start
       \/ /\ x.op = "select"
          /\ pc' = Goto(t, "poll1", 0)
          /\ start' \in {[start EXCEPT ![t] = s] : s \in 0 .. Len(x.arms) - 1}
    /\ UNCHANGED <<chanVars, waiters, woken, parked, prog>>

(* The wait list is joined and the task switched out before mu is released. *)
Park(t, c, d) ==
    /\ waiters' = [waiters EXCEPT ![c][d] = Append(@, Node(t, 0))]
    /\ pc' = Goto(t, "parked", 0)
    /\ UNCHANGED <<chanVars, woken>>

Send(t) ==
    /\ pc[t].at \in {"lock", "relock"} /\ call[t].op = "send"
    /\ LET c == Arm(t, 1).ch IN
         \/ /\ Full(c) /\ ~closed[c]
            /\ Park(t, c, "send")
         \/ /\ closed[c]          \* error: send on closed channel
            /\ pc' = Goto(t, "panicked", 0)
            /\ UNCHANGED <<chanVars, waiters, woken>>
         \/ /\ ~Full(c) /\ ~closed[c]
            /\ Put(c, Arm(t, 1).val)
            /\ WakeOne(c, "recv", Goto(t, "idle", 0))
    /\ UNCHANGED <<call, parked, start, ncalls, prog>>

Recv(t) ==
    /\ pc[t].at \in {"lock", "relock"} /\ call[t].op = "recv"
    /\ LET c == Arm(t, 1).ch IN
         \/ /\ count[c] = 0 /\ ~closed[c]
            /\ Park(t, c, "recv")
         \/ /\ count[c] = 0 /\ closed[c]   \* drained: none
            /\ pc' = Goto(t, "idle", 0)
            /\ UNCHANGED <<chanVars, waiters, woken>>
         \/ /\ count[c] > 0
            /\ Take(c)
            /\ WakeOne(c, "send", Goto(t, "idle", 0))
    /\ UNCHANGED <<call, parked, start, ncalls, prog>>

(* Mutant: close wakes the receivers only. *)
CloseWakesReceivers(t) ==
    /\ pc[t].at = "lock" /\ call[t].op = "close"
    /\ LET c == Arm(t, 1).ch IN
         /\ closed' = [closed EXCEPT ![c] = TRUE]
         /\ waiters' = [waiters EXCEPT ![c]["recv"] = <<>>]
         /\ Wake(Range(waiters[c]["recv"]), Goto(t, "idle", 0))
    /\ UNCHANGED <<buf, head, count, call, parked, start, ncalls, prog>>

Close(t) ==
    /\ pc[t].at = "lock" /\ call[t].op = "close"
    /\ LET c == Arm(t, 1).ch IN
         /\ closed' = [closed EXCEPT ![c] = TRUE]
         /\ waiters' = [waiters EXCEPT ![c] = [d \in Dirs |-> <<>>]]
         /\ Wake(UNION {Range(waiters[c][d]) : d \in Dirs}, Goto(t, "idle", 0))
    /\ UNCHANGED <<buf, head, count, call, parked, start, ncalls, prog>>

-----------------------------------------------------------------------------
(* select.                                                                  *)

(* sl_sel_try_locked on arm a: -1 (BadSend), 1 (ArmReady) or 0. *)
BadSend(a)  == a.dir = "send" /\ closed[a.ch]
ArmReady(a) == \/ a.dir = "send" /\ ~closed[a.ch] /\ ~Full(a.ch)
               \/ a.dir = "recv" /\ (count[a.ch] > 0 \/ closed[a.ch])

(* Firing a ready arm moves its value and wakes one opposite party; a recv  *)
(* arm on a closed, drained channel fires with none and moves nothing.      *)
Fire(a, newpc) ==
    \/ /\ a.dir = "send"
       /\ Put(a.ch, a.val)
       /\ WakeOne(a.ch, "recv", newpc)
    \/ /\ a.dir = "recv" /\ count[a.ch] > 0
       /\ Take(a.ch)
       /\ WakeOne(a.ch, "send", newpc)
    \/ /\ a.dir = "recv" /\ count[a.ch] = 0
       /\ pc' = newpc
       /\ UNCHANGED <<chanVars, waiters, woken>>

(* sl_sel_poll, one arm.  `fired`, `bad` and `none` are where the select    *)
(* goes once an arm fired, a send arm's channel was closed, or every arm    *)
(* was passed over.                                                         *)
PollArm(t, fired, bad, none) ==
    LET i == pc[t].i
        a == Arm(t, ((start[t] + i) % NArms(t)) + 1)
    IN  \/ /\ BadSend(a)
           /\ pc' = [pc EXCEPT ![t] = bad]
           /\ UNCHANGED <<chanVars, waiters, woken>>
        \/ /\ ArmReady(a)
           /\ Fire(a, [pc EXCEPT ![t] = fired])
        \/ /\ ~BadSend(a) /\ ~ArmReady(a)
           /\ pc' = [pc EXCEPT ![t] = IF i + 1 < NArms(t)
                                      THEN At(pc[t].at, i + 1) ELSE none]
           /\ UNCHANGED <<chanVars, waiters, woken>>

FirstPoll(t) ==
    /\ pc[t].at = "poll1"
    /\ PollArm(t, At("idle", 0), At("panicked", 0),
               IF call[t].dflt THEN At("idle", 0) ELSE At("enqueue", 1))
    /\ UNCHANGED <<call, parked, start, ncalls, prog>>

(* A poll begins at sl_sel_rr % n.  The counter is shared by every select   *)
(* of the program, so to one select its residue is arbitrary.               *)
PollFrom(t) ==
    start' \in {[start EXCEPT ![t] = s] : s \in 0 .. NArms(t) - 1}

(* Mutant: no second poll after the enqueue. *)
EnqueueThenPark(t) ==
    /\ pc[t].at = "enqueue"
    /\ LET i == pc[t].i
           a == Arm(t, i)
       IN  /\ waiters' = [waiters EXCEPT ![a.ch][a.dir] = Append(@, Node(t, i))]
           /\ pc' = IF i < NArms(t) THEN Goto(t, "enqueue", i + 1)
                                    ELSE Goto(t, "check", 0)
    /\ UNCHANGED <<chanVars, call, woken, parked, start, ncalls, prog>>

(* sl_sel_enqueue, one arm. *)
Enqueue(t) ==
    /\ pc[t].at = "enqueue"
    /\ LET i == pc[t].i
           a == Arm(t, i)
       IN  /\ waiters' = [waiters EXCEPT ![a.ch][a.dir] = Append(@, Node(t, i))]
           /\ \/ /\ i < NArms(t)
                 /\ pc' = Goto(t, "enqueue", i + 1)
                 /\ UNCHANGED start
              \/ /\ i = NArms(t)
                 /\ pc' = Goto(t, "poll2", 0)
                 /\ PollFrom(t)
    /\ UNCHANGED <<chanVars, call, woken, parked, ncalls, prog>>

(* Mutants: an arm that fired does not end the select; a select that fired  *)
(* returns without leaving the wait lists.                                  *)
SecondPollGoesOn(t) ==
    /\ pc[t].at = "poll2"
    /\ PollArm(t, At("dequeue", 1), At("fail", 1), At("check", 0))
    /\ UNCHANGED <<call, parked, start, ncalls, prog>>

SecondPollKeepsNodes(t) ==
    /\ pc[t].at = "poll2"
    /\ PollArm(t, At("idle", 0), At("fail", 1), At("check", 0))
    /\ UNCHANGED <<call, parked, start, ncalls, prog>>

SecondPoll(t) ==
    /\ pc[t].at = "poll2"
    /\ PollArm(t, At("leave", 1), At("fail", 1), At("check", 0))
    /\ UNCHANGED <<call, parked, start, ncalls, prog>>

(* Mutant: parks without looking at `woken`. *)
ParkUnchecked(t) ==
    /\ pc[t].at = "check"
    /\ parked' = [parked EXCEPT ![t] = TRUE]
    /\ pc' = Goto(t, "selparked", 0)
    /\ UNCHANGED <<chanVars, waiters, call, woken, start, ncalls, prog>>

(* Under sel.mu: park, unless a channel has claimed the select meanwhile. *)
CheckAndPark(t) ==
    /\ pc[t].at = "check"
    /\ \/ /\ woken[t]
          /\ pc' = Goto(t, "dequeue", 1)
          /\ UNCHANGED parked
       \/ /\ ~woken[t]
          /\ parked' = [parked EXCEPT ![t] = TRUE]
          /\ pc' = Goto(t, "selparked", 0)
    /\ UNCHANGED <<chanVars, waiters, call, woken, start, ncalls, prog>>

(* sl_wl_remove: a node that a waker has popped is not found. *)
Unlink(q, w) ==
    IF \E j \in DOMAIN q : q[j] = w
    THEN RemoveAt(q, CHOOSE j \in DOMAIN q : q[j] = w)
    ELSE q

(* sl_sel_dequeue, one arm; after the last, the round's flags are reset and *)
(* the select polls again, returns or raises its error.                     *)
Dequeue(t) ==
    /\ pc[t].at \in {"dequeue", "leave", "fail"}
    /\ LET i == pc[t].i
           a == Arm(t, i)
       IN  /\ waiters' = [waiters EXCEPT ![a.ch][a.dir] = Unlink(@, Node(t, i))]
           /\ \/ /\ i < NArms(t)
                 /\ pc' = Goto(t, pc[t].at, i + 1)
                 /\ UNCHANGED <<woken, parked, start>>
              \/ /\ i = NArms(t)
                 /\ woken' = [woken EXCEPT ![t] = FALSE]
                 /\ parked' = [parked EXCEPT ![t] = FALSE]
                 /\ \/ /\ pc[t].at = "dequeue"
                       /\ pc' = Goto(t, "poll1", 0)
                       /\ PollFrom(t)
                    \/ /\ pc[t].at = "leave"
                       /\ pc' = Goto(t, "idle", 0)
                       /\ UNCHANGED start
                    \/ /\ pc[t].at = "fail"
                       /\ pc' = Goto(t, "panicked", 0)
                       /\ UNCHANGED start
    /\ UNCHANGED <<chanVars, call, ncalls, prog>>

-----------------------------------------------------------------------------
(* A step of a call already begun. *)
Step(t) ==
    \/ Send(t) \/ Recv(t) \/ Close(t)
    \/ FirstPoll(t) \/ Enqueue(t) \/ SecondPoll(t) \/ CheckAndPark(t) \/ Dequeue(t)

Next == \E t \in Tasks : Step(t) \/ \E x \in Calls[t] : Begin(t, x)

Spec == Init /\ [][Next]_vars

(* A runnable task is run again: the scheduler's queues are FIFO and its    *)
(* workers never stop while work is queued.                                 *)
FairSpec == Spec /\ \A t \in Tasks : WF_vars(Step(t))

-----------------------------------------------------------------------------
(* Properties.                                                              *)

(* The variables have their types: in particular a buffer never holds more  *)
(* than its capacity and head stays inside it.                              *)
TypeOK ==
    /\ prog \in DOMAIN Programs
    /\ buf \in [Chans -> UNION {[0 .. Cap[c] - 1 -> Values \cup {Empty}] : c \in Chans}]
    /\ \A c \in Chans : /\ DOMAIN buf[c] = 0 .. Cap[c] - 1
                        /\ head[c] \in 0 .. Cap[c] - 1
                        /\ count[c] \in 0 .. Cap[c]
    /\ closed \in [Chans -> BOOLEAN]
    /\ \A c \in Chans, d \in Dirs : \A j \in DOMAIN waiters[c][d] :
          waiters[c][d][j] \in [task : Tasks, arm : Nat]
    /\ pc \in [Tasks -> [at : Labels, i : Nat]]
    /\ DOMAIN call = Tasks /\ \A t \in Tasks : call[t] \in Calls[t]
    /\ woken \in [Tasks -> BOOLEAN]
    /\ parked \in [Tasks -> BOOLEAN]
    /\ \A t \in Tasks : start[t] \in Nat
    /\ ncalls \in [Tasks -> 0 .. MaxCalls]

(* Is t's select in the part of its round where arm i's node may be linked? *)
MayBeLinked(t, i) ==
    \/ pc[t].at = "enqueue" /\ i < pc[t].i
    \/ pc[t].at \in {"poll2", "check", "selparked"}
    \/ pc[t].at \in {"dequeue", "leave", "fail"} /\ i >= pc[t].i

(* A linked node is one of a call that has not returned: it lies in a stack *)
(* frame that still exists, on the list its call put it on, once.  A plain  *)
(* waiter's task is switched out, so resuming it is legal.                  *)
NodesLive ==
    \A c \in Chans, d \in Dirs :
      LET q == waiters[c][d] IN
        /\ \A j \in DOMAIN q :
             LET t == q[j].task
                 i == q[j].arm
             IN  \/ /\ i = 0 /\ pc[t].at = "parked" /\ call[t].op = d
                    /\ Arm(t, 1).ch = c
                 \/ /\ i \in 1 .. NArms(t) /\ call[t].op = "select"
                    /\ Arm(t, i).ch = c /\ Arm(t, i).dir = d
                    /\ MayBeLinked(t, i)
        /\ \A j1, j2 \in DOMAIN q : q[j1] = q[j2] => j1 = j2

(* A waker resumes a select only if it sees `parked` set and `woken` clear: *)
(* that is then a task that has switched out, every one of its arms is      *)
(* still linked, and no task sleeps on a claim that was already made.       *)
Linked(w, c, d) == w \in Range(waiters[c][d])

ParkedSelectIsReachable ==
    \A t \in Tasks :
      /\ parked[t] /\ ~woken[t] => pc[t].at = "selparked"
      /\ pc[t].at = "selparked" =>
           /\ parked[t] /\ ~woken[t]
           /\ \A i \in 1 .. NArms(t) : Linked(Node(t, i), Arm(t, i).ch, Arm(t, i).dir)
      /\ pc[t].at = "parked" => Linked(Node(t, 0), Arm(t, 1).ch, call[t].op)

(* Everybody's call is over or asleep. *)
Quiescent ==
    \A t \in Tasks : pc[t].at \in {"idle", "panicked", "parked", "selparked"}

(* The wait list an arm waits on, and those of a call. *)
List(a)  == <<a.ch, a.dir>>
Lists(x) == {List(x.arms[i]) : i \in DOMAIN x.arms}

CouldGoOn(a) == ArmReady(a) \/ BadSend(a)

Waits(t, a)   == \E x \in Calls[t] : x.op # "close" /\ a \in Lists(x)
Selects(t, a) == \E x \in Calls[t] : x.op = "select" /\ a \in Lists(x)

(* No select competes with another task for the wakes of this wait list. *)
NotShared(a) ==
    \A t, u \in Tasks : t # u /\ Selects(t, a) => ~Waits(u, a)

(* chan_send blocks while full, chan_recv blocks while empty and select     *)
(* blocks while no arm is ready: once nobody is left to wake it, a sleeping *)
(* call is one that could not proceed.  This is what the code achieves:     *)
(* it holds of every wait list that no select shares with another task.     *)
NoStrandedWaiter ==
    Quiescent => \A t \in Tasks : pc[t].at \in {"parked", "selparked"} =>
                    \A i \in 1 .. NArms(t) :
                       NotShared(List(Arm(t, i))) => ~CouldGoOn(Arm(t, i))

(* The same of every wait list, as the language's documentation has it. *)
BlocksOnlyIfItMust ==
    Quiescent => \A t \in Tasks : pc[t].at \in {"parked", "selparked"} =>
                    \A i \in 1 .. NArms(t) : ~CouldGoOn(Arm(t, i))

(* chan_close wakes every blocked sender and receiver: a call asleep on a   *)
(* channel that is closed comes to its end.                                 *)
CloseEndsWaits ==
    \A t \in Tasks :
      (/\ pc[t].at \in {"parked", "selparked"}
       /\ \E i \in 1 .. NArms(t) : closed[Arm(t, i).ch])
        ~> (pc[t].at \in {"idle", "panicked"})

(* Every call takes effect exactly once, on one arm, against a bounded FIFO *)
(* queue: the ring buffer, wait lists and select's two polls implement      *)
(* ChanCalls.                                                               *)
Queue == [c \in Chans |->
            [j \in 1 .. count[c] |-> buf[c][(head[c] + j - 1) % Cap[c]]]]

Status == [t \in Tasks |->
             IF pc[t].at \in {"idle", "panicked"} THEN "returned"
             ELSE IF pc[t].at = "leave" THEN "performed"
             ELSE IF pc[t].at = "fail" THEN "refused"
             ELSE "pending"]

Abs == INSTANCE ChanCalls WITH queue <- Queue, status <- Status

CallsTakeEffectOnce == Abs!Spec

=============================================================================
