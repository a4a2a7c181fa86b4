------------------------------ MODULE ChanCalls ------------------------------
(***************************************************************************)
(* What the channel operations promise: each channel is a bounded FIFO      *)
(* queue, and every call takes effect at one instant between its start and  *)
(* its return, on exactly one of its arms.  No wait lists, no wakeups.      *)
(***************************************************************************)
EXTENDS Naturals, Sequences

CONSTANTS Tasks, Chans, Programs

VARIABLES prog,    \* Programs[prog]: capacities, and the calls tasks may make
          queue,   \* queue[c]: the values in c, oldest first
          closed,  \* closed[c]
          call,    \* call[t]: the call t is in, or made last
          status   \* status[t]: has t's call taken effect?

vars == <<prog, queue, closed, call, status>>

Init ==
    /\ prog \in DOMAIN Programs
    /\ queue  = [c \in Chans |-> <<>>]
    /\ closed = [c \in Chans |-> FALSE]
    /\ DOMAIN call = Tasks /\ \A t \in Tasks : call[t] \in Programs[prog].calls[t]
    /\ status = [t \in Tasks |-> "returned"]

Begin(t, x) ==
    /\ status[t] = "returned"
    /\ call' = [call EXCEPT ![t] = x]
    /\ status' = [status EXCEPT ![t] = "pending"]
    /\ UNCHANGED <<queue, closed>>

(* What one arm may do: queue its value, take the oldest one, or find the   *)
(* channel closed and drained.                                              *)
Effect(a) ==
    \/ /\ a.dir = "send" /\ ~closed[a.ch] /\ Len(queue[a.ch]) < Programs[prog].cap[a.ch]
       /\ queue' = [queue EXCEPT ![a.ch] = Append(@, a.val)]
    \/ /\ a.dir = "recv" /\ queue[a.ch] # <<>>
       /\ queue' = [queue EXCEPT ![a.ch] = Tail(@)]
    \/ /\ a.dir = "recv" /\ queue[a.ch] = <<>> /\ closed[a.ch]
       /\ UNCHANGED queue

Ends(t, how) == status' \in {[status EXCEPT ![t] = s] : s \in {how, "returned"}}

Perform(t) ==
    /\ status[t] = "pending"
    /\ \/ /\ call[t].op # "close"
          /\ \E i \in DOMAIN call[t].arms : Effect(call[t].arms[i])
          /\ UNCHANGED closed
       \/ /\ call[t].op = "close"
          /\ closed' = [closed EXCEPT ![call[t].arms[1].ch] = TRUE]
          /\ UNCHANGED queue
       \/ /\ call[t].op = "select" /\ call[t].dflt
          /\ UNCHANGED <<queue, closed>>
    /\ Ends(t, "performed")
    /\ UNCHANGED call

(* The error: a send arm's channel is closed.  Nothing is queued. *)
Refuse(t) ==
    /\ status[t] = "pending" /\ call[t].op # "close"
    /\ \E i \in DOMAIN call[t].arms :
          call[t].arms[i].dir = "send" /\ closed[call[t].arms[i].ch]
    /\ Ends(t, "refused")
    /\ UNCHANGED <<queue, closed, call>>

Return(t) ==
    /\ status[t] \in {"performed", "refused"}
    /\ status' = [status EXCEPT ![t] = "returned"]
    /\ UNCHANGED <<queue, closed, call>>

Next ==
    /\ \E t \in Tasks :
         Perform(t) \/ Refuse(t) \/ Return(t) \/ \E x \in Programs[prog].calls[t] : Begin(t, x)
    /\ UNCHANGED prog

Spec == Init /\ [][Next]_vars

=============================================================================
