------------------------------- MODULE Reactor -------------------------------
(* The network reactor of runtime/sl_net.c (epoll): tasks that wait for a    *)
(* descriptor, the one-shot registration of each descriptor, the reactor     *)
(* thread and an idle worker that both harvest events, deadlines, shutdown,  *)
(* the kick of a pulled trip, and closes of a descriptor in use.             *)
(*                                                                           *)
(* A wait list's lock makes each critical section one step.  The clock is    *)
(* abstracted to "this call's deadline has passed"; when the reactor wakes   *)
(* for it is module Deadlines'.                                              *)
EXTENDS Naturals, FiniteSets

CONSTANTS
    Tasks,
    Fds,
    None,
    Pollers,     \* the reactor thread, and a worker that polls in its place
    Kinds,       \* which of the calls below the tasks make
    MaxTrouble,  \* shutdowns, kicks and closes of a behaviour
    Gens         \* SL_REACTOR_GEN_MASK + 1: generations wrap

VARIABLES
    open,        \* the descriptor numbers in use
    ready,       \* what the kernel would report of each now
    slot,        \* sl_reactor_slot: the task that waits and its wait's generation
    reg,         \* the armed directions of the registration and their generations
    waiting,     \* tasks linked into a wait list (on_wq)
    batch,       \* events an actor has harvested and not handled
    todo,        \* wait lists an actor still has to empty (take_all)
    found,       \* tasks an actor has unlinked and not resumed
    closing,     \* the descriptor whose waiters are taken and which is not closed yet
    st, call,    \* where each task is, and its call
    late,        \* the call's deadline has passed
    told,        \* wait_closed
    gone,        \* the call's descriptor has been closed under it
    down,        \* sl_rt_shutdown_flag
    nudge,       \* the eventfd that announces it
    trouble      \* how many of shutdown, kicks and closes are left

fdv == <<open, ready>>
act == <<batch, todo, found, closing>>
tsk == <<st, call, late, told, gone>>
vars == <<fdv, slot, reg, waiting, act, tsk, down, nudge, trouble>>

Dirs == {"r", "w"}
Actors == Pollers \cup {"kick", "close"}
Token == [fd |-> None, dirs |-> {}, gen |-> [d \in Dirs |-> 0]]
Off == [dirs |-> {}, gen |-> [d \in Dirs |-> 0]]

Dir(k) == IF k = "recv" THEN "r" ELSE "w"

(* accept, recv and dial give up when the process shuts down. *)
Aborts(k) == k \in {"recv", "dial"}

Init ==
    /\ open = {}
    /\ ready = [f \in Fds |-> {}]
    /\ slot = [f \in Fds |-> [d \in Dirs |-> [task |-> None, gen |-> 0]]]
    /\ reg = [f \in Fds |-> Off]
    /\ waiting = {}
    /\ batch = [a \in Actors |-> {}] /\ todo = [a \in Actors |-> {}]
    /\ found = [a \in Actors |-> {}] /\ closing = None
    /\ st = [t \in Tasks |-> "out"] /\ call = [t \in Tasks |-> None]
    /\ late = {} /\ told = {} /\ gone = {}
    /\ down = FALSE /\ nudge = "none"
    /\ trouble = MaxTrouble

InCall(t) == st[t] # "out"
On(t, f, d) == InCall(t) /\ call[t].fd = f /\ Dir(call[t].kind) = d
Hung(f) == "hup" \in ready[f]

-------------------------------------------------------------------------------
(* The registration. *)

(* Mutant: the registration names one direction only. *)
ArmedForOne(f, s, r) ==
    LET D == {d \in Dirs : s[f][d].task # None}
    IN  IF D = {} THEN r
        ELSE [r EXCEPT ![f] = [dirs |-> IF "r" \in D THEN {"r"} ELSE D,
                               gen  |-> [d \in Dirs |-> s[f][d].gen]]]

(* sl_reactor_arm: fd's one registration, for every direction with a waiter. *)
Armed(f, s, r) ==
    LET D == {d \in Dirs : s[f][d].task # None}
    IN  IF D = {} THEN r
        ELSE [r EXCEPT ![f] = [dirs |-> D,
                               gen  |-> [d \in Dirs |-> IF d \in D THEN s[f][d].gen ELSE 0]]]

(* What one event unlinks: the task in the slot of each direction that       *)
(* fired, if the wait is still the one that was armed.                       *)
Taken(e, s) == {d \in e.dirs : /\ s[e.fd][d].task # None
                               /\ s[e.fd][d].gen = e.gen[d]}

Emptied(f, D, s) == [s EXCEPT ![f] = [d \in Dirs |-> IF d \in D THEN [@[d] EXCEPT !.task = None]
                                                              ELSE @[d]]]

WaitersOf(f, s) == {s[f][d].task : d \in Dirs} \ {None}

-------------------------------------------------------------------------------
(* The kernel and the peers. *)

Readable(f) ==
    /\ f \in open /\ ~Hung(f)
    /\ \/ \E d \in Dirs \ ready[f] : ready' = [ready EXCEPT ![f] = @ \cup {d}]
       \/ ready' = [ready EXCEPT ![f] = {"hup"}]
    /\ UNCHANGED <<open, slot, reg, waiting, act, tsk, down, nudge, trouble>>

(* accept: a free number is a new connection's. *)
Open(f) ==
    /\ f \notin open
    /\ open' = open \cup {f}
    /\ ready' = [ready EXCEPT ![f] = {}]
    /\ UNCHANGED <<slot, reg, waiting, act, tsk, down, nudge, trouble>>

(* The clock passes the deadline of t's call.  A call for which it never     *)
(* does stands for one without a deadline too.  The time is read when a wait *)
(* begins and when it ends.                                                  *)
Pass(t) ==
    /\ st[t] \in {"wait", "parked", "woken"} /\ t \notin late
    /\ late' = late \cup {t}
    /\ UNCHANGED <<fdv, slot, reg, waiting, act, st, call, told, gone, down, nudge, trouble>>

-------------------------------------------------------------------------------
(* The calls of a task. *)

(* A dial's number is its own until it returns. *)
Dialled(f) == \E t \in Tasks : InCall(t) /\ call[t].kind = "dial" /\ call[t].fd = f

(* A call on an open descriptor, or a dial, which opens one.  One task at a  *)
(* time uses a direction of a descriptor, as the comment on                  *)
(* sl_reactor_wait_until asks of callers.                                    *)
Call(t) ==
    /\ ~InCall(t)
    /\ \E f \in Fds, k \in Kinds :
        /\ \/ /\ k = "dial" /\ f \notin open
              /\ open' = open \cup {f} /\ ready' = [ready EXCEPT ![f] = {}]
           \/ /\ k # "dial" /\ f \in open \ {closing} /\ ~Dialled(f)
              /\ \A u \in Tasks : ~On(u, f, Dir(k))
              /\ UNCHANGED fdv
        /\ call' = [call EXCEPT ![t] = [kind |-> k, fd |-> f]]
    /\ st' = [st EXCEPT ![t] = "try"]
    /\ UNCHANGED <<slot, reg, waiting, act, late, told, gone, down, nudge, trouble>>

Ends(t) ==
    /\ st' = [st EXCEPT ![t] = "out"]
    /\ call' = [call EXCEPT ![t] = None]
    /\ late' = late \ {t} /\ gone' = gone \ {t}

Retries(t) ==
    /\ st' = [st EXCEPT ![t] = "try"]
    /\ UNCHANGED <<call, late, gone>>

(* The non-blocking system call: it succeeds, makes some progress, or would  *)
(* block.  A dial's connect(2) is issued once, before its only wait; if it   *)
(* fails at once the dial closes the descriptor.                             *)
Try(t) ==
    /\ st[t] = "try"
    /\ LET k == call[t].kind
           f == call[t].fd
           d == Dir(k)
       IN  \/ /\ d \in ready[f] \/ Hung(f)
              /\ Ends(t)
              /\ ready' = IF k = "dial" THEN ready ELSE [ready EXCEPT ![f] = @ \ {d}]
              /\ open' = IF k = "dial" /\ Hung(f) THEN open \ {f} ELSE open
           \/ /\ d \in ready[f] /\ ~Hung(f) /\ k = "send"
              /\ ready' = [ready EXCEPT ![f] = @ \ {d}]
              /\ Retries(t) /\ UNCHANGED open
           \/ /\ d \notin ready[f] /\ ~Hung(f)
              /\ st' = [st EXCEPT ![t] = "wait"]
              /\ UNCHANGED <<fdv, call, late, gone>>
    /\ UNCHANGED <<slot, reg, waiting, act, told, down, nudge, trouble>>

(* What each call does with the answer of a wait: it tries again, or it ends *)
(* and a dial that failed closes the descriptor it made.                     *)
Answer(t, w) ==
    LET k == call[t].kind
        f == call[t].fd
    IN  IF \/ w = "ok" /\ k # "dial"
           \/ w = "down" /\ k = "send"
        THEN Retries(t) /\ UNCHANGED <<open, reg>>
        ELSE /\ Ends(t)
             /\ IF k = "dial" /\ (w # "ok" \/ Hung(f))
                THEN open' = open \ {f} /\ reg' = [reg EXCEPT ![f] = Off]
                ELSE UNCHANGED <<open, reg>>

(* Mutant: the flag is only looked at after the park. *)
ParksAnyway(k) == FALSE

(* A wait that starts once the flag is up does not park. *)
GivesUp(k) == Aborts(k) /\ down

(* sl_reactor_wait_until up to the park, under the list's lock. *)
Wait(t) ==
    /\ st[t] = "wait"
    /\ LET f == call[t].fd
           d == Dir(call[t].kind)
           s == [slot EXCEPT ![f][d] = [task |-> t, gen |-> (@.gen + 1) % Gens]]
       IN  \/ /\ t \in late
              /\ Answer(t, "late")
              /\ UNCHANGED <<slot, waiting, told>>
           \/ /\ t \notin late /\ GivesUp(call[t].kind)
              /\ Answer(t, "down")
              /\ UNCHANGED <<slot, waiting, told>>
           \/ /\ t \notin late /\ ~GivesUp(call[t].kind)
              /\ slot' = s /\ reg' = Armed(f, s, reg)
              /\ waiting' = waiting \cup {t}
              /\ told' = told \ {t}
              /\ st' = [st EXCEPT ![t] = "parked"]
              /\ UNCHANGED <<open, call, late, gone>>
    /\ UNCHANGED <<ready, act, down, nudge, trouble>>

(* The rest of sl_reactor_wait_until, once the task runs again. *)
Woken(t) ==
    /\ st[t] = "woken"
    /\ Answer(t, IF t \in told THEN "closed" ELSE IF down THEN "down"
                 ELSE IF t \in late THEN "late" ELSE "ok")
    /\ told' = told \ {t}
    /\ UNCHANGED <<ready, slot, waiting, act, down, nudge, trouble>>

-------------------------------------------------------------------------------
(* The pollers: the reactor thread, and an idle worker in its place. *)

Fires(f) == reg[f].dirs # {} /\ (ready[f] \cap reg[f].dirs # {} \/ Hung(f))

(* A hang-up or an error is reported for both directions, armed or not. *)
EventOf(f) ==
    LET D == IF Hung(f) THEN Dirs ELSE ready[f] \cap reg[f].dirs
    IN  [fd |-> f, dirs |-> D, gen |-> [d \in Dirs |-> IF d \in D THEN reg[f].gen[d] ELSE 0]]

Free(a) == batch[a] = {} /\ todo[a] = {} /\ found[a] = {}

(* epoll_wait: one-shot registrations that fire are disarmed. *)
Harvest(a) ==
    /\ Free(a)
    /\ \E F \in SUBSET {f \in Fds : Fires(f)} :
        LET E == {EventOf(f) : f \in F} \cup (IF nudge = "up" THEN {Token} ELSE {})
        IN  /\ E # {}
            /\ batch' = [batch EXCEPT ![a] = E]
            /\ reg' = [f \in Fds |-> IF f \in F THEN Off ELSE reg[f]]
    /\ UNCHANGED <<fdv, slot, waiting, todo, found, closing, tsk, down, nudge, trouble>>

(* sl_reactor_take_events, one event, under the list's lock. *)
Handle(a) ==
    \E e \in batch[a] :
        /\ e # Token /\ todo[a] = {}
        /\ LET D == Taken(e, slot)
               T == {slot[e.fd][d].task : d \in D} \cap waiting
               s == Emptied(e.fd, D, slot)
           IN  /\ slot' = s
               /\ waiting' = waiting \ T
               /\ found' = [found EXCEPT ![a] = @ \cup T]
               /\ reg' = IF e.fd \in open THEN Armed(e.fd, s, reg) ELSE reg
        /\ batch' = [batch EXCEPT ![a] = @ \ {e}]
        /\ UNCHANGED <<fdv, todo, closing, tsk, down, nudge, trouble>>

(* The shutdown event: drain the eventfd, then every list in turn. *)
HandleDown(a) ==
    /\ Token \in batch[a] /\ todo[a] = {}
    /\ batch' = [batch EXCEPT ![a] = @ \ {Token}]
    /\ todo' = [todo EXCEPT ![a] = Fds]
    /\ nudge' = "drained"
    /\ UNCHANGED <<fdv, slot, reg, waiting, found, closing, tsk, down, trouble>>

(* sl_reactor_take_all, one list. *)
TakeList(a) ==
    \E f \in todo[a] :
        /\ waiting' = waiting \ WaitersOf(f, slot)
        /\ found' = [found EXCEPT ![a] = @ \cup (WaitersOf(f, slot) \cap waiting)]
        /\ slot' = Emptied(f, Dirs, slot)
        /\ todo' = [todo EXCEPT ![a] = @ \ {f}]
        /\ UNCHANGED <<fdv, reg, batch, closing, tsk, down, nudge, trouble>>

(* Mutant: the expired waiter stays linked. *)
ExpireKeepsLink(a) ==
    /\ Free(a)
    /\ \E f \in Fds, d \in Dirs :
        /\ slot[f][d].task # None /\ slot[f][d].task \in late
        /\ found' = [found EXCEPT ![a] = @ \cup {slot[f][d].task}]
    /\ UNCHANGED <<fdv, slot, reg, waiting, batch, todo, closing, tsk, down, nudge, trouble>>

(* sl_reactor_expire_waiters, one list. *)
Expire(a) ==
    /\ Free(a)
    /\ \E f \in Fds :
        LET D == {d \in Dirs : /\ slot[f][d].task # None
                               /\ slot[f][d].task \in late}
            T == {slot[f][d].task : d \in D}
        IN  /\ D # {}
            /\ slot' = Emptied(f, D, slot)
            /\ waiting' = waiting \ T
            /\ found' = [found EXCEPT ![a] = @ \cup T]
    /\ UNCHANGED <<fdv, reg, batch, todo, closing, tsk, down, nudge, trouble>>

(* sl_reactor_resume_all. *)
Resume(a) ==
    /\ batch[a] = {} /\ todo[a] = {} /\ found[a] # {}
    /\ a = "close" => closing = None
    /\ found' = [found EXCEPT ![a] = {}]
    /\ st' = [t \in Tasks |-> IF t \in found[a] THEN "woken" ELSE st[t]]
    /\ UNCHANGED <<fdv, slot, reg, waiting, batch, todo, closing, call, late, told, gone, down, nudge, trouble>>

-------------------------------------------------------------------------------
(* Shutdown, kick and close. *)

Strikes == trouble > 0 /\ trouble' = trouble - 1

(* sl_sig_thread: the flag, then sl_net_shutdown_nudge. *)
Shutdown ==
    /\ \/ ~down /\ down' = TRUE /\ UNCHANGED nudge /\ Strikes
       \/ down /\ nudge = "none" /\ nudge' = "up" /\ UNCHANGED <<down, trouble>>
    /\ UNCHANGED <<fdv, slot, reg, waiting, act, tsk>>

(* sl_trip_pull: sl_reactor_kick empties every list. *)
Kick ==
    /\ Strikes
    /\ Free("kick")
    /\ todo' = [todo EXCEPT !["kick"] = Fds]
    /\ UNCHANGED <<fdv, slot, reg, waiting, batch, found, closing, tsk, down, nudge>>

(* Mutant: the waiters are not marked closed. *)
CloseUntold ==
    /\ Strikes
    /\ closing = None /\ Free("close")
    /\ \E f \in open :
        /\ ~Dialled(f)
        /\ \A t \in Tasks : InCall(t) /\ call[t].fd = f => t \in waiting
        /\ slot' = Emptied(f, Dirs, slot)
        /\ waiting' = waiting \ WaitersOf(f, slot)
        /\ found' = [found EXCEPT !["close"] = WaitersOf(f, slot)]
        /\ closing' = f
    /\ UNCHANGED <<fdv, reg, batch, todo, tsk, down, nudge>>

(* sl_net_close: sl_reactor_take_closed.  The comment above it leaves it to  *)
(* the caller that no task is between its system call and its park.          *)
Close ==
    /\ Strikes
    /\ closing = None /\ Free("close")
    /\ \E f \in open :
        /\ ~Dialled(f)
        /\ \A t \in Tasks : InCall(t) /\ call[t].fd = f => t \in waiting
        /\ slot' = Emptied(f, Dirs, slot)
        /\ waiting' = waiting \ WaitersOf(f, slot)
        /\ told' = told \cup WaitersOf(f, slot)
        /\ found' = [found EXCEPT !["close"] = WaitersOf(f, slot)]
        /\ closing' = f
    /\ UNCHANGED <<fdv, reg, batch, todo, st, call, late, gone, down, nudge>>

(* close(2): the number is free and its registration is gone. *)
CloseFd ==
    /\ closing # None
    /\ open' = open \ {closing}
    /\ reg' = [reg EXCEPT ![closing] = Off]
    /\ gone' = gone \cup {t \in Tasks : InCall(t) /\ call[t].fd = closing}
    /\ closing' = None
    /\ UNCHANGED <<ready, slot, waiting, batch, todo, found, st, call, late, told, down, nudge, trouble>>

-------------------------------------------------------------------------------
Next ==
    \/ \E f \in Fds : Readable(f) \/ Open(f)
    \/ \E t \in Tasks : Call(t) \/ Pass(t) \/ Try(t) \/ Wait(t) \/ Woken(t)
    \/ \E a \in Pollers : Harvest(a) \/ Handle(a) \/ HandleDown(a) \/ Expire(a)
    \/ \E a \in Actors : TakeList(a) \/ Resume(a)
    \/ Shutdown \/ Kick \/ Close \/ CloseFd

Spec == Init /\ [][Next]_vars

-------------------------------------------------------------------------------
(* A parked task is linked into one wait list, or is in the hands of exactly *)
(* one actor that will resume it; a task that runs is in neither place.  Two *)
(* pollers, a deadline, a kick and a close compete for the same waiter.      *)
OnePlace ==
    \A t \in Tasks :
        LET holders == {a \in Actors : t \in found[a]}
        IN  IF st[t] = "parked"
            THEN Cardinality(holders) = IF t \in waiting THEN 0 ELSE 1
            ELSE t \notin waiting /\ holders = {}

(* A task on a wait list would be told: its direction is armed with the      *)
(* generation of its own wait, or an event of its descriptor has been        *)
(* harvested and whoever handles it arms the registration again.  One        *)
(* direction's wait, event or close never leaves the other disarmed.         *)
WaiterIsArmed ==
    \A t \in waiting :
        LET f == call[t].fd
            d == Dir(call[t].kind)
        IN  /\ slot[f][d].task = t
            /\ \/ d \in reg[f].dirs /\ reg[f].gen[d] = slot[f][d].gen
               \/ \E a \in Pollers : \E e \in batch[a] : e.fd = f

(* A task never issues a system call on a number that was closed while it    *)
(* waited and may be another connection's by now.                            *)
NoForeignTouch ==
    \A t \in Tasks : st[t] \in {"try", "wait"} => t \notin gone

(* Once the shutdown's one nudge has been consumed, no accept, recv or dial  *)
(* is parked on a list that nobody is still emptying: a wait that starts     *)
(* around it sees the flag, or is seen.                                      *)
ShutdownFindsWaiters ==
    nudge = "drained" =>
        \A t \in waiting : Aborts(call[t].kind) =>
            \E a \in Pollers : call[t].fd \in todo[a]

(* sl_net_connect_addr: a dial that returns its descriptor has connected.    *)
DialMeansConnected ==
    [][\A t \in Tasks :
        st[t] = "woken" /\ st'[t] = "out" /\ call[t].kind = "dial" /\ call[t].fd \in open'
            => "w" \in ready[call[t].fd]]_vars
===============================================================================
