------------------------------ MODULE Deadlines ------------------------------
(* When the reactor of runtime/sl_net.c wakes for a deadline: wake_at, the   *)
(* time its next sleep ends, which a waiter reads to decide whether to nudge *)
(* it, and the count of registrations that makes a scan notice a waiter it   *)
(* passed by.  No lock covers all of the wait lists.  In an epoll build an   *)
(* idle worker polls in the reactor's place; in a kqueue build none does.    *)
EXTENDS Naturals, FiniteSets, FiniteSetsExt

CONSTANTS
    Tasks,       \* each waits on a descriptor of its own, of a list of its own
    MaxSleep,    \* SL_REACTOR_MAX_SLEEP_NS
    MaxDeadline, \* the last deadline
    MaxReg       \* waits with a deadline, of all tasks together

VARIABLES
    now,         \* sl_now_ns
    wakeAt,      \* sl_reactor_wake_at
    regGen,      \* sl_reactor_reg_gen
    nudge,       \* the timer eventfd is readable
    active,      \* sl_poller_active
    worker,      \* workers poll in this build
    pc,          \* per task and per thread
    dl,          \* io_deadline_ns of each task in a wait
    waiting,     \* the tasks linked into their lists
    scan         \* per thread: the locals of sl_reactor_expire_due and of its caller

shared == <<wakeAt, regGen, nudge, active>>
vars == <<now, shared, worker, pc, dl, waiting, scan>>

Threads == {"reactor", "worker"}
MaxTime == MaxDeadline + MaxSleep   \* the clock's last reading
Never == MaxTime + MaxSleep + 1     \* LLONG_MAX

NoScan == [gen |-> 0, now |-> 0, next |-> 0, left |-> {}, expired |-> {}, until |-> 0,
           back |-> "out"]

Init ==
    /\ now = 0 /\ wakeAt = Never /\ regGen = 0 /\ nudge = FALSE /\ active = FALSE
    /\ worker \in BOOLEAN
    /\ pc = [x \in Tasks \cup Threads |-> "out"]
    /\ dl = [t \in Tasks |-> 0] /\ waiting = {}
    /\ scan = [x \in Threads |-> NoScan]

Goto(x, l) == pc' = [pc EXCEPT ![x] = l]

(* The lock of a list is held from the link to the park. *)
Unlocked(t) == t \in waiting => pc[t] = "parked"

Tick ==
    /\ now < MaxTime
    /\ now' = now + 1
    /\ UNCHANGED <<shared, worker, pc, dl, waiting, scan>>

-------------------------------------------------------------------------------
(* sl_reactor_wait_until with a deadline that has not passed. *)

Link(t) ==
    /\ pc[t] = "out" /\ regGen < MaxReg
    /\ waiting' = waiting \cup {t}
    /\ \E d \in (now + 1)..MaxDeadline : dl' = [dl EXCEPT ![t] = d]
    /\ Goto(t, "bump")
    /\ UNCHANGED <<now, shared, worker, scan>>

Bump(t) ==
    /\ pc[t] = "bump"
    /\ regGen' = regGen + 1
    /\ Goto(t, "lower")
    /\ UNCHANGED <<now, wakeAt, nudge, active, worker, dl, waiting, scan>>

(* Mutant: nobody tells the reactor. *)
LowerQuietly(t) ==
    /\ pc[t] = "lower"
    /\ wakeAt' = Min({wakeAt, dl[t]})
    /\ Goto(t, "parked")
    /\ UNCHANGED <<now, regGen, nudge, active, worker, dl, waiting, scan>>

(* The exchange that lowers wake_at; who lowered it nudges. *)
Lower(t) ==
    /\ pc[t] = "lower"
    /\ \/ wakeAt > dl[t] /\ wakeAt' = dl[t] /\ Goto(t, "nudge")
       \/ wakeAt <= dl[t] /\ UNCHANGED wakeAt /\ Goto(t, "parked")
    /\ UNCHANGED <<now, regGen, nudge, active, worker, dl, waiting, scan>>

(* The nudge, and the park, which unlocks the list. *)
Nudge(t) ==
    /\ pc[t] = "nudge"
    /\ nudge' = TRUE
    /\ Goto(t, "parked")
    /\ UNCHANGED <<now, wakeAt, regGen, active, worker, dl, waiting, scan>>

-------------------------------------------------------------------------------
(* sl_reactor_expire_due, by the reactor thread or a polling worker. *)

(* Not due yet: on to what the caller does next. *)
Due(x) ==
    /\ pc[x] = "due"
    /\ Goto(x, IF now < wakeAt THEN scan[x].back ELSE "count")
    /\ UNCHANGED <<now, shared, worker, dl, waiting, scan>>

Count(x) ==
    /\ pc[x] = "count"
    /\ scan' = [scan EXCEPT ![x].gen = regGen, ![x].now = now, ![x].next = now + MaxSleep,
                            ![x].left = Tasks]
    /\ Goto(x, "scan")
    /\ UNCHANGED <<now, shared, worker, dl, waiting>>

(* sl_reactor_expire_waiters, one list, under its lock. *)
Scan(x) ==
    /\ pc[x] = "scan"
    /\ \E t \in scan[x].left :
        LET W == waiting \cap {t}
            E == {u \in W : dl[u] <= scan[x].now}
        IN  /\ Unlocked(t)
            /\ waiting' = waiting \ E
            /\ scan' = [scan EXCEPT ![x].expired = @ \cup E,
                                    ![x].next = Min({@} \cup {dl[u] : u \in W \ E}),
                                    ![x].left = @ \ {t}]
            /\ Goto(x, IF scan[x].left = {t} THEN "publish" ELSE "scan")
    /\ UNCHANGED <<now, shared, worker, dl>>

Publish(x) ==
    /\ pc[x] = "publish"
    /\ wakeAt' = scan[x].next
    /\ Goto(x, "check")
    /\ UNCHANGED <<now, regGen, nudge, active, worker, dl, waiting, scan>>

Left(T) == [t \in Tasks |-> IF t \in T THEN 0 ELSE dl[t]]
Woken(T, p) == [y \in Tasks \cup Threads |-> IF y \in T THEN "out" ELSE p[y]]

(* Mutant: the count is not read again. *)
CheckNothing(x) ==
    /\ pc[x] = "check"
    /\ pc' = Woken(scan[x].expired, [pc EXCEPT ![x] = scan[x].back])
    /\ dl' = Left(scan[x].expired)
    /\ scan' = [scan EXCEPT ![x] = [NoScan EXCEPT !.back = scan[x].back]]
    /\ UNCHANGED <<now, shared, worker, waiting>>

(* Scan again if a waiter registered meanwhile; else resume the expired. *)
Check(x) ==
    /\ pc[x] = "check"
    /\ \/ regGen # scan[x].gen /\ Goto(x, "count") /\ UNCHANGED <<dl, scan>>
       \/ /\ regGen = scan[x].gen
          /\ pc' = Woken(scan[x].expired, [pc EXCEPT ![x] = scan[x].back])
          /\ dl' = Left(scan[x].expired)
          /\ scan' = [scan EXCEPT ![x] = [NoScan EXCEPT !.back = scan[x].back]]
    /\ UNCHANGED <<now, shared, worker, waiting>>

-------------------------------------------------------------------------------
(* sl_reactor_thread and sl_net_worker_poll. *)

(* The top of the reactor's loop; a worker that becomes the one poller. *)
Begin(x) ==
    /\ pc[x] = "out"
    /\ \/ x = "reactor" /\ UNCHANGED active /\ scan' = [scan EXCEPT ![x].back = "turn"]
       \/ /\ x = "worker" /\ worker /\ ~active
          /\ active' = TRUE
          /\ scan' = [scan EXCEPT ![x].back = "plan"]
    /\ Goto(x, "due")
    /\ UNCHANGED <<now, wakeAt, regGen, nudge, worker, dl, waiting>>

(* While a worker polls the reactor looks again after a tick. *)
Turn ==
    /\ pc["reactor"] = "turn"
    /\ Goto("reactor", IF active THEN "out" ELSE "plan")
    /\ UNCHANGED <<now, shared, worker, dl, waiting, scan>>

(* How long to sleep, from wake_at.  A worker that spins does not wait. *)
Plan(x) ==
    /\ pc[x] = "plan"
    /\ \E u \in {Min({Max({wakeAt, now}), now + MaxSleep})} \cup IF x = "worker" THEN {now} ELSE {} :
        scan' = [scan EXCEPT ![x].until = u]
    /\ Goto(x, "asleep")
    /\ UNCHANGED <<now, shared, worker, dl, waiting>>

(* epoll_wait returns: the time is up, the nudge or a descriptor is ready,   *)
(* or work was queued for the worker.  The tasks found ready are resumed.    *)
Harvest(x) ==
    /\ pc[x] = "asleep"
    /\ \E T \in SUBSET {t \in waiting : Unlocked(t)} :
        /\ now >= scan[x].until \/ nudge \/ T # {} \/ x = "worker"
        /\ waiting' = waiting \ T
        /\ dl' = Left(T)
        /\ pc' = Woken(T, [pc EXCEPT ![x] = IF x = "worker" THEN "due" ELSE "out"])
    /\ nudge' = FALSE
    /\ scan' = [scan EXCEPT ![x] = [NoScan EXCEPT !.back = "leave"]]
    /\ UNCHANGED <<now, wakeAt, regGen, active, worker>>

Leave ==
    /\ pc["worker"] = "leave"
    /\ active' = FALSE
    /\ Goto("worker", "out")
    /\ UNCHANGED <<now, wakeAt, regGen, nudge, worker, dl, waiting, scan>>

Next ==
    \/ Tick \/ Turn \/ Leave
    \/ \E t \in Tasks : Link(t) \/ Bump(t) \/ Lower(t) \/ Nudge(t)
    \/ \E x \in Threads : \/ Begin(x) \/ Plan(x) \/ Harvest(x)
                           \/ Due(x) \/ Count(x) \/ Scan(x) \/ Publish(x) \/ Check(x)

Spec == Init /\ [][Next]_vars

-------------------------------------------------------------------------------
Scanning(x) == pc[x] \in {"count", "scan", "publish", "check"}
Parked(t) == pc[t] = "parked" /\ t \in waiting

(* sl_reactor_wait_until: wake_at is a lower bound on the deadline of every  *)
(* parked waiter, unless a scan that will be repeated, or has not published, *)
(* is under way.                                                             *)
WakeAtIsBound ==
    \A t \in Tasks : Parked(t) => wakeAt <= dl[t] \/ \E x \in Threads : Scanning(x)

(* The comment on sl_reactor_wake_at: a waiter sees a time later than its    *)
(* deadline and nudges, "or the reactor wakes first and its next scan        *)
(* includes the waiter".  So when nobody else polls, the reactor never       *)
(* sleeps past the deadline of a parked waiter with no nudge on its way.     *)
NoOversleep ==
    \A t \in Tasks : Parked(t) /\ pc["reactor"] = "asleep" /\ pc["worker"] = "out"
                        => \/ nudge \/ \E u \in Tasks : pc[u] = "nudge"
                           \/ scan["reactor"].until <= Max({dl[t], now})

(* The same for the builds in which only the reactor thread polls. *)
ReactorIsInTime == ~worker => NoOversleep
===============================================================================
