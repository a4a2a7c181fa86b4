------------------------------- MODULE RunQueue -------------------------------
(***************************************************************************)
(* The run queues of the worker pool (runtime/sl_pool.c) and the worker's   *)
(* turn at the network poll (runtime/sl_net.c).  Runnable tasks wait on     *)
(* hashed stripes or in a worker's runnext slot.  A worker without work     *)
(* spins, then polls the network, then sleeps on the doorbell; a push wakes *)
(* a sleeper only when nobody spins and somebody sleeps, and breaks a       *)
(* blocked poll.  A step is one locked section or one atomic access, in the *)
(* order of the fences; pc[x] is what thread x has still to do, head first. *)
(* A visit of one stripe or slot is a step; the order of the visits, which  *)
(* rotates in the code, is left open.                                       *)
(***************************************************************************)
EXTENDS Integers, Sequences, SequencesExt, FiniteSets

CONSTANTS Workers,      \* threads in sl_worker_run_loop, main's included
          Outside,      \* threads without a runnext slot (reactor, timer)
          Tasks, None,
          Stripes,
          StripeOf,     \* sl_runq_stripe_for
          SpinCap       \* max(1, nworkers / 2)

Threads == Workers \cup Outside

ASSUME RunQueueAssumption ==
    /\ Workers \cap Outside = {} /\ None \notin Tasks \cup Threads
    /\ StripeOf \in [Tasks -> Stripes]
    /\ SpinCap \in Nat \ {0}

VARIABLES netpoll,      \* sl_rt_netpoll_hook is set (epoll); never changes
          stripes,      \* sl_runq_stripes
          runnext,      \* sl_runnext
          count,        \* sl_global_runq_count
          sleepers, spinners,
          mu,           \* holder of the doorbell's mutex
          poller,       \* sl_poller_active, and who
          pollSleeping, breakSent,
          breakReady,   \* sl_poll_break_efd is readable
          off,          \* tasks parked on something, or not born
          pc,
          hand,         \* hand[x]: the task thread x is making runnable
          cur,          \* cur[w]: the task w has taken
          scan,         \* stripes or slots left to visit
          spun

queues == <<stripes, runnext, count>>
bell == <<sleepers, spinners, mu>>
poll == <<poller, pollSleeping, breakSent, breakReady>>
local == <<pc, hand, cur, scan, spun>>
vars == <<netpoll, queues, bell, poll, off, local>>

At(x, l) == Head(pc[x]) = l
Goto(x, ls) == pc' = [pc EXCEPT ![x] = ls \o Tail(@)]     \* next do ls
Return(x) == Goto(x, <<>>)
Set(f, x, v) == [f EXCEPT ![x] = v]

Init ==
    /\ netpoll \in BOOLEAN
    /\ stripes = [s \in Stripes |-> <<>>]
    /\ runnext = [w \in Workers |-> None]
    /\ count = 0 /\ sleepers = 0 /\ spinners = 0 /\ mu = None
    /\ poller = None /\ pollSleeping = FALSE
    /\ breakSent = FALSE /\ breakReady = FALSE
    /\ off = Tasks
    /\ pc = [x \in Threads |-> IF x \in Workers THEN <<"top">> ELSE <<"free">>]
    /\ hand = [x \in Threads |-> None]
    /\ cur = [w \in Workers |-> None]
    /\ scan = [w \in Workers |-> {}]
    /\ spun = [w \in Workers |-> FALSE]

-------------------------------------------------------------------------------
(* Making a task runnable.                                                  *)

Wake == IF netpoll THEN <<"spinners", "break">> ELSE <<"spinners">>

(* sl_runq_stripe_push: append and count under the stripe's lock, then wake. *)
StripePush(x) ==
    /\ At(x, "push")
    /\ stripes' = [stripes EXCEPT ![StripeOf[hand[x]]] = Append(@, hand[x])]
    /\ count' = count + 1
    /\ hand' = Set(hand, x, None)
    /\ Goto(x, Wake)
    /\ UNCHANGED <<netpoll, runnext, bell, poll, off, cur, scan, spun>>

Counting(x) == IF At(x, "ready") THEN <<"count">> ELSE <<"countlocal">>

(* Mutant: the displaced task is counted again with the slot. *)
ReadyToCountsTwice(x) ==
    /\ At(x, "ready") \/ At(x, "readylocal")
    /\ runnext' = Set(runnext, x, hand[x])
    /\ hand' = Set(hand, x, runnext[x])
    /\ Goto(x, IF runnext[x] # None THEN <<"push">> \o Counting(x) ELSE Counting(x))
    /\ UNCHANGED <<netpoll, stripes, count, bell, poll, off, cur, scan, spun>>

(* Mutant: a task already in the slot is overwritten. *)
ReadyToOverwrites(x) ==
    /\ At(x, "ready") \/ At(x, "readylocal")
    /\ runnext' = Set(runnext, x, hand[x])
    /\ hand' = Set(hand, x, None)
    /\ Goto(x, IF runnext[x] # None THEN <<>> ELSE Counting(x))
    /\ UNCHANGED <<netpoll, stripes, count, bell, poll, off, cur, scan, spun>>

(* sl_runq_ready_to on a thread with a slot: exchange; what was in the slot *)
(* goes to its stripe.  A resume_local wakes nobody: its task ends next.    *)
ReadyTo(x) ==
    /\ At(x, "ready") \/ At(x, "readylocal")
    /\ runnext' = Set(runnext, x, hand[x])
    /\ hand' = Set(hand, x, runnext[x])
    /\ Goto(x, IF runnext[x] # None THEN <<"push">> ELSE Counting(x))
    /\ UNCHANGED <<netpoll, stripes, count, bell, poll, off, cur, scan, spun>>

ReadyCount(x) ==
    /\ \/ /\ At(x, "count")
          /\ Goto(x, IF netpoll THEN <<"sleepers", "break">> ELSE <<"sleepers">>)
       \/ At(x, "countlocal") /\ Return(x)
    /\ count' = count + 1
    /\ UNCHANGED <<netpoll, stripes, runnext, bell, poll, off, hand, cur, scan, spun>>

(* sl_runq_wake_one, one load at a time; ready_to enters at the second. *)
ReadSpinners(x) ==
    /\ At(x, "spinners")
    /\ Goto(x, IF spinners > 0 THEN <<>> ELSE <<"sleepers">>)
    /\ UNCHANGED <<netpoll, queues, bell, poll, off, hand, cur, scan, spun>>

ReadSleepers(x) ==
    /\ At(x, "sleepers")
    /\ Goto(x, IF sleepers > 0 THEN <<"signal">> ELSE <<>>)
    /\ UNCHANGED <<netpoll, queues, bell, poll, off, hand, cur, scan, spun>>

(* Lock the doorbell, pthread_cond_signal, unlock. *)
Signal(x) ==
    /\ At(x, "signal") /\ mu = None
    /\ LET asleep == {w \in Workers : At(w, "asleep")} IN
       IF asleep = {} THEN Return(x)
       ELSE \E w \in asleep :
              pc' = [pc EXCEPT ![x] = Tail(@), ![w] = <<"woken">>]
    /\ UNCHANGED <<netpoll, queues, bell, poll, off, hand, cur, scan, spun>>

(* sl_net_poll_break: look at the flag, claim the break, write the eventfd. *)
PollBreak(x) ==
    /\ \/ /\ At(x, "break")
          /\ Goto(x, IF pollSleeping THEN <<"claim">> ELSE <<>>)
          /\ UNCHANGED <<breakSent, breakReady>>
       \/ /\ At(x, "claim")
          /\ breakSent' = TRUE
          /\ Goto(x, IF breakSent THEN <<>> ELSE <<"nudge">>)
          /\ UNCHANGED breakReady
       \/ /\ At(x, "nudge")
          /\ breakReady' = TRUE
          /\ Return(x)
          /\ UNCHANGED breakSent
    /\ UNCHANGED <<netpoll, queues, bell, poller, pollSleeping, off, hand, cur, scan, spun>>

-------------------------------------------------------------------------------
(* The running task, and the threads outside the pool.                      *)

(* The task w runs makes t runnable (a submit or a resume), also while it   *)
(* ends ("stop").                                                           *)
Ready(w, t) ==
    /\ At(w, "run") \/ At(w, "stop")
    /\ t \in off
    /\ off' = off \ {t}
    /\ hand' = Set(hand, w, t)
    /\ pc' = [pc EXCEPT ![w] = <<"ready">> \o @]
    /\ UNCHANGED <<netpoll, queues, bell, poll, cur, scan, spun>>

(* sl_task_resume_local: the running task ends, and wakes its joiner on the *)
(* way, for this worker to take next.                                       *)
ReadyLocal(w, t) ==
    /\ At(w, "run") /\ t \in off
    /\ off' = off \ {t}
    /\ hand' = Set(hand, w, t)
    /\ pc' = Set(pc, w, <<"readylocal", "stop">>)
    /\ UNCHANGED <<netpoll, queues, bell, poll, cur, scan, spun>>

(* The running task parks or ends. *)
Stop(w) ==
    /\ At(w, "run") \/ At(w, "stop")
    /\ off' = off \cup {cur[w]}
    /\ cur' = Set(cur, w, None)
    /\ pc' = Set(pc, w, <<"top">>)
    /\ UNCHANGED <<netpoll, queues, bell, poll, hand, scan, spun>>

(* sl_rt_preempt_if_due, sl_task_yield_now and the preempted branch of      *)
(* sl_worker_after_switch: pushed only once it is switched out.             *)
Yield(w) ==
    /\ At(w, "run") \/ At(w, "stop")
    /\ count # 0
    /\ hand' = Set(hand, w, cur[w])
    /\ cur' = Set(cur, w, None)
    /\ pc' = Set(pc, w, <<"push", "top">>)
    /\ UNCHANGED <<netpoll, queues, bell, poll, off, scan, spun>>

(* A resume from a thread that has no slot. *)
OutsideReady(x, t) ==
    /\ At(x, "free") /\ t \in off
    /\ off' = off \ {t}
    /\ hand' = Set(hand, x, t)
    /\ Goto(x, <<"push", "free">>)
    /\ UNCHANGED <<netpoll, queues, bell, poll, cur, scan, spun>>

-------------------------------------------------------------------------------
(* A worker looking for work.                                               *)

(* sl_runnext_take at the top of the run loop.  When the chain has had its  *)
(* quantum the task goes to the stripes.                                    *)
Top(w) ==
    /\ At(w, "top")
    /\ spun' = Set(spun, w, FALSE)
    /\ scan' = Set(scan, w, Stripes)
    /\ runnext' = Set(runnext, w, None)
    /\ IF runnext[w] = None
       THEN Goto(w, <<"trypop">>) /\ UNCHANGED <<count, hand, cur>>
       ELSE /\ count' = count - 1
            /\ \/ /\ cur' = Set(cur, w, runnext[w])
                  /\ Goto(w, <<"run">>)
                  /\ UNCHANGED hand
               \/ /\ hand' = Set(hand, w, runnext[w])
                  /\ Goto(w, <<"push", "trypop">>)
                  /\ UNCHANGED cur
    /\ UNCHANGED <<netpoll, stripes, bell, poll, off>>

(* One stripe visited: its head taken, or the stripe found empty. *)
TakeFrom(w, s) ==
    /\ stripes[s] # <<>>
    /\ stripes' = [stripes EXCEPT ![s] = Tail(@)]
    /\ count' = count - 1
    /\ cur' = Set(cur, w, Head(stripes[s]))
    /\ UNCHANGED <<runnext, scan>>

Pass(w, s) == scan' = Set(scan, w, scan[w] \ {s}) /\ UNCHANGED <<queues, cur>>

(* sl_runq_stripe_try_pop, in the run loop and in the spin: a stripe whose  *)
(* lock is taken is passed over.                                            *)
TryPop(w) ==
    /\ \/ /\ At(w, "trypop")
          /\ \/ \E s \in scan[w] : TakeFrom(w, s) /\ Goto(w, <<"run">>)
             \/ \E s \in scan[w] : Pass(w, s) /\ UNCHANGED pc
             \/ scan[w] = {} /\ Goto(w, <<"lock">>) /\ UNCHANGED <<queues, cur, scan>>
       \/ /\ At(w, "spinpop")
          /\ \/ \E s \in scan[w] : TakeFrom(w, s) /\ Goto(w, <<"unspin">>)
             \/ \E s \in scan[w] : Pass(w, s) /\ UNCHANGED pc
             \/ scan[w] = {} /\ Goto(w, <<"spin">>) /\ UNCHANGED <<queues, cur, scan>>
    /\ UNCHANGED <<netpoll, bell, poll, off, hand, spun>>

(* The doorbell's mutex, at the top of sl_runq_pop_blocking's loop and      *)
(* after a poll that another worker was already doing ("relock").           *)
Lock(w) ==
    /\ mu = None /\ mu' = w
    /\ \/ At(w, "lock") /\ Goto(w, <<"pop">>)
       \/ At(w, "relock") /\ Goto(w, <<"announce">>)
    /\ scan' = Set(scan, w, Stripes)
    /\ UNCHANGED <<netpoll, queues, sleepers, spinners, poll, off, hand, cur, spun>>

(* sl_runq_stripe_pop_locked and what follows it.  Found: unlock, hand on.  *)
(* Not found: unlock and spin, once; then steal and poll, or sleep.         *)
PopLocked(w) ==
    /\ At(w, "pop")
    /\ \/ /\ \E s \in scan[w] : TakeFrom(w, s)
          /\ mu' = None /\ Goto(w, <<"took", "run">>)
          /\ UNCHANGED spun
       \/ /\ \E s \in scan[w] : stripes[s] = <<>> /\ Pass(w, s)
          /\ UNCHANGED <<mu, pc, spun>>
       \/ /\ scan[w] = {} /\ ~spun[w]
          /\ mu' = None /\ spun' = Set(spun, w, TRUE)
          /\ Goto(w, <<"spinup">>)
          /\ UNCHANGED <<queues, cur, scan>>
       \/ /\ scan[w] = {} /\ spun[w]
          /\ scan' = Set(scan, w, Workers)
          /\ Goto(w, IF netpoll THEN <<"steal">> ELSE <<"announce">>)
          /\ UNCHANGED <<queues, mu, cur, spun>>
    /\ UNCHANGED <<netpoll, sleepers, spinners, poll, off, hand>>

(* sl_runq_took: more is queued, so wake another. *)
Took(w) ==
    /\ At(w, "took")
    /\ Goto(w, IF count > 0 THEN <<"spinners">> ELSE <<>>)
    /\ UNCHANGED <<netpoll, queues, bell, poll, off, hand, cur, scan, spun>>

(* sl_runq_spin: counted, and at once uncounted when enough spin already. *)
SpinUp(w) ==
    /\ At(w, "spinup")
    /\ spinners' = spinners + 1
    /\ Goto(w, IF spinners >= SpinCap THEN <<"unspin">> ELSE <<"spin">>)
    /\ UNCHANGED <<netpoll, queues, sleepers, mu, poll, off, hand, cur, scan, spun>>

(* A turn of the spin: look at the stripes, at the network, or give up. *)
Spin(w) ==
    /\ At(w, "spin")
    /\ \/ /\ count > 0
          /\ scan' = Set(scan, w, Stripes)
          /\ Goto(w, <<"spinpop">>)
          /\ UNCHANGED poller
       \/ /\ netpoll /\ poller = None
          /\ poller' = w
          /\ Goto(w, <<"resume", "spin">>)
          /\ UNCHANGED scan
       \/ /\ Goto(w, <<"unspin">>)
          /\ UNCHANGED <<poller, scan>>
    /\ UNCHANGED <<netpoll, queues, bell, pollSleeping, breakSent, breakReady, off, hand, cur,
                   spun>>

(* Uncounted before the next look: with a task, run it; else scan again. *)
Unspin(w) ==
    /\ At(w, "unspin")
    /\ spinners' = spinners - 1
    /\ Goto(w, IF cur[w] # None THEN <<"took", "run">> ELSE <<"lock">>)
    /\ UNCHANGED <<netpoll, queues, sleepers, mu, poll, off, hand, cur, scan, spun>>

(* One slot visited by sl_runnext_steal. *)
StealFrom(w, v) ==
    /\ runnext[v] # None
    /\ cur' = Set(cur, w, runnext[v])
    /\ runnext' = Set(runnext, v, None)
    /\ count' = count - 1
    /\ UNCHANGED <<stripes, scan>>

(* Before the poll: a task in some slot counts as queued, so it is taken. *)
Steal(w) ==
    /\ At(w, "steal")
    /\ \/ /\ \E v \in scan[w] : StealFrom(w, v)
          /\ mu' = None /\ Goto(w, <<"run">>)
       \/ /\ \E v \in scan[w] : runnext[v] = None /\ Pass(w, v)
          /\ UNCHANGED <<mu, pc>>
       \/ /\ scan[w] = {} /\ mu' = None /\ Goto(w, <<"poll">>)
          /\ UNCHANGED <<queues, cur, scan>>
    /\ UNCHANGED <<netpoll, sleepers, spinners, poll, off, hand, spun>>

(* The sleep is announced first ... *)
Announce(w) ==
    /\ At(w, "announce")
    /\ sleepers' = sleepers + 1
    /\ scan' = Set(scan, w, Stripes)
    /\ Goto(w, <<"lastpop">>)
    /\ UNCHANGED <<netpoll, queues, spinners, mu, poll, off, hand, cur, spun>>

(* Mutant: the slots are not looked at. *)
LastLookSkipsSlots(w) ==
    /\ At(w, "lastpop")
    /\ \/ /\ \E s \in scan[w] : TakeFrom(w, s)
          /\ sleepers' = sleepers - 1
          /\ mu' = None /\ Goto(w, <<"run">>)
       \/ /\ \E s \in scan[w] : stripes[s] = <<>> /\ Pass(w, s)
          /\ UNCHANGED <<sleepers, mu, pc>>
       \/ /\ scan[w] = {} /\ mu' = None /\ Goto(w, <<"asleep">>)
          /\ UNCHANGED <<queues, cur, scan, sleepers>>
    /\ UNCHANGED <<netpoll, spinners, poll, off, hand, spun>>

(* ... then the stripes and the slots are visited one last time, and only   *)
(* then does cond_wait release the mutex.                                   *)
LastLook(w) ==
    /\ \/ /\ \/ At(w, "lastpop") /\ \E s \in scan[w] : TakeFrom(w, s)
             \/ At(w, "laststeal") /\ \E v \in scan[w] : StealFrom(w, v)
          /\ sleepers' = sleepers - 1
          /\ mu' = None /\ Goto(w, <<"run">>)
       \/ /\ \/ At(w, "lastpop") /\ \E s \in scan[w] : stripes[s] = <<>> /\ Pass(w, s)
             \/ At(w, "laststeal") /\ \E v \in scan[w] : runnext[v] = None /\ Pass(w, v)
          /\ UNCHANGED <<sleepers, mu, pc>>
       \/ /\ scan[w] = {}
          /\ \/ /\ At(w, "lastpop")
                /\ scan' = Set(scan, w, Workers)
                /\ Goto(w, <<"laststeal">>) /\ UNCHANGED mu
             \/ /\ At(w, "laststeal")
                /\ mu' = None /\ Goto(w, <<"asleep">>) /\ UNCHANGED scan
          /\ UNCHANGED <<queues, cur, sleepers>>
    /\ UNCHANGED <<netpoll, spinners, poll, off, hand, spun>>

(* Signalled, or woken for no reason as POSIX allows: the mutex again,      *)
(* uncounted, unlocked to check in, and round.                              *)
WakeUp(w) ==
    /\ At(w, "woken") \/ At(w, "asleep")
    /\ mu = None
    /\ sleepers' = sleepers - 1
    /\ Goto(w, <<"lock">>)
    /\ UNCHANGED <<netpoll, queues, spinners, mu, poll, off, hand, cur, scan, spun>>

-------------------------------------------------------------------------------
(* sl_net_worker_poll(1): the worker blocks in the reactor's place.         *)

PollClaim(w) ==
    /\ At(w, "poll")
    /\ IF poller = None
       THEN poller' = w /\ Goto(w, <<"expire", "lock">>)
       ELSE Goto(w, <<"relock">>) /\ UNCHANGED poller
    /\ UNCHANGED <<netpoll, queues, bell, pollSleeping, breakSent, breakReady, off, hand, cur,
                   scan, spun>>

(* sl_reactor_expire_due and sl_reactor_resume_all: tasks whose deadline    *)
(* passed or whose socket is ready go to the stripes.                       *)
PollResume(w, t) ==
    /\ At(w, "expire") \/ At(w, "resume")
    /\ t \in off
    /\ off' = off \ {t}
    /\ hand' = Set(hand, w, t)
    /\ pc' = [pc EXCEPT ![w] = <<"push">> \o @]
    /\ UNCHANGED <<netpoll, queues, bell, poll, cur, scan, spun>>

(* Mutant: the worker blocks without looking at the queues. *)
PollBlockUnchecked(w) ==
    /\ \/ /\ At(w, "expire")
          /\ pollSleeping' = TRUE
          /\ Goto(w, <<"check">>)
       \/ /\ At(w, "check")
          /\ Goto(w, <<"epoll">>)
          /\ UNCHANGED pollSleeping
    /\ UNCHANGED <<netpoll, queues, bell, poller, breakSent, breakReady, off, hand, cur,
                   scan, spun>>

(* The sleep announced, the queues looked at once more, then epoll_wait. *)
PollBlock(w) ==
    /\ \/ /\ At(w, "expire")
          /\ pollSleeping' = TRUE
          /\ Goto(w, <<"check">>)
       \/ /\ At(w, "check")
          /\ Goto(w, IF count = 0 THEN <<"epoll">> ELSE <<"return">>)
          /\ UNCHANGED pollSleeping
    /\ UNCHANGED <<netpoll, queues, bell, poller, breakSent, breakReady, off, hand, cur,
                   scan, spun>>

(* epoll_wait returns: the break, a socket, or its timeout (a second at the *)
(* most).                                                                   *)
PollReturn(w) ==
    /\ At(w, "epoll")
    /\ Goto(w, <<"return">>)
    /\ UNCHANGED <<netpoll, queues, bell, poll, off, hand, cur, scan, spun>>

(* The flag down, the break taken back, and the eventfd read if it was sent. *)
PollDrain(w) ==
    /\ \/ /\ At(w, "return")
          /\ pollSleeping' = FALSE
          /\ Goto(w, <<"unclaim">>)
          /\ UNCHANGED <<breakSent, breakReady>>
       \/ /\ At(w, "unclaim")
          /\ breakSent' = FALSE
          /\ Goto(w, IF breakSent THEN <<"drain">> ELSE <<"resume">>)
          /\ UNCHANGED <<pollSleeping, breakReady>>
       \/ /\ At(w, "drain")
          /\ breakReady' = FALSE
          /\ Goto(w, <<"resume">>)
          /\ UNCHANGED <<pollSleeping, breakSent>>
    /\ UNCHANGED <<netpoll, queues, bell, poller, off, hand, cur, scan, spun>>

PollLeave(w) ==
    /\ At(w, "resume")
    /\ poller' = None
    /\ Return(w)
    /\ UNCHANGED <<netpoll, queues, bell, pollSleeping, breakSent, breakReady, off, hand, cur,
                   scan, spun>>

-------------------------------------------------------------------------------
Push(x) == StripePush(x) \/ ReadSpinners(x) \/ ReadSleepers(x) \/ Signal(x) \/ PollBreak(x)

Worker(w) ==
    \/ \E t \in Tasks : Ready(w, t) \/ ReadyLocal(w, t)
    \/ ReadyTo(w) \/ ReadyCount(w) \/ Stop(w) \/ Yield(w)
    \/ Top(w) \/ TryPop(w) \/ Lock(w) \/ PopLocked(w) \/ Took(w)
    \/ SpinUp(w) \/ Spin(w) \/ Unspin(w)
    \/ Steal(w) \/ Announce(w) \/ LastLook(w) \/ WakeUp(w)
    \/ PollClaim(w) \/ PollBlock(w) \/ PollReturn(w) \/ PollDrain(w) \/ PollLeave(w)
    \/ \E t \in Tasks : PollResume(w, t)

Next ==
    \/ \E x \in Threads : Push(x)
    \/ \E x \in Outside, t \in Tasks : OutsideReady(x, t)
    \/ \E w \in Workers : Worker(w)

Spec == Init /\ [][Next]_vars

-------------------------------------------------------------------------------
Queued == UNION {ToSet(stripes[s]) : s \in Stripes}
            \cup {runnext[w] : w \in {v \in Workers : runnext[v] # None}}

Doing(ls) == {x \in Threads : Head(pc[x]) \in ls}
Within(ls) == {x \in Threads : ToSet(pc[x]) \cap ls # {}}

(* The two counters the wakeups depend on say how many workers sleep (from  *)
(* the announcement on) and how many spin, at every step.                   *)
TypeOK ==
    /\ \A s \in Stripes : \A i \in DOMAIN stripes[s] : StripeOf[stripes[s][i]] = s
    /\ sleepers = Cardinality(Doing({"lastpop", "laststeal", "asleep", "woken"}))
    /\ spinners = Cardinality(Within({"spin", "spinpop", "unspin"}))
    /\ mu \in Workers \cup {None} /\ poller \in Workers \cup {None}
    /\ mu # None => mu \in Doing({"pop", "steal", "announce", "lastpop", "laststeal"})

(* A runnable task is in exactly one place: one stripe, one slot, one       *)
(* thread's hand, or run by one worker -- through displacement from a slot, *)
(* stealing, yields and quantum expiry.  Twice would run one stack on two   *)
(* workers; nowhere loses the task, and hides it from the collector.        *)
TaskInOnePlace ==
    \A t \in Tasks :
      (IF t \in off THEN 1 ELSE 0)
      + Cardinality({i \in DOMAIN stripes[StripeOf[t]] : stripes[StripeOf[t]][i] = t})
      + Cardinality({w \in Workers : runnext[w] = t})
      + Cardinality({x \in Threads : hand[x] = t})
      + Cardinality({w \in Workers : cur[w] = t}) = 1

(* sl_global_runq_count, which yields, spins and the poll trust, is the     *)
(* number of queued tasks, but for a slot just filled and not yet counted.  *)
CountIsQueued == count = Cardinality(Queued) - Cardinality(Doing({"count", "countlocal"}))

Settled == \A x \in Threads : Head(pc[x]) \in {"run", "free", "asleep", "epoll"}

(* No lost wakeup: once every thread runs its task, sleeps or blocks, no    *)
(* worker is asleep on the doorbell while a task is queued, on a stripe or  *)
(* in a busy worker's slot.                                                 *)
NoSleepOverWork == Settled /\ Queued # {} => Doing({"asleep"}) = {}

(* A task queued while a worker blocks in the network poll has at least     *)
(* claimed the break of its wait: announce-then-look against                *)
(* queue-then-look misses no task.                                          *)
PollIsTold ==
    Settled /\ Queued # {} /\ Doing({"epoll"}) # {} => breakSent \/ breakReady
===============================================================================
