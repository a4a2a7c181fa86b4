------------------------------- MODULE MCWaits -------------------------------
(* The small protocols in which a task waits for another thread, one per     *)
(* behaviour: a mutex, joins, and a name lookup.  They share no state;       *)
(* `which' says whose behaviour this is.                                     *)
EXTENDS Mutex

CONSTANTS
    Main, JoinTasks, Joins, NoTask, NoJoin, SharedHandles,
    DnsTasks, NumJobs, NumPipes, MaxRecords, None

VARIABLES
    which,
    joinOutcome, joinWaiter, joinSpawner, joinPc, joinTarget, joinCur, joinRecover, joinDepth,
    joinRuns,
    dnsJob, dnsPipe, dnsQueue, dnsSlots, dnsResolver, dnsPc, dnsCall

J == INSTANCE Join WITH
        Tasks <- JoinTasks, outcome <- joinOutcome, waiter <- joinWaiter, spawner <- joinSpawner,
        pc <- joinPc, target <- joinTarget, cur <- joinCur, recover <- joinRecover,
        depth <- joinDepth, runs <- joinRuns

D == INSTANCE Dns WITH
        Tasks <- DnsTasks, job <- dnsJob, pipe <- dnsPipe, queue <- dnsQueue, slots <- dnsSlots,
        resolver <- dnsResolver, pc <- dnsPc, call <- dnsCall

joinVars == <<joinOutcome, joinWaiter, joinSpawner, joinPc, joinTarget, joinCur, joinRecover,
              joinDepth, joinRuns>>
dnsVars == <<dnsJob, dnsPipe, dnsQueue, dnsSlots, dnsResolver, dnsPc, dnsCall>>
allVars == <<which, vars, joinVars, dnsVars>>

MCInit ==
    /\ which \in {"mutex", "join", "dns"}
    /\ Init /\ J!Init /\ D!Init

MCNext ==
    \/ which = "mutex" /\ Next /\ UNCHANGED <<which, joinVars, dnsVars>>
    \/ which = "join" /\ J!Next /\ UNCHANGED <<which, vars, dnsVars>>
    \/ which = "dns" /\ D!Next /\ UNCHANGED <<which, vars, joinVars>>

MCSpec ==
    /\ MCInit /\ [][MCNext]_allVars
    /\ \A x \in Slots : WF_vars(which = "mutex" /\ Step(x))
    /\ \A x \in JoinTasks : WF_joinVars(which = "join" /\ J!WaitLocked(x))
    /\ WF_dnsVars(which = "dns" /\ D!Resolver)
    /\ \A x \in DnsTasks : WF_dnsVars(which = "dns" /\ D!Goes(x))

-------------------------------------------------------------------------------
(* The properties of the parts. *)

(* Join: the panic of a joined function is the outcome of its own handle. *)
PanicReachesItsJoin == J!PanicReachesItsJoin

(* Join: a handle that is not done has exactly one task that will report it. *)
PendingHasReporter == J!PendingHasReporter

(* Join: a bracket of disabled preemption is as it was after a panic. *)
BracketRestored == J!BracketRestored

(* Join: no task is parked on a handle that is done. *)
NoStrandedJoiner == J!NoStrandedJoiner

(* Join: a wait on a handle that is done returns. *)
WaiterReturns == J!WaiterReturns

(* Dns: a job is freed once, by the side that gives it up last. *)
JobHasOneOwner == D!JobHasOneOwner

(* Dns: each end of a pipe is closed once, by the side that holds it. *)
EndsAreOwned == D!EndsAreOwned

(* Dns: the slots of record queries are all given back. *)
SlotsBalance == D!SlotsBalance

(* Dns: every lookup ends. *)
LookupEnds == D!LookupEnds
===============================================================================
