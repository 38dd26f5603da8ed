-------------------------- MODULE CompetitiveDispatch --------------------------
(***************************************************************************)
(* The competitive requests of the pool and the invitation of one provider *)
(* to each of them (backend/apps/marketplace/services/dispatch.py).        *)
(*                                                                         *)
(* Runs of the dispatcher are started by celery, by the creation of a      *)
(* request and by its return to the pool.  Nothing is locked and every     *)
(* statement is committed: a run lists the oldest requests of the pool,    *)
(* and looks into the event log before each invitation.  A request that    *)
(* returns to the pool loses its invitations and then its events, after    *)
(* the commit of the return.                                               *)
(***************************************************************************)
EXTENDS Naturals, FiniteSets

CONSTANTS
    MaxPool,       \* bound on the requests, numbered from the oldest
    Batch,         \* limit of a run
    Dispatchers,   \* runs that may overlap
    MaxRelists,    \* bound on the returns to the pool
    MaxLostRuns    \* bound on the processes that die

ASSUME PoolAssumption ==
    /\ MaxPool \in Nat /\ Batch \in Nat /\ MaxRelists \in Nat /\ MaxLostRuns \in Nat

VARIABLES
    pool,           \* the requests; ripe: the delay of the provider's plan is over
    invitations,    \* REQUEST_CREATED notifications of the provider (2: or more)
    inEventLog,     \* the requests with a REQUEST_CREATED event of the provider
    dispatchers,    \* what each run does, and the requests that it has still to look at
    clearing,       \* what the return of a request to the pool has still to clear
    poolCrossed,    \* requests that a run had with another run, or with a return
    relists, lostRuns

poolVars ==
    <<pool, invitations, inEventLog, dispatchers, clearing, poolCrossed, relists, lostRuns>>

PoolRequests == 1..MaxPool
NotDispatching == [step |-> "idle", left |-> {}, at |-> 0]

PoolTypeOK ==
    /\ pool \in [PoolRequests -> [state : {"none", "open", "out"}, late : BOOLEAN, ripe : BOOLEAN]]
    /\ invitations \in [PoolRequests -> 0..2]
    /\ inEventLog \subseteq PoolRequests /\ poolCrossed \subseteq PoolRequests
    /\ dispatchers \in [Dispatchers -> [step : {"idle", "at", "unlogged"},
                                        left : SUBSET PoolRequests, at : {0} \cup PoolRequests]]
    /\ clearing \in [PoolRequests -> {"nothing", "notices", "events"}]
    /\ relists \in 0..MaxRelists /\ lostRuns \in 0..MaxLostRuns

PoolInit ==
    /\ pool = [r \in PoolRequests |-> [state |-> "none", late |-> FALSE, ripe |-> FALSE]]
    /\ invitations = [r \in PoolRequests |-> 0]
    /\ inEventLog = {} /\ poolCrossed = {}
    /\ dispatchers = [d \in Dispatchers |-> NotDispatching]
    /\ clearing = [r \in PoolRequests |-> "nothing"]
    /\ relists = 0 /\ lostRuns = 0
-----------------------------------------------------------------------------
(* The requests *)

Open == {r \in PoolRequests : pool[r].state = "open"}
Has(d, r) == r \in dispatchers[d].left \cup {dispatchers[d].at}

EnterPool(r) ==
    /\ pool[r].state = "none" /\ \A q \in PoolRequests : q < r => pool[q].state # "none"
    /\ pool' = [pool EXCEPT ![r].state = "open"]
    /\ UNCHANGED <<invitations, inEventLog, dispatchers, clearing, poolCrossed, relists, lostRuns>>

\* An offer is selected, or the request is cancelled
LeavePool(r) ==
    /\ r \in Open
    /\ pool' = [pool EXCEPT ![r].state = "out"]
    /\ UNCHANGED <<invitations, inEventLog, dispatchers, clearing, poolCrossed, relists, lostRuns>>

\* The delay is over, or the deadline of the quotes
PoolTick(r) ==
    /\ pool[r].state # "none"
    /\ \/ ~pool[r].ripe /\ pool' = [pool EXCEPT ![r].ripe = TRUE]
       \/ ~pool[r].late /\ pool' = [pool EXCEPT ![r].late = TRUE]
    /\ UNCHANGED <<invitations, inEventLog, dispatchers, clearing, poolCrossed, relists, lostRuns>>

\* relist_request_to_pool, or a reopened request
Relist(r) ==
    /\ pool[r].state = "out" /\ clearing[r] = "nothing" /\ relists < MaxRelists
    /\ pool' = [pool EXCEPT ![r].state = "open"]
    /\ clearing' = [clearing EXCEPT ![r] = "notices"]
    /\ relists' = relists + 1
    /\ poolCrossed' = poolCrossed \cup {q \in {r} : \E d \in Dispatchers : Has(d, r)}
    /\ UNCHANGED <<invitations, inEventLog, dispatchers, lostRuns>>

Uninvited(r) == 0

\* clear_request_pool_delivery_records deletes the notifications,
ClearNotices(r) ==
    /\ clearing[r] = "notices"
    /\ invitations' = [invitations EXCEPT ![r] = Uninvited(r)]
    /\ clearing' = [clearing EXCEPT ![r] = "events"]
    /\ UNCHANGED <<pool, inEventLog, dispatchers, poolCrossed, relists, lostRuns>>

\* and then the events
ClearEvents(r) ==
    /\ clearing[r] = "events"
    /\ inEventLog' = inEventLog \ {r}
    /\ clearing' = [clearing EXCEPT ![r] = "nothing"]
    /\ UNCHANGED <<pool, invitations, dispatchers, poolCrossed, relists, lostRuns>>

\* The process of the return dies
LoseClearing(r) ==
    /\ clearing[r] # "nothing" /\ lostRuns < MaxLostRuns
    /\ clearing' = [clearing EXCEPT ![r] = "nothing"]
    /\ lostRuns' = lostRuns + 1
    /\ UNCHANGED <<pool, invitations, inEventLog, dispatchers, poolCrossed, relists>>
-----------------------------------------------------------------------------
(* dispatch_due_competitive_request_notifications *)

Dispatching(d, step, left, at) ==
    dispatchers' = [dispatchers EXCEPT ![d] = [step |-> step, left |-> left, at |-> at]]

Older(r) == {q \in Open : q < r}

\* Mutation: the oldest requests, and then those of the pool
ListedOfAll == {r \in Open : r <= Batch}

Listed == {r \in Open : Cardinality(Older(r)) < Batch}

\* The oldest requests of the pool; those that are not due for the provider
\* by now are passed over
ListPool(d) ==
    /\ dispatchers[d] = NotDispatching /\ Listed # {}
    /\ Dispatching(d, "at", {r \in Listed : pool[r].ripe}, 0)
    /\ poolCrossed' = poolCrossed \cup
         {r \in Listed : clearing[r] # "nothing" \/ \E c \in Dispatchers : Has(c, r)}
    /\ UNCHANGED <<pool, invitations, inEventLog, clearing, relists, lostRuns>>

\* Mutation: the delay over is enough
UnsentUnasked(r) == TRUE

\* _event_already_sent
Unsent(r) == r \notin inEventLog

\* The next request: past its deadline, or already sent, it is passed over
LookAt(d, r) ==
    /\ dispatchers[d].step = "at"
    /\ r \in dispatchers[d].left /\ \A q \in dispatchers[d].left : r <= q
    /\ LET left == dispatchers[d].left \ {r} IN
       IF Unsent(r) /\ ~pool[r].late
       THEN Dispatching(d, "unlogged", left, r) ELSE Dispatching(d, "at", left, 0)
    /\ UNCHANGED <<pool, invitations, inEventLog, clearing, poolCrossed, relists, lostRuns>>

\* create_notification, with its event
Invite(d) ==
    /\ dispatchers[d].step = "unlogged"
    /\ LET r == dispatchers[d].at IN
       /\ invitations' = [invitations EXCEPT ![r] = IF @ < 2 THEN @ + 1 ELSE @]
       /\ inEventLog' = inEventLog \cup {r}
    /\ Dispatching(d, "at", dispatchers[d].left, 0)
    /\ UNCHANGED <<pool, clearing, poolCrossed, relists, lostRuns>>

EndRun(d) ==
    /\ dispatchers[d].step = "at" /\ dispatchers[d].left = {}
    /\ dispatchers' = [dispatchers EXCEPT ![d] = NotDispatching]
    /\ UNCHANGED <<pool, invitations, inEventLog, clearing, poolCrossed, relists, lostRuns>>

LoseRun(d) ==
    /\ dispatchers[d] # NotDispatching /\ lostRuns < MaxLostRuns
    /\ dispatchers' = [dispatchers EXCEPT ![d] = NotDispatching]
    /\ lostRuns' = lostRuns + 1
    /\ UNCHANGED <<pool, invitations, inEventLog, clearing, poolCrossed, relists>>

RunPool(d) == ListPool(d) \/ (\E r \in PoolRequests : LookAt(d, r)) \/ Invite(d) \/ EndRun(d)

PoolNext ==
    \/ \E r \in PoolRequests :
         \/ EnterPool(r) \/ LeavePool(r) \/ PoolTick(r) \/ Relist(r)
         \/ ClearNotices(r) \/ ClearEvents(r) \/ LoseClearing(r)
    \/ \E d \in Dispatchers : RunPool(d) \/ LoseRun(d)

PoolSpec == PoolInit /\ [][PoolNext]_poolVars

\* Beat starts runs for ever, and each takes its steps
FairPoolSpec == PoolSpec /\ \A d \in Dispatchers : WF_poolVars(RunPool(d))
-----------------------------------------------------------------------------
(* Properties *)

\* The provider is invited once while the request is in the pool, through
\* crashes and returns, unless two runs had the request at once or one had
\* it while it returned.
InvitedOncePerListing == \A r \in PoolRequests \ poolCrossed : invitations[r] <= 1

\* Within the batch, not past its deadline, and nobody was told
Waiting(r) ==
    /\ r \in Open /\ Cardinality(Older(r)) < Batch
    /\ pool[r].ripe /\ ~pool[r].late
    /\ r \notin inEventLog

\* A request that is due for the provider is announced to him, if it is
\* among the oldest that a run looks at: those that stay in the pool past
\* their deadline, or were announced long ago, take the places of newer ones.
PoolReached == \A r \in PoolRequests : Waiting(r) ~> ~Waiting(r)
================================================================================
