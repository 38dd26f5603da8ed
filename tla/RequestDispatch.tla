--------------------------- MODULE RequestDispatch ---------------------------
(***************************************************************************)
(* How the pool of providers learns of an urgent request                   *)
(* (backend/apps/marketplace/services/dispatch.py): the dispatch window of *)
(* each subscription tier, the EventLog rows that keep a provider from     *)
(* being told twice, and the invitations in the providers' inboxes.        *)
(*                                                                         *)
(* The request itself moves by the steps of RequestContract, which         *)
(* ServiceRequest implements.  Creation, the on_commit callbacks and the   *)
(* periodic dispatcher run outside the transaction of the request,         *)
(* statement by statement: each is a job whose steps interleave with       *)
(* everything else.  Only dispatch_window locks what it works on.          *)
(***************************************************************************)
EXTENDS Naturals

CONSTANTS
    Providers,    \* provider profiles; their accounts stay
    NoProvider,   \* provider_id IS NULL
    Crashes,      \* BOOLEAN: processes may die
    Tiers,        \* the dispatch tiers
    Eligible,     \* providers that match the request and want its invitations
    Web,          \* web processes, as runners of jobs
    Beat,         \* the Celery worker of the periodic dispatcher
    TierChanges   \* BOOLEAN: subscriptions change while the request lives

ASSUME DispatchAssumption ==
    /\ NoProvider \notin Providers
    /\ Crashes \in BOOLEAN
    /\ Eligible \subseteq Providers
    /\ Beat \notin Web
    /\ TierChanges \in BOOLEAN

Runners == Web \cup {Beat}

VARIABLES
    phase,    \* the request: open, engaged, executing, completed, cancelled, gone
    owner,    \* the provider it is assigned to
    round,    \* how it came to be open, while it stays so
    windows,  \* the ServiceRequestDispatch row of each tier
    told,     \* providers with an EventLog REQUEST_CREATED for the request
    inbox,    \* invitations in each provider's notifications (2: or more)
    tier,     \* the tier of each provider's subscription
    job,      \* what each runner is doing
    lost,     \* runners that have died once
    unlogged  \* history: whom the creation told while a callback was about to
              \* forget that he was

Request == INSTANCE RequestContract

request == <<phase, owner, round>>
dispatchVars == <<phase, owner, round, windows, told, inbox, tier, job, lost, unlogged>>

DispatchStatus == {"none", "pending", "ready", "dispatched", "failed"}

\* due stands for available_at <= now
Window(status, due) == [status |-> status, due |-> due]
NoWindows == [t \in Tiers |-> Window("none", FALSE)]

Steps == {"idle", "direct", "accepted", "withdraw", "clear", "forget", "arm", "mark", "list", "dispatch"}

\* todo: tiers left to arm, or listed for dispatch.  whom: the users the step
\* is about.  kept: excluded_user_ids.
JobAt(step, todo, whom, kept) ==
    [step |-> step, todo |-> todo, whom |-> whom, kept |-> kept]
NoJob == JobAt("idle", {}, {}, {})

DispatchTypeOK ==
    /\ phase \in {"open", "engaged", "executing", "completed", "cancelled", "gone"}
    /\ owner \in Providers \cup {NoProvider}
    /\ round \in {"created", "reopened", "other"}
    /\ windows \in [Tiers -> [status : DispatchStatus, due : BOOLEAN]]
    /\ told \subseteq Providers
    /\ inbox \in [Providers -> 0..2]
    /\ tier \in [Providers -> Tiers]
    /\ job \in [Runners -> [step : Steps, todo : SUBSET Tiers,
                            whom : SUBSET Providers, kept : SUBSET Providers]]
    /\ lost \subseteq Runners
    /\ unlogged \subseteq Providers

\* Mutation: a request without provider is notified all the same
NamedAnyway(p) == {p}

\* The provider to notify, if there is one
Named(p) == {p} \ {NoProvider}

\* perform_create has saved the row; the same web process goes on
DispatchInit ==
    /\ Request!Init
    /\ round = "created"
    /\ windows = NoWindows
    /\ told = {}
    /\ inbox = [p \in Providers |-> 0]
    /\ tier \in [Providers -> Tiers]
    /\ \E r \in Web :
         job = [q \in Runners |-> IF q = r
                                  THEN JobAt("direct", {}, Named(owner), {})
                                  ELSE NoJob]
    /\ lost = {}
    /\ unlogged = {}

-----------------------------------------------------------------------------
(* Helpers *)

Free(r) == job[r].step = "idle"
Become(r, j) == job' = [job EXCEPT ![r] = j]

\* create_notification: the invitation and its EventLog, in one transaction
Invite(whom) ==
    /\ told' = told \cup whom
    /\ inbox' = [p \in Providers |->
                   IF p \in whom /\ inbox[p] < 2 THEN inbox[p] + 1 ELSE inbox[p]]

\* delete_notifications
Emptied(whom) == [p \in Providers |-> IF p \in whom THEN 0 ELSE inbox[p]]

\* A callback is about to forget that p was told
Forgetting(p) == \E r \in Runners : job[r].step = "forget" /\ p \in job[r].whom

Undecided(t) == windows[t].status \in {"pending", "ready"}

-----------------------------------------------------------------------------
(* The request, and what its handlers do to the invitations *)

\* The round goes on as long as the request is open for the same provider
Round == round' = IF phase' = "open" /\ owner' = owner THEN round ELSE "other"

\* The endpoints that accept: clear_urgent_request_provider_notifications in
\* the transaction of the acceptance
AcceptAndClear(p) ==
    /\ Request!Take(p) /\ Round
    /\ inbox' = Emptied(told \cup {p})
    /\ UNCHANGED <<windows, told, tier, job, lost, unlogged>>

\* The request page accepts first and clears afterwards
AcceptThenClear(r, p) ==
    /\ Free(r)
    /\ Request!Take(p) /\ Round
    /\ Become(r, JobAt("accepted", {}, {p}, {}))
    /\ UNCHANGED <<windows, told, inbox, tier, lost, unlogged>>

\* relist_request_to_pool: its callback keeps the previous provider out
RelistAndRedispatch(r) ==
    /\ Free(r)
    /\ owner # NoProvider
    /\ Request!Withdraw /\ Round
    /\ Become(r, JobAt("clear", {}, {}, {owner}))
    /\ UNCHANGED <<windows, told, inbox, tier, lost, unlogged>>

\* A reopening, and _redispatch_request_to_providers as its callback
ReopenAndRedispatch(r) ==
    /\ Free(r)
    /\ Request!Reopen /\ round' = "reopened"
    /\ Become(r, JobAt("clear", {}, {}, {}))
    /\ UNCHANGED <<windows, told, inbox, tier, lost, unlogged>>

\* execute_action(action="cancel") and its callback
CancelAndWithdraw(r) ==
    /\ Free(r)
    /\ Request!Cancel /\ Round
    /\ Become(r, JobAt("withdraw", {}, Named(owner), {}))
    /\ UNCHANGED <<windows, told, inbox, tier, lost, unlogged>>

\* The windows cascade with the row; EventLog and Notification refer to it by
\* number and stay
RemoveRequest ==
    /\ Request!Delete /\ Round
    /\ windows' = NoWindows
    /\ UNCHANGED <<told, inbox, tier, job, lost, unlogged>>

\* An acceptance by the staff, an update and its decision, the execution and
\* its cancellation by the provider leave the invitations alone
OtherStep ==
    /\ \/ \E p \in Providers : Request!Take(p)
       \/ Request!Submit \/ Request!SendBack \/ Request!Start \/ Request!Finish
       \/ phase = "executing" /\ Request!Cancel
    /\ Round
    /\ UNCHANGED <<windows, told, inbox, tier, job, lost, unlogged>>

\* A provider moves to another tier
ChangeTier(p, t) ==
    /\ TierChanges
    /\ tier' = [tier EXCEPT ![p] = t]
    /\ UNCHANGED <<request, windows, told, inbox, job, lost, unlogged>>

-----------------------------------------------------------------------------
(* The jobs *)

\* perform_create: the provider named by an urgent request is told at once
Direct(r) ==
    /\ job[r].step = "direct"
    /\ LET whom == job[r].whom \cap Eligible IN
         /\ Invite(whom)
         /\ unlogged' = unlogged \cup {p \in whom : Forgetting(p)}
    /\ Become(r, JobAt("arm", Tiers, {}, {}))
    /\ UNCHANGED <<request, windows, tier, lost>>

\* clear_urgent_request_provider_notifications after an acceptance
Accepted(r) ==
    /\ job[r].step = "accepted"
    /\ inbox' = Emptied(told \cup job[r].whom)
    /\ Become(r, NoJob)
    /\ UNCHANGED <<request, windows, told, tier, lost, unlogged>>

\* _notify_pool_request_cancelled_providers; the EventLog stays
Withdraw(r) ==
    /\ job[r].step = "withdraw"
    /\ inbox' = Emptied(told \cup job[r].whom)
    /\ Become(r, NoJob)
    /\ UNCHANGED <<request, windows, told, tier, lost, unlogged>>

\* clear_request_pool_delivery_records: whoever was told loses the invitation
\* (the request of these callbacks has no provider any more),
Clear(r) ==
    /\ job[r].step = "clear"
    /\ inbox' = Emptied(told)
    /\ LET listed == IF told = {} THEN Providers ELSE told IN
       Become(r, JobAt("forget", {}, listed \ job[r].kept, {}))
    /\ UNCHANGED <<request, windows, told, tier, lost, unlogged>>

\* and then the EventLog rows of those listed go, of anybody if nobody was,
\* except those of the excluded users
Forget(r) ==
    /\ job[r].step = "forget"
    /\ told' = told \ job[r].whom
    /\ Become(r, JobAt("arm", Tiers, {}, {}))
    /\ UNCHANGED <<request, windows, inbox, tier, lost, unlogged>>

\* ensure_dispatch_windows_for_urgent_request, one tier: get_or_create, or a
\* new date for a window not dispatched yet.  It fails on a request that is
\* gone.  The inline dispatch that follows may be throttled.
Arm(r, t) ==
    /\ job[r].step = "arm"
    /\ t \in job[r].todo
    /\ windows' = CASE phase = "gone" -> windows
                    [] phase # "gone" /\ windows[t].status = "none" ->
                         [windows EXCEPT ![t] = Window("pending", FALSE)]
                    [] phase # "gone" /\ windows[t].status # "none" ->
                         [windows EXCEPT ![t].due = @ /\ windows[t].status = "dispatched"]
    /\ \/ /\ phase # "gone" /\ job[r].todo # {t}
          /\ Become(r, [job[r] EXCEPT !.todo = @ \ {t}])
       \/ /\ phase # "gone" /\ job[r].todo = {t}
          /\ Become(r, JobAt("mark", {}, {}, {}))
       \/ /\ phase = "gone" \/ job[r].todo = {t}
          /\ Become(r, NoJob)
    /\ UNCHANGED <<request, told, inbox, tier, lost, unlogged>>

\* The periodic task, or an inline dispatch: it does nothing unless a window
\* is due
Tick(r) ==
    /\ Free(r)
    /\ \E t \in Tiers : Undecided(t) /\ windows[t].due
    /\ Become(r, JobAt("mark", {}, {}, {}))
    /\ UNCHANGED <<request, windows, told, inbox, tier, lost, unlogged>>

\* _mark_ready_windows
Mark(r) ==
    /\ job[r].step = "mark"
    /\ windows' = [t \in Tiers |->
                     IF windows[t].status = "pending" /\ windows[t].due
                     THEN [windows[t] EXCEPT !.status = "ready"] ELSE windows[t]]
    /\ Become(r, JobAt("list", {}, {}, {}))
    /\ UNCHANGED <<request, told, inbox, tier, lost, unlogged>>

Listed == {t \in Tiers : windows[t].status = "ready" /\ windows[t].due}

\* dispatch_ready_urgent_windows lists the ready windows, then takes them up
ListReady(r) ==
    /\ job[r].step = "list"
    /\ Become(r, IF Listed = {} THEN NoJob ELSE JobAt("dispatch", Listed, {}, {}))
    /\ UNCHANGED <<request, windows, told, inbox, tier, lost, unlogged>>

\* Mutation: the event log is not consulted
InvitedUnchecked(t) ==
    {p \in Eligible : tier[p] = t /\ windows[t].due}

\* The providers that a window tells: those of its tier that may see the
\* request by now and have not been told
Invited(t) ==
    {p \in Eligible :
        tier[p] = t /\ windows[t].due /\ p \notin told}

\* Mutation: a request that names a provider is not for the pool
DispatchableUnnamed == phase = "open" /\ owner = NoProvider

\* The check of dispatch_window on the request
Dispatchable == phase = "open"

\* Mutation: a window that cannot be dispatched is left as it is
WindowFailedUnsaved(t) == windows

\* Its status when the request cannot be dispatched
WindowFailed(t) == [windows EXCEPT ![t].status = "failed"]

\* dispatch_window, under the lock of the window: only DISPATCHED, or PENDING
\* and not due, ends early
DispatchWindow(t) ==
    CASE windows[t].status \in {"none", "dispatched"} ->
           UNCHANGED <<windows, told, inbox>>
      [] windows[t].status = "pending" /\ ~windows[t].due ->
           UNCHANGED <<windows, told, inbox>>
      [] OTHER ->
           \/ /\ ~Dispatchable
              /\ windows' = WindowFailed(t)
              /\ UNCHANGED <<told, inbox>>
           \/ /\ Dispatchable
              /\ Invite(Invited(t))
              /\ windows' = [windows EXCEPT ![t].status = "dispatched"]

Dispatch(r, t) ==
    /\ job[r].step = "dispatch"
    /\ t \in job[r].todo
    /\ DispatchWindow(t)
    /\ Become(r, IF job[r].todo = {t} THEN NoJob ELSE [job[r] EXCEPT !.todo = @ \ {t}])
    /\ UNCHANGED <<request, tier, lost, unlogged>>

\* The process dies or a statement raises; each runner does so once at most
RunnerLost(r) ==
    /\ Crashes
    /\ ~Free(r)
    /\ r \notin lost
    /\ Become(r, NoJob)
    /\ lost' = lost \cup {r}
    /\ UNCHANGED <<request, windows, told, inbox, tier, unlogged>>

\* Time passes
Due(t) ==
    /\ windows[t].status # "none"
    /\ ~windows[t].due
    /\ windows' = [windows EXCEPT ![t].due = TRUE]
    /\ UNCHANGED <<request, told, inbox, tier, job, lost, unlogged>>

JobStep(r) ==
    \/ Direct(r) \/ Accepted(r) \/ Withdraw(r) \/ Clear(r) \/ Forget(r)
    \/ \E t \in Tiers : Arm(r, t) \/ Dispatch(r, t)
    \/ Mark(r) \/ ListReady(r)

DispatchNext ==
    \/ \E p \in Providers :
         \/ AcceptAndClear(p)
         \/ \E r \in Web : AcceptThenClear(r, p)
         \/ \E t \in Tiers : ChangeTier(p, t)
    \/ \E r \in Web :
         \/ RelistAndRedispatch(r) \/ ReopenAndRedispatch(r) \/ CancelAndWithdraw(r)
    \/ RemoveRequest \/ OtherStep
    \/ \E r \in Runners : JobStep(r) \/ Tick(r) \/ RunnerLost(r)
    \/ \E t \in Tiers : Due(t)

DispatchSpec == DispatchInit /\ [][DispatchNext]_dispatchVars

\* A process that has started a job goes on with it unless it dies; the
\* periodic task keeps coming; time passes.  Nobody is obliged to call.
FairDispatchSpec ==
    /\ DispatchSpec
    /\ \A r \in Runners : WF_dispatchVars(JobStep(r))
    /\ WF_dispatchVars(Tick(Beat))
    /\ \A t \in Tiers : WF_dispatchVars(Due(t))

-----------------------------------------------------------------------------
(* Properties *)

\* While the subscriptions keep their tiers, a provider who holds an invitation
\* is not sent a second one, whatever dispatchers and callbacks run; only the
\* direct invitation of the creation, which consults no event log, may come on
\* top of a later round's, or be forgotten by a callback that was clearing the
\* log meanwhile.
OneInvitation ==
    [][ \A p \in Providers \ unlogged : inbox[p] > 0 /\ inbox'[p] > inbox[p] =>
          \E r \in Web : job[r].step = "direct" ]_dispatchVars

AllDecided ==
    /\ \A r \in Runners : job[r].step = "idle"
    /\ \A t \in Tiers : windows[t].status \in {"dispatched", "failed"}

\* Once the windows of a request that has stayed in the pool are decided,
\* every eligible provider has been told of it, whatever tier is his and
\* whichever provider the request names.
PoolInvited ==
    phase = "open" /\ round = "created" /\ AllDecided => Eligible \subseteq told

\* A window does not wait for ever: it is dispatched, or failed with its
\* request, unless the request is relisted again and again.
WindowsDecided ==
    \/ \A t \in Tiers : []<>~Undecided(t)
    \/ []<>(\E r \in Runners : job[r].step = "arm")
==============================================================================
