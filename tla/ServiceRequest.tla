--------------------------- MODULE ServiceRequest ---------------------------
(***************************************************************************)
(* The life of one service request of the marketplace                      *)
(* (backend/apps/marketplace): the row of ServiceRequest, the offers made  *)
(* on it, its status log, and the web workers that serve the calls of its  *)
(* client, of the providers and of the staff.                              *)
(*                                                                         *)
(* A handler that locks the row (select_for_update inside                  *)
(* transaction.atomic) is one action.  A handler that reads the row        *)
(* outside a transaction and acts later is split at that point: the worker *)
(* that serves it holds a task, and other workers run in between.  The     *)
(* on_commit callback of a reopening is such a task too.                   *)
(***************************************************************************)
EXTENDS FiniteSets

CONSTANTS
    Providers,        \* provider profiles
    NoProvider,       \* provider_id IS NULL
    RequestTypes,     \* the request types created: subset of AllTypes
    SelfProfiles,     \* profiles owned by the client of the request
    StaffProfiles,    \* profiles owned by members of the staff
    Responses,        \* what a provider may require with an approval
    Workers,          \* web workers
    Crashes,          \* BOOLEAN: a worker may die, or its callback may raise
    AccountDeletion   \* BOOLEAN: accounts may be deleted

AllTypes == {"normal", "competitive", "urgent"}

ASSUME NoProviderAssumption == NoProvider \notin Providers
ASSUME ConstantsAssumption ==
    /\ RequestTypes \subseteq AllTypes
    /\ SelfProfiles \subseteq Providers
    /\ StaffProfiles \subseteq Providers
    /\ Crashes \in BOOLEAN
    /\ AccountDeletion \in BOOLEAN

VARIABLES
    sr,        \* the ServiceRequest row
    logged,    \* the to_status values of its RequestStatusLog rows
    offers,    \* the Offer of each provider on it
    profiles,  \* provider profiles that still exist
    worker     \* the task each web worker is in the middle of

vars == <<sr, logged, offers, profiles, worker>>

-----------------------------------------------------------------------------
(* Statuses; "deleted" stands for a row that is gone. *)

PreExecution == {"new", "provider_accepted", "awaiting_client"}
RequestStatus == PreExecution \cup {"in_progress", "completed", "cancelled"}
PoolTypes == {"competitive", "urgent"}

\* provider_inputs_approved is a nullable boolean; details stands for
\* expected_delivery_at and the amounts being set; respond for the two
\* client_response_*_required flags.
Request ==
    [status   : RequestStatus \cup {"deleted"},
     rtype    : AllTypes,
     provider : Providers \cup {NoProvider},
     approved : {"undecided", "approved", "rejected"},
     respond  : SUBSET Responses,
     details  : BOOLEAN]

OfferStatus == {"none", "pending", "selected", "rejected"}
NoOffers == [p \in Providers |-> "none"]

Task ==
    [op     : {"idle", "legacy_accept", "legacy_log", "create_offer",
               "approve", "redispatch", "edit"},
     who    : Providers \cup {NoProvider},
     answer : SUBSET Responses]

Job(op, who, answer) == [op |-> op, who |-> who, answer |-> answer]
Idle == Job("idle", NoProvider, {})

TypeOK ==
    /\ sr \in Request
    /\ logged \subseteq RequestStatus
    /\ offers \in [Providers -> OfferStatus]
    /\ profiles \subseteq Providers
    /\ worker \in [Workers -> Task]

-----------------------------------------------------------------------------
(* perform_create: a normal request names its provider, a competitive one  *)
(* none, an urgent one may name the nearest.                               *)

InitialProvider(t) ==
    CASE t = "normal"      -> Providers \ SelfProfiles
      [] t = "competitive" -> {NoProvider}
      [] t = "urgent"      -> Providers \cup {NoProvider}

NewRequest(t, p) ==
    [status |-> "new", rtype |-> t, provider |-> p,
     approved |-> "undecided", respond |-> {}, details |-> FALSE]

Init ==
    /\ \E t \in RequestTypes : \E p \in InitialProvider(t) : sr = NewRequest(t, p)
    /\ logged = {}
    /\ offers = NoOffers
    /\ profiles = Providers
    /\ worker = [w \in Workers |-> Idle]

-----------------------------------------------------------------------------
(* Helpers of models.py and services/actions.py *)

\* service_request_pending_input_stage(sr) = "progress_update"
ProgressStage == sr.status = "awaiting_client" /\ "in_progress" \in logged

\* Mutation: the status alone decides, the log is not read
BeforeExecutionByStatus == sr.status \in PreExecution

\* request_is_before_execution
BeforeExecution == sr.status \in PreExecution /\ ~ProgressStage

\* Mutation: the stage is returned where the status is wanted
ReturnStage == IF ProgressStage THEN "progress_update" ELSE "pre_execution"

\* service_request_pending_input_return_status
ReturnStatus ==
    CASE ProgressStage -> "in_progress"
      [] ~ProgressStage /\ sr.provider # NoProvider /\ sr.rtype # "competitive"
           -> "provider_accepted"
      [] OTHER -> "new"

\* _log_request_status_change, called after the row has moved
LogStatus(s) == logged' = logged \cup {s}

\* Mutation: the UPDATE is conditional on the status only
AcceptGuardStatusOnly(p) == sr.status = "new" /\ p \in profiles

\* ServiceRequest.accept: the conditional UPDATE and the fields it sets
AcceptGuard(p) ==
    /\ sr.status = "new"
    /\ sr.provider \in {NoProvider, p}
    /\ p \in profiles

Accepted(p) == [sr EXCEPT !.status = "provider_accepted", !.provider = p,
                          !.approved = "undecided"]

\* The fields that cancel() and release_to_pool() reset before execution
Cleared(r) == [r EXCEPT !.provider = NoProvider, !.approved = "undecided",
                        !.respond = {}, !.details = FALSE]

\* ServiceRequest.cancel
Cancelled ==
    IF sr.status \in PreExecution
    THEN [Cleared(sr) EXCEPT !.status = "cancelled"]
    ELSE [sr EXCEPT !.status = "cancelled"]

\* Mutation: the offers of the earlier round survive a relisting
RelistKeepsOffers ==
    /\ sr.rtype \in PoolTypes
    /\ BeforeExecution
    /\ sr' = [Cleared(sr) EXCEPT !.status = "new"]
    /\ LogStatus("new")
    /\ UNCHANGED offers

\* relist_request_to_pool: release_to_pool, and the offers of a competitive
\* request are deleted in the same transaction
RelistToPool ==
    /\ sr.rtype \in PoolTypes
    /\ BeforeExecution
    /\ sr' = [Cleared(sr) EXCEPT !.status = "new"]
    /\ offers' = IF sr.rtype = "competitive" THEN NoOffers ELSE offers
    /\ LogStatus("new")

\* The row and everything that cascades from it disappear
RowDeleted ==
    /\ sr' = [Cleared(sr) EXCEPT !.status = "deleted"]
    /\ logged' = {}
    /\ offers' = NoOffers

IsIdle(w) == worker[w].op = "idle"
Hold(w, job) == worker' = [worker EXCEPT ![w] = job]
Release(w) == worker' = [worker EXCEPT ![w] = Idle]

-----------------------------------------------------------------------------
(* Providers *)

\* UrgentRequestAcceptView; the eligibility of p (urgent switch,
\* subscription, scope, dispatched window) is left open
UrgentAccept(p) ==
    /\ p \in profiles \ SelfProfiles
    /\ sr.rtype = "urgent"
    /\ sr.status = "new"
    /\ sr.provider = NoProvider
    /\ sr' = Accepted(p)
    /\ LogStatus("provider_accepted")
    /\ UNCHANGED <<offers, profiles, worker>>

\* ProviderAssignedRequestAcceptView
AssignedAccept(p) ==
    /\ p \in profiles \ SelfProfiles
    /\ sr.provider = p
    /\ sr.rtype # "competitive"
    /\ sr.status = "new"
    /\ sr' = Accepted(p)
    /\ LogStatus("provider_accepted")
    /\ UNCHANGED <<offers, profiles, worker>>

\* _accept_provider_request_from_legacy_html, part 1: request_action has read
\* the row without a lock and the checks on that copy pass
LegacyAcceptRead(w, p) ==
    /\ IsIdle(w)
    /\ p \in profiles \ StaffProfiles
    /\ sr.rtype # "competitive"
    /\ sr.status = "new"
    /\ \/ sr.provider = p
       \/ sr.provider = NoProvider /\ sr.rtype = "urgent"
    /\ Hold(w, Job("legacy_accept", p, {}))
    /\ UNCHANGED <<sr, logged, offers, profiles>>

\* Part 2: the conditional UPDATE of accept(), in its own transaction
LegacyAcceptUpdate(w) ==
    LET p == worker[w].who IN
    /\ worker[w].op = "legacy_accept"
    /\ \/ /\ AcceptGuard(p)
          /\ sr' = Accepted(p)
          /\ Hold(w, Job("legacy_log", p, {}))
       \/ /\ ~AcceptGuard(p)
          /\ Release(w)
          /\ UNCHANGED sr
    /\ UNCHANGED <<logged, offers, profiles>>

\* Part 3: the status log, after the UPDATE has committed
LegacyAcceptLog(w) ==
    /\ worker[w].op = "legacy_log"
    /\ IF sr.status # "deleted" /\ worker[w].who \in profiles
       THEN LogStatus("provider_accepted")
       ELSE UNCHANGED logged
    /\ Release(w)
    /\ UNCHANGED <<sr, offers, profiles>>

\* ProviderAssignedRequestRejectView
ProviderReject(p) ==
    /\ p \in profiles
    /\ sr.provider = p
    /\ BeforeExecution
    /\ \/ RelistToPool
       \/ /\ sr.rtype \notin PoolTypes
          /\ sr' = Cancelled
          /\ LogStatus("cancelled")
          /\ UNCHANGED offers
    /\ UNCHANGED <<profiles, worker>>

\* Mutation: the endpoint trusts the caller to be the provider
ProgressUpdateAnyone(p, required, withDetails) ==
    /\ p \in profiles
    /\ sr.status \in PreExecution \cup {"in_progress"}
    /\ sr.status = "new" => sr.rtype = "competitive"
    /\ BeforeExecution => withDetails
    /\ sr' = [sr EXCEPT !.status = "awaiting_client", !.approved = "undecided",
                        !.respond = required, !.details = @ \/ withDetails]
    /\ LogStatus("awaiting_client")
    /\ UNCHANGED <<offers, profiles, worker>>

\* ProviderProgressUpdateView: the first submission of a request must carry
\* the delivery date and the amounts, a later one may
ProgressUpdate(p, required, withDetails) ==
    /\ p \in profiles
    /\ sr.provider = p
    /\ sr.status \in PreExecution \cup {"in_progress"}
    /\ sr.status = "new" => sr.rtype = "competitive"
    /\ BeforeExecution => withDetails
    /\ sr' = [sr EXCEPT !.status = "awaiting_client",
                        !.approved = "undecided",
                        !.respond = required,
                        !.details = @ \/ withDetails]
    /\ LogStatus("awaiting_client")
    /\ UNCHANGED <<offers, profiles, worker>>

\* RequestStartView: the older endpoint that submits the initial details
SubmitDetails(p) ==
    /\ p \in profiles
    /\ sr.provider = p
    /\ sr.status \in {"new", "provider_accepted"}
    /\ sr.status = "new" => sr.rtype = "competitive"
    /\ sr' = [sr EXCEPT !.status = "awaiting_client",
                        !.approved = "undecided",
                        !.details = TRUE]
    /\ LogStatus("awaiting_client")
    /\ UNCHANGED <<offers, profiles, worker>>

\* RequestCompleteView
Complete(p) ==
    /\ p \in profiles
    /\ sr.provider = p
    /\ sr.status = "in_progress"
    /\ sr' = [sr EXCEPT !.status = "completed"]
    /\ LogStatus("completed")
    /\ UNCHANGED <<offers, profiles, worker>>

\* Mutation: the cancellation leaves no log
ProviderCancelUnlogged(p) ==
    /\ p \in profiles
    /\ sr.provider = p
    /\ sr.status = "in_progress"
    /\ sr' = [sr EXCEPT !.status = "cancelled"]
    /\ UNCHANGED <<logged, offers, profiles, worker>>

\* ProviderRequestCancelView: execution is abandoned, the row keeps its
\* provider, its details and its flags
ProviderCancel(p) ==
    /\ p \in profiles
    /\ sr.provider = p
    /\ sr.status = "in_progress"
    /\ sr' = [sr EXCEPT !.status = "cancelled"]
    /\ LogStatus("cancelled")
    /\ UNCHANGED <<offers, profiles, worker>>

\* RequestCancelView called by the provider of the request or by the staff:
\* the last branch of execute_action(action="cancel")
EngagedCancel ==
    /\ sr.status \in PreExecution \cup {"in_progress"}
    /\ sr' = Cancelled
    /\ LogStatus("cancelled")
    /\ UNCHANGED <<offers, profiles, worker>>

\* CreateOfferView, part 1: the checks, on a row read without a lock
CreateOfferCheck(w, p) ==
    /\ IsIdle(w)
    /\ p \in profiles \ SelfProfiles
    /\ sr.rtype = "competitive"
    /\ sr.status = "new"
    /\ Hold(w, Job("create_offer", p, {}))
    /\ UNCHANGED <<sr, logged, offers, profiles>>

\* Part 2: get_or_create on the unique pair (request, provider)
CreateOfferInsert(w) ==
    LET p == worker[w].who IN
    /\ worker[w].op = "create_offer"
    /\ offers' = IF /\ sr.status # "deleted"
                    /\ p \in profiles
                    /\ offers[p] = "none"
                 THEN [offers EXCEPT ![p] = "pending"]
                 ELSE offers
    /\ Release(w)
    /\ UNCHANGED <<sr, logged, profiles>>

-----------------------------------------------------------------------------
(* The client *)

\* Mutation: the offer chosen before stays selected
AcceptOfferKeepsOthers(p) ==
    /\ offers[p] # "none"
    /\ p \notin SelfProfiles
    /\ sr.status = "new"
    /\ sr' = [sr EXCEPT !.provider = p, !.approved = "undecided"]
    /\ offers' = [offers EXCEPT ![p] = "selected"]
    /\ LogStatus("new")
    /\ UNCHANGED <<profiles, worker>>

\* AcceptOfferView: any offer may be chosen, and again while the request is NEW
AcceptOffer(p) ==
    /\ offers[p] # "none"
    /\ p \notin SelfProfiles
    /\ sr.status = "new"
    /\ sr' = [sr EXCEPT !.provider = p, !.approved = "undecided"]
    /\ offers' = [q \in Providers |->
                    CASE q = p                            -> "selected"
                      [] q # p /\ offers[q] = "none"      -> "none"
                      [] q # p /\ offers[q] # "none"      -> "rejected"]
    /\ LogStatus("new")
    /\ UNCHANGED <<profiles, worker>>

\* MyClientRequestDetailView.update, part 1: the status is checked on a row
\* read without a lock
EditCheck(w) ==
    /\ IsIdle(w)
    /\ sr.status = "new"
    /\ Hold(w, Job("edit", NoProvider, {}))
    /\ UNCHANGED <<sr, logged, offers, profiles>>

\* Part 2: title and description are saved, and logged under the status that
\* was read; both writes fail on a row that is gone
EditSave(w) ==
    /\ worker[w].op = "edit"
    /\ IF sr.status # "deleted" THEN LogStatus("new") ELSE UNCHANGED logged
    /\ Release(w)
    /\ UNCHANGED <<sr, offers, profiles>>

\* execute_action(action="cancel") by the client
ClientCancel ==
    /\ \/ sr.status = "new"
       \/ sr.rtype = "urgent" /\ sr.provider # NoProvider /\ BeforeExecution
    /\ sr' = Cancelled
    /\ LogStatus("cancelled")
    /\ UNCHANGED <<offers, profiles, worker>>

\* execute_action(action="relist")
Relist ==
    /\ sr.provider # NoProvider
    /\ RelistToPool
    /\ UNCHANGED <<profiles, worker>>

\* execute_action(action="reopen"): only status, provider and the
\* cancellation fields are written; the rest is left to the callback
Reopen(w) ==
    /\ IsIdle(w)
    /\ sr.status = "cancelled"
    /\ sr.rtype \in PoolTypes
    /\ sr' = [sr EXCEPT !.status = "new", !.provider = NoProvider]
    /\ LogStatus("new")
    /\ Hold(w, Job("redispatch", NoProvider, {}))
    /\ UNCHANGED <<offers, profiles>>

\* _redispatch_request_to_providers, run by transaction.on_commit
Redispatch(w) ==
    /\ worker[w].op = "redispatch"
    /\ offers' = IF sr.rtype = "competitive" THEN NoOffers ELSE offers
    /\ Release(w)
    /\ UNCHANGED <<sr, logged, profiles>>

\* Mutation: the approval is saved without its log entry
ApproveInputsUnlogged ==
    /\ sr.status = "awaiting_client"
    /\ sr.approved = "undecided"
    /\ sr' = [sr EXCEPT !.status = "in_progress", !.approved = "approved",
                        !.respond = {}]
    /\ UNCHANGED logged

\* execute_action(action="approve_inputs")
ApproveInputs ==
    /\ sr.status = "awaiting_client"
    /\ sr.approved = "undecided"
    /\ sr' = [sr EXCEPT !.status = "in_progress", !.approved = "approved",
                        !.respond = {}]
    /\ LogStatus("in_progress")

\* ProviderInputsDecisionView, part 1: the required responses are checked on
\* a row read without a lock
DecisionCheck(w, answer) ==
    /\ IsIdle(w)
    /\ sr.status # "deleted"
    /\ sr.respond \subseteq answer
    /\ Hold(w, Job("approve", NoProvider, answer))
    /\ UNCHANGED <<sr, logged, offers, profiles>>

\* Part 2: execute_action locks the row and decides
DecisionApply(w) ==
    /\ worker[w].op = "approve"
    /\ \/ ApproveInputs
       \/ /\ ~(sr.status = "awaiting_client" /\ sr.approved = "undecided")
          /\ UNCHANGED <<sr, logged>>
    /\ Release(w)
    /\ UNCHANGED <<offers, profiles>>

\* request_action: the request page posts approve_inputs with no response
PageApprove ==
    /\ ApproveInputs
    /\ UNCHANGED <<offers, profiles, worker>>

\* execute_action(action="reject_inputs")
RejectInputs ==
    /\ sr.status = "awaiting_client"
    /\ sr.approved = "undecided"
    /\ sr' = [sr EXCEPT !.status = ReturnStatus, !.approved = "rejected",
                        !.respond = {}]
    /\ LogStatus(ReturnStatus)
    /\ UNCHANGED <<offers, profiles, worker>>

\* hard_delete_request
HardDelete ==
    /\ BeforeExecution \/ sr.status = "cancelled"
    /\ RowDeleted
    /\ UNCHANGED <<profiles, worker>>

-----------------------------------------------------------------------------
(* The staff, through request_action and the API: cancel, relist, reopen,  *)
(* the decisions and the deletion share the actions above.                 *)

StaffAccept(p) ==
    /\ p \in StaffProfiles
    /\ AcceptGuard(p)
    /\ sr' = Accepted(p)
    /\ LogStatus("provider_accepted")
    /\ UNCHANGED <<offers, profiles, worker>>

\* Mutation: start() forgets its check of the status
StaffStartUnchecked ==
    /\ sr.status # "deleted"
    /\ sr' = [sr EXCEPT !.status = "in_progress"]
    /\ LogStatus("in_progress")
    /\ UNCHANGED <<offers, profiles, worker>>

\* ServiceRequest.start: from any status before the end, provider or not
StaffStart ==
    /\ sr.status \in PreExecution \cup {"in_progress"}
    /\ sr' = [sr EXCEPT !.status = "in_progress"]
    /\ LogStatus("in_progress")
    /\ UNCHANGED <<offers, profiles, worker>>

StaffComplete ==
    /\ sr.status = "in_progress"
    /\ sr' = [sr EXCEPT !.status = "completed"]
    /\ LogStatus("completed")
    /\ UNCHANGED <<offers, profiles, worker>>

-----------------------------------------------------------------------------
(* The environment *)

\* A worker dies between two commits, or its callback raises and the
\* exception is only logged
WorkerLost(w) ==
    /\ Crashes
    /\ ~IsIdle(w)
    /\ Release(w)
    /\ UNCHANGED <<sr, logged, offers, profiles>>

\* delete_account_view by a provider: ServiceRequest.provider is SET_NULL,
\* offers cascade
DeleteProviderAccount(p) ==
    /\ AccountDeletion
    /\ p \in profiles \ SelfProfiles
    /\ profiles' = profiles \ {p}
    /\ sr' = [sr EXCEPT !.provider = IF @ = p THEN NoProvider ELSE @]
    /\ offers' = [offers EXCEPT ![p] = "none"]
    /\ UNCHANGED <<logged, worker>>

\* delete_account_view by the client: the request cascades
DeleteClientAccount ==
    /\ AccountDeletion
    /\ sr.status # "deleted"
    /\ profiles' = profiles \ SelfProfiles
    /\ RowDeleted
    /\ UNCHANGED worker

-----------------------------------------------------------------------------

ProviderStep(p) ==
    \/ UrgentAccept(p) \/ AssignedAccept(p) \/ ProviderReject(p)
    \/ \E required \in SUBSET Responses, d \in BOOLEAN : ProgressUpdate(p, required, d)
    \/ SubmitDetails(p) \/ Complete(p) \/ ProviderCancel(p)
    \/ StaffAccept(p) \/ AcceptOffer(p) \/ DeleteProviderAccount(p)

RequestStep ==
    \/ EngagedCancel \/ ClientCancel \/ Relist
    \/ PageApprove \/ RejectInputs \/ HardDelete
    \/ StaffStart \/ StaffComplete \/ DeleteClientAccount

WorkerStep(w) ==
    \/ \E p \in Providers : LegacyAcceptRead(w, p) \/ CreateOfferCheck(w, p)
    \/ \E answer \in SUBSET Responses : DecisionCheck(w, answer)
    \/ LegacyAcceptUpdate(w) \/ LegacyAcceptLog(w)
    \/ CreateOfferInsert(w) \/ DecisionApply(w)
    \/ EditCheck(w) \/ EditSave(w)
    \/ Reopen(w) \/ Redispatch(w) \/ WorkerLost(w)

Next ==
    \/ \E p \in Providers : ProviderStep(p)
    \/ RequestStep
    \/ \E w \in Workers : WorkerStep(w)

Spec == Init /\ [][Next]_vars

-----------------------------------------------------------------------------
(* Properties *)

\* A request that was accepted, or whose details wait for the client, has a
\* provider; only the deletion of an account may take it away.
AssignedWhenEngaged ==
    sr.status \in {"provider_accepted", "awaiting_client"} =>
        sr.provider # NoProvider \/ profiles # Providers

\* Two acceptances never both win: a request passes from one provider to
\* another only by the choice of an offer of the second while it is NEW.
PassesOnlyByOffer ==
    /\ sr.provider # NoProvider
    /\ sr'.provider \notin {NoProvider, sr.provider}
    => /\ sr.rtype = "competitive"
       /\ sr.status = "new" /\ sr'.status = "new"
       /\ offers'[sr'.provider] = "selected"

ExclusiveAssignment == [][PassesOnlyByOffer]_vars

\* The stage of a submission is read from the status log: no request is in
\* execution, or completed, without the log entry that says so, although a
\* rejection, an approval and the staff all lead there.
ExecutionLogged ==
    sr.status \in {"in_progress", "completed"} => "in_progress" \in logged

\* Once execution has started, an update of its progress, its rejection, a
\* relisting or a refusal never send the request back to the pool or to
\* acceptance; it ends, or it goes on.
StaysOutOfPool ==
    sr.status \in {"awaiting_client", "in_progress"} /\ "in_progress" \in logged
    => sr'.status \notin {"new", "provider_accepted"}

NeverBackToPool == [][StaysOutOfPool]_vars

\* A request waiting for its client can always be decided: approve_inputs and
\* reject_inputs both refuse one already decided.
AwaitingUndecided ==
    sr.status = "awaiting_client" => sr.approved = "undecided"

\* What the client is asked to approve before execution has its delivery date
\* and amounts, whichever endpoint, cancellation or reopening came before.
SubmissionComplete ==
    sr.status = "awaiting_client" /\ "in_progress" \notin logged => sr.details

\* The stages of a request come in their order: what the client is asked to
\* decide is complete and undecided, and what is executed is in the log.
StagesInOrder == ExecutionLogged /\ AwaitingUndecided /\ SubmissionComplete

\* While no reopening is waiting for its callback, a request that has a
\* provider has no offer selected but that provider's own: a later choice, a
\* relisting or an acceptance by the staff leaves no second winner.
SelectedOfferOwner ==
    (\A w \in Workers : worker[w].op # "redispatch") =>
        \A p \in Providers :
            offers[p] = "selected" /\ sr.provider # NoProvider => sr.provider = p

\* Every status the row reaches has its log entry, except while the worker of
\* a legacy acceptance is between its UPDATE and its log.
AuditTrail ==
    sr.status \in RequestStatus =>
        \/ sr.status \in logged \cup {"new"}
        \/ \E w \in Workers : worker[w].op = "legacy_log"

\* A competitive request back in the pool carries no decided offer of an
\* earlier round, once the callback of the reopening has run.
PoolOffersFresh ==
    /\ sr.rtype = "competitive" /\ sr.status = "new" /\ sr.provider = NoProvider
    /\ \A w \in Workers : worker[w].op # "redispatch"
    => \A p \in Providers : offers[p] \in {"none", "pending"}

-----------------------------------------------------------------------------
(* The contract of a request, and this module as an implementation of it.  *)
(* A submission counts as execution when the status log already holds an   *)
(* entry in_progress: that is how the code tells the two stages apart.     *)

Phase ==
    CASE sr.status = "new"                                   -> "open"
      [] sr.status = "provider_accepted"                     -> "engaged"
      [] sr.status = "awaiting_client" /\ ~ProgressStage     -> "engaged"
      [] sr.status = "in_progress" \/ ProgressStage          -> "executing"
      [] sr.status = "deleted"                               -> "gone"
      [] OTHER                                               -> sr.status

Contract == INSTANCE RequestContract WITH phase <- Phase, owner <- sr.provider

\* Every handler, callback and account deletion is one step of the contract,
\* or leaves it where it is: the owner changes hands only through the pool or
\* the client's choice, execution never goes back, and completion is final.
ImplementsContract == Contract!Spec
=============================================================================
