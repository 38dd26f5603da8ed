----------------------------- MODULE Verification -----------------------------
(***************************************************************************)
(* The verification requests of one provider for one badge code            *)
(* (backend/apps/verification): review, final approval and invoice, the    *)
(* receiver of the invoice's saves, the badges, the mark on the profile    *)
(* and the job that expires them.                                          *)
(*                                                                         *)
(* Services lock the request and are one step each.  The job commits after *)
(* each of its statements and may be killed between two of them; the       *)
(* staff's form and the application check statuses before they write.      *)
(***************************************************************************)
EXTENDS Naturals, FiniteSets

CONSTANTS
    MaxRequests,   \* bound on the VerificationRequest rows
    MaxKills       \* bound on the times the job is killed

ASSUME VerificationAssumption == MaxRequests \in Nat /\ MaxKills \in Nat

VARIABLES
    requests,    \* the requests by id, with their invoices
    badges,      \* requests whose VerifiedBadge row is active
    verified,    \* is_verified_* of the profile
    applicants,  \* applications that have passed the check for an open request
    form,        \* the request that the staff's form has read as editable, or 0
    job,         \* the expiry job
    kills,       \* how often it was killed
    deaf         \* requests whose receiver failed at the last save

verificationVars ==
    <<requests, badges, verified, applicants, form, job, kills, deaf>>

RequestIds == 1..MaxRequests
Editable == {"new", "in_review", "rejected"}
Blocking == {"new", "in_review", "approved", "pending_payment", "active"}
VerificationStatus == Editable \cup Blocking \cup {"expired"}

\* decision: of the reviewer on the requirement.  lapsed: past expires_at.
\* inv: whether the payment is in force, which is all that is asked of it.
NewRequest == [status |-> "new", decision |-> "none", lapsed |-> FALSE, inv |-> "none", free |-> FALSE]
NoRequest == [NewRequest EXCEPT !.status = "none"]
IdleJob == [step |-> "idle", ids |-> {}, mark |-> FALSE]

VerificationTypeOK ==
    /\ requests \in [RequestIds -> [status : VerificationStatus \cup {"none"},
                                    decision : {"none", "yes", "no"}, lapsed : BOOLEAN,
                                    inv : {"none", "unpaid", "paid"}, free : BOOLEAN]]
    /\ badges \subseteq RequestIds /\ deaf \subseteq RequestIds
    /\ form \in 0..MaxRequests /\ verified \in BOOLEAN
    /\ applicants \in 0..MaxRequests /\ kills \in 0..MaxKills
    /\ job \in [step : {"idle", "listed", "marked", "cleared", "read"},
                ids : SUBSET RequestIds, mark : BOOLEAN]

VerificationInit ==
    /\ requests = [i \in RequestIds |-> NoRequest]
    /\ badges = {} /\ verified = FALSE
    /\ applicants = 0 /\ form = 0
    /\ job = IdleJob /\ kills = 0
    /\ deaf = {}
-----------------------------------------------------------------------------
Requested == {i \in RequestIds : requests[i].status # "none"}
OpenRequests(except) == {i \in Requested \ except : requests[i].status \in Blocking}
NextRequest == Cardinality(Requested) + 1
RoomForOne == Cardinality(Requested) + applicants < MaxRequests

\* sync_provider_badges: what the mark on the profile should be
Shown(rows, active) == \E i \in active : ~rows[i].lapsed

\* Mutation: a save of the request leaves its badges alone
KeptWhatever(rows, active, i) == active

\* sync_verification_request_badge_state, at every save of the request
Kept(rows, active, i) ==
    IF rows[i].status = "active" /\ ~rows[i].lapsed /\ rows[i].inv = "paid"
    THEN active ELSE active \ {i}

\* Mutation: the profile is brought in line before the badges change
SyncedBefore(rows, active) ==
    /\ requests' = rows
    /\ badges' = active
    /\ verified' = Shown(rows, badges)

\* The rows become these, and the profile follows
Synced(rows, active) ==
    /\ requests' = rows
    /\ badges' = active
    /\ verified' = Shown(rows, active)

Save(rows, i) == Synced(rows, Kept(rows, badges, i))

OthersUnchanged == UNCHANGED <<applicants, form, job, kills, deaf>>

\* Mutation: the previous badges are looked for by request
BadgedBeside(active, i) == active \cup {i}

\* The badge of the request replaces those of the same code
Badged(active, i) == {i}

\* activate_after_payment
Activates(rows, i) ==
    rows[i].decision = "yes" /\ rows[i].status \in {"approved", "pending_payment"}
ActivatedRow(row) == [row EXCEPT !.status = "active", !.lapsed = FALSE]

\* revoke_after_payment_reversal
RevokedRow(row) ==
    [row EXCEPT !.lapsed = FALSE,
                !.status = IF ~row.free THEN "pending_payment"
                           ELSE IF @ = "active" THEN "approved" ELSE @]
-----------------------------------------------------------------------------
(* The provider and the staff *)

\* VerificationRequestCreateSerializer.create looks for an open request ...
Apply ==
    /\ OpenRequests({}) = {} /\ RoomForOne
    /\ applicants' = applicants + 1
    /\ UNCHANGED <<requests, badges, verified, form, job, kills, deaf>>

\* ... and creates one
Create ==
    /\ applicants > 0
    /\ applicants' = applicants - 1
    /\ Synced([requests EXCEPT ![NextRequest] = NewRequest], badges)
    /\ UNCHANGED <<form, job, kills, deaf>>

\* create_renewal_request_from_verified_badge
Renew(i) ==
    /\ i \in badges /\ OpenRequests({i}) = {} /\ RoomForOne
    /\ Synced([requests EXCEPT ![NextRequest] = NewRequest], badges)
    /\ OthersUnchanged

\* Mutation: a status of the subscriptions
InOtherReview(row) ==
    [row EXCEPT !.status = IF @ \in {"new", "rejected"} THEN "awaiting_review" ELSE @]

\* mark_request_in_review
InReview(row) == [row EXCEPT !.status = IF @ \in {"new", "rejected"} THEN "in_review" ELSE @]

\* An upload of a document or attachment
Upload(i) ==
    /\ i \in Requested /\ requests[i].status \in {"new", "rejected"}
    /\ Save([requests EXCEPT ![i] = InReview(@)], i)
    /\ OthersUnchanged

\* decide_requirement, whatever the status of the request
Decide(i, d) ==
    /\ i \in Requested /\ d \in {"yes", "no"}
    /\ LET rows == [requests EXCEPT ![i] = [InReview(@) EXCEPT !.decision = d]] IN
       IF rows[i].status = requests[i].status
       THEN requests' = rows /\ UNCHANGED <<badges, verified>>
       ELSE Save(rows, i)
    /\ OthersUnchanged

\* The dashboard reads a request that may be edited ...
OpenForm(i) ==
    /\ form = 0 /\ i \in Requested /\ requests[i].status \in Editable
    /\ form' = i
    /\ UNCHANGED <<requests, badges, verified, applicants, job, kills, deaf>>

\* ... and saves the status that the staff chose
SaveForm(i, s) ==
    /\ i = form /\ s \in {"new", "in_review"}
    /\ form' = 0
    /\ Save([requests EXCEPT ![i].status = s], i)
    /\ UNCHANGED <<applicants, job, kills, deaf>>

\* finalize_request_and_create_invoice: no status is refused
Finalize(i, free) ==
    /\ i \in Requested /\ requests[i].decision # "none"
    /\ LET row == requests[i]
           approved == [row EXCEPT !.status = "approved"]
           rejected == [row EXCEPT !.status = "rejected"]
           billed == [approved EXCEPT !.status = "pending_payment", !.inv = "unpaid"]
           given == [ActivatedRow(approved) EXCEPT !.inv = "paid", !.free = TRUE] IN
       \/ /\ row.decision = "no"
          /\ Save([requests EXCEPT ![i] = rejected], i)
       \/ /\ row.decision = "yes" /\ row.inv # "none"
          /\ Save([requests EXCEPT ![i] = approved], i)
       \/ /\ row.decision = "yes" /\ row.inv = "none" /\ ~free
          /\ Save([requests EXCEPT ![i] = billed], i)
       \/ /\ row.decision = "yes" /\ row.inv = "none" /\ free
          /\ LET rows == [requests EXCEPT ![i] = given] IN
             Synced(rows, Badged(badges, i))
    /\ OthersUnchanged

\* deactivate_verified_badge
Deactivate(i) ==
    /\ i \in badges
    /\ Synced(requests, badges \ {i})
    /\ OthersUnchanged
-----------------------------------------------------------------------------
(* Payment *)

\* A free invoice is paid from the start and offered for no payment
Billed(i) == requests[i].inv # "none" /\ ~requests[i].free

\* activate_verification_on_invoice_paid: billing saves the invoice after an
\* attempt or an event
Pay(i, state) ==
    /\ Billed(i) /\ state \in {"unpaid", "paid"}
    /\ LET paid == [requests EXCEPT ![i].inv = state] IN
       IF state # "paid" THEN Save([paid EXCEPT ![i] = RevokedRow(@)], i)
       ELSE IF Activates(paid, i)
            THEN LET rows == [paid EXCEPT ![i] = ActivatedRow(@)] IN
                 Synced(rows, Badged(badges, i))
            ELSE requests' = paid /\ UNCHANGED <<badges, verified>>
    /\ deaf' = deaf \ {i}
    /\ UNCHANGED <<applicants, form, job, kills>>

\* The requests of a provider are paid one at a time: their receivers lock the
\* row of the requester.  But an activation that holds it waits for the badge
\* it replaces, and the deactivation of that badge holds the badge and waits
\* for the requester: the receiver loses, and leaves its request as it was
ActivationUnheard(i) ==
    /\ Billed(i) /\ badges # {}
    /\ LET paid == [requests EXCEPT ![i].inv = "paid"] IN
       Activates(paid, i) /\ requests' = paid
    /\ deaf' = deaf \cup {i}
    /\ UNCHANGED <<badges, verified, applicants, form, job, kills>>

\* A reversal holds the request and waits for its badge, the deactivation
\* of the badge holds it and waits for the request: the receiver loses
PayUnheard(i) ==
    /\ Billed(i) /\ i \in badges
    /\ Synced([requests EXCEPT ![i].inv = "unpaid"], badges \ {i})
    /\ deaf' = deaf \cup {i}
    /\ UNCHANGED <<applicants, form, job, kills>>
-----------------------------------------------------------------------------
(* Time and the job *)

Lapse(i) ==
    /\ i \in Requested /\ ~requests[i].lapsed
    /\ requests[i].status = "active" \/ i \in badges
    /\ requests' = [requests EXCEPT ![i].lapsed = TRUE]
    /\ UNCHANGED <<badges, verified>> /\ OthersUnchanged

Due == {i \in Requested : requests[i].status = "active" /\ requests[i].lapsed}

JobStep(from, to, ids, mark) ==
    /\ job.step = from
    /\ job' = IF to = "idle" THEN IdleJob ELSE [step |-> to, ids |-> ids, mark |-> mark]
    /\ UNCHANGED <<applicants, form, kills, deaf>>

\* expire_verified_badges_and_sync lists the requests that are due,
ListDue ==
    /\ Due # {}
    /\ JobStep("idle", "listed", Due, FALSE)
    /\ UNCHANGED <<requests, badges, verified>>

\* marks them, whatever has become of them,
MarkExpired ==
    /\ JobStep("listed", "marked", job.ids, FALSE)
    /\ requests' = [i \in RequestIds |-> IF i \in job.ids THEN [requests[i] EXCEPT !.status = "expired"]
                                         ELSE requests[i]]
    /\ UNCHANGED <<badges, verified>>

\* Mutation: the badges are looked for by the status of their requests
ClearedIfActive(active, ids) == active \ {i \in ids : requests[i].status = "active"}

Cleared(active, ids) == active \ ids

\* clears their badges,
ClearBadges ==
    /\ JobStep("marked", "cleared", {}, FALSE)
    /\ badges' = Cleared(badges, job.ids)
    /\ UNCHANGED <<requests, verified>>

\* reads which badges are left
ReadBadges ==
    /\ JobStep("cleared", "read", {}, Shown(requests, badges))
    /\ UNCHANGED <<requests, badges, verified>>

\* and writes the mark
WriteMark ==
    /\ JobStep("read", "idle", {}, FALSE)
    /\ verified' = job.mark
    /\ UNCHANGED <<requests, badges>>

\* The worker dies
Kill ==
    /\ job.step # "idle" /\ kills < MaxKills
    /\ job' = IdleJob /\ kills' = kills + 1
    /\ UNCHANGED <<requests, badges, verified, applicants, form, deaf>>

RunJob == ListDue \/ MarkExpired \/ ClearBadges \/ ReadBadges \/ WriteMark

VerificationNext ==
    \/ Apply \/ Create \/ RunJob \/ Kill
    \/ \E i \in RequestIds :
         \/ Renew(i) \/ Upload(i) \/ OpenForm(i) \/ Deactivate(i) \/ Lapse(i)
         \/ \E d \in {"yes", "no"} : Decide(i, d)
         \/ \E s \in {"new", "in_review"} : SaveForm(i, s)
         \/ \E free \in BOOLEAN : Finalize(i, free)
         \/ \E s \in {"unpaid", "paid"} : Pay(i, s)
         \/ ActivationUnheard(i) \/ PayUnheard(i)

VerificationSpec == VerificationInit /\ [][VerificationNext]_verificationVars

\* Celery beat starts the job again and again, and time passes
FairVerificationSpec ==
    /\ VerificationSpec
    /\ WF_verificationVars(RunJob)
    /\ \A i \in RequestIds : WF_verificationVars(Lapse(i))
-----------------------------------------------------------------------------
(* Properties *)

\* Nobody carries a badge without an approved request and a payment in
\* force, whatever is reviewed, refunded or edited in between.  An expired
\* request has one only while the job is at it, or was killed at it.
BadgeBacked ==
    \A i \in badges :
      /\ requests[i].inv = "paid"
      /\ \/ requests[i].status = "active"
         \/ /\ requests[i].status = "expired"
            /\ (job.step = "marked" /\ i \in job.ids) \/ kills > 0

\* A request is active only with its payment in force, if the receiver was
\* heard.
ActivePaid ==
    \A i \in Requested \ deaf : requests[i].status = "active" => requests[i].inv = "paid"

\* One badge of a code at a time, renewals included, whatever payments and
\* deactivations cross.
OneBadge == Cardinality(badges) <= 1

\* Whoever changes the badges of a provider brings the mark on the profile
\* in line; only the job does so later.
MarkSynced ==
    [][badges' # badges /\ job' = job => (verified' <=> Shown(requests', badges'))]_verificationVars

\* What happens to other requests never takes the last badge away: a renewal
\* replaces it when it is paid, and not before.
BadgeNotLost ==
    [][ badges # {} /\ badges' = {} /\ requests' # requests =>
          \E i \in badges : requests'[i] # requests[i] ]_verificationVars

\* A badge whose time is over ends, if the job is not killed between two of
\* its statements.
BadgeEnds ==
    \A i \in RequestIds :
      i \in badges /\ requests[i].lapsed ~> (~(i \in badges /\ requests[i].lapsed) \/ kills > 0)

\* An active request is paid for, and gives one badge.
ActiveOnce == ActivePaid /\ OneBadge

\* A change of badges is a change of the mark, and takes no badge of others.
BadgeSteps == MarkSynced /\ BadgeNotLost
===============================================================================
