----------------------------- MODULE ExtrasBundle -----------------------------
(***************************************************************************)
(* A request for a bundle of extra services (backend/apps/extras): the     *)
(* staff moves it along and issues its invoice, the receiver of the        *)
(* invoice's saves reacts to a late payment, a closed request opens the    *)
(* provider's portal, and a job of extras_portal expires the portal.       *)
(*                                                                         *)
(* The dashboard works without a transaction: a clerk reads the request or *)
(* the invoice, checks it, and writes it in later statements, whatever has *)
(* become of it.  The job lists what is due and saves it later.            *)
(***************************************************************************)
EXTENDS Naturals, Invoices

CONSTANTS Clerks   \* members of the staff at work

VARIABLES
    request,     \* status of the UnifiedRequest
    bill,        \* its invoice, whether it has a payment attempt and whether
                 \* the time paid for is over
    portal,      \* the ExtrasPortalSubscription, and whether ends_at is past
    clerks,      \* what each clerk does, with what it has read
    portalJob,   \* the job has listed the portal as due
    jobCrossed,  \* the portal was activated while it was listed
    paidUnder,   \* a payment came while a clerk was writing the invoice
    staleClerk,  \* a clerk wrote a request that had changed since it was read
    leftHalf     \* a clerk's process died between closing and activating

bundleVars ==
    <<request, bill, portal, clerks, portalJob, jobCrossed, paidUnder, staleClerk, leftHalf>>

BundleStatus == {"new", "in_progress", "closed"}
BillStates == InvoiceStates \cup {"none", "draft"}
AtDesk == [step |-> "idle", read |-> "new", want |-> "new", inv |-> "none"]

BundleTypeOK ==
    /\ request \in BundleStatus
    /\ bill \in [state : BillStates, attempt : BOOLEAN, over : BOOLEAN]
    /\ portal \in [status : {"none", "active", "inactive"}, over : BOOLEAN]
    /\ clerks \in [Clerks -> [step : {"idle", "editing", "closing", "checked", "drafted",
                                      "refreshed", "issued"},
                              read : BundleStatus, want : BundleStatus, inv : BillStates]]
    /\ {portalJob, jobCrossed, paidUnder, staleClerk, leftHalf} \subseteq BOOLEAN

BundleInit ==
    /\ request = "new"
    /\ bill = [state |-> "none", attempt |-> FALSE, over |-> FALSE]
    /\ portal = [status |-> "none", over |-> FALSE]
    /\ clerks = [c \in Clerks |-> AtDesk]
    /\ portalJob = FALSE /\ jobCrossed = FALSE
    /\ paidUnder = FALSE /\ staleClerk = FALSE /\ leftHalf = FALSE
-----------------------------------------------------------------------------
BillPaid(b) == b.state = "paid"
AtStep(c, step) == clerks[c].step = step
To(c, step) == clerks' = [clerks EXCEPT ![c].step = step]
Done(c) == clerks' = [clerks EXCEPT ![c] = AtDesk]

\* Mutation: a portal that has expired stays so
OpenedOnce(p, b) ==
    IF p.status = "none" THEN [status |-> "active", over |-> b.over] ELSE [p EXCEPT !.over = @ /\ b.over]

\* activate_bundle_portal_subscription_for_request: the later end counts
Opened(p, b) ==
    [status |-> "active", over |-> IF p.status = "none" THEN b.over ELSE p.over /\ b.over]

Activate(b) ==
    /\ portal' = Opened(portal, b)
    /\ jobCrossed' = (jobCrossed \/ portalJob)

\* activate_extra_on_paid: a payment that comes after the closing opens it
Healed(b) ==
    IF BillPaid(b) /\ request = "closed" THEN Activate(b) ELSE UNCHANGED <<portal, jobCrossed>>

SaveBill(b) == bill' = b /\ Healed(b)

\* EXTRAS_REQUEST_ALLOWED_TRANSITIONS
Allowed(read, want) ==
    want \in CASE read = "new"         -> {"new", "in_progress"}
               [] read = "in_progress" -> {"in_progress", "closed"}
               [] OTHER                -> {"closed"}
-----------------------------------------------------------------------------
(* save_extras_request: the request is read, and a status that may follow  *)
(* is chosen ...                                                           *)

OpenBundle(c, want) ==
    /\ AtStep(c, "idle") /\ Allowed(request, want)
    /\ clerks' = [clerks EXCEPT ![c] = [AtDesk EXCEPT !.step = "editing", !.read = request, !.want = want]]
    /\ UNCHANGED <<request, bill, portal, portalJob, jobCrossed, paidUnder, staleClerk, leftHalf>>

\* ... a closing asks the invoice once more ...
Closable(c) == clerks[c].read = "in_progress" /\ BillPaid(bill)

\* ... and the status is written over whatever it is
WriteBundle(c) ==
    /\ AtStep(c, "editing")
    /\ IF clerks[c].want = "closed" /\ ~Closable(c)
       THEN /\ Done(c)
            /\ UNCHANGED <<request, staleClerk>>
       ELSE /\ request' = clerks[c].want
            /\ staleClerk' = (staleClerk \/ request # clerks[c].read)
            /\ IF clerks[c].want = "closed" THEN To(c, "closing") ELSE Done(c)
    /\ UNCHANGED <<bill, portal, portalJob, jobCrossed, paidUnder, leftHalf>>

\* A closed request opens the portal, unless the process dies before
OpenPortal(c) ==
    /\ AtStep(c, "closing")
    /\ Done(c)
    /\ \/ Activate(bill) /\ UNCHANGED leftHalf
       \/ leftHalf' = TRUE /\ UNCHANGED <<portal, jobCrossed>>
    /\ UNCHANGED <<request, bill, portalJob, paidUnder, staleClerk>>
-----------------------------------------------------------------------------
(* issue_extras_invoice and create_manual_extras_invoice: the request and  *)
(* the invoice are checked,                                                *)

\* Mutation: an invoice is issued anew whatever was paid
IssuableAnew == request \in {"new", "in_progress"}

Issuable == request \in {"new", "in_progress"} /\ ~BillPaid(bill)

CheckBill(c) ==
    /\ AtStep(c, "idle") /\ Issuable
    /\ clerks' = [clerks EXCEPT ![c] = [AtDesk EXCEPT !.step = "checked", !.read = request]]
    /\ UNCHANGED <<request, bill, portal, portalJob, jobCrossed, paidUnder, staleClerk, leftHalf>>

\* the invoice becomes a draft without lines,
DraftBill(c) ==
    /\ AtStep(c, "checked")
    /\ SaveBill([bill EXCEPT !.state = "draft"])
    /\ To(c, "drafted")
    /\ UNCHANGED <<request, portalJob, paidUnder, staleClerk, leftHalf>>

\* is read again with its new lines,
ReadBill(c) ==
    /\ AtStep(c, "drafted")
    /\ clerks' = [clerks EXCEPT ![c].step = "refreshed", ![c].inv = bill.state]
    /\ UNCHANGED <<request, bill, portal, portalJob, jobCrossed, paidUnder, staleClerk, leftHalf>>

\* pending if it was read as a draft, gets an attempt if it has none,
IssueBill(c) ==
    /\ AtStep(c, "refreshed")
    /\ SaveBill([bill EXCEPT !.state = IF clerks[c].inv = "draft" THEN "unpaid" ELSE clerks[c].inv,
                              !.attempt = TRUE])
    /\ To(c, "issued")
    /\ UNCHANGED <<request, portalJob, paidUnder, staleClerk, leftHalf>>

\* and the request is in progress, whatever it is by now
WriteIssued(c) ==
    /\ AtStep(c, "issued")
    /\ request' = "in_progress"
    /\ staleClerk' = (staleClerk \/ request # clerks[c].read)
    /\ Done(c)
    /\ UNCHANGED <<bill, portal, portalJob, jobCrossed, paidUnder, leftHalf>>
-----------------------------------------------------------------------------
(* Billing saves the invoice, and time passes                              *)

BillMoves ==
    IF ~bill.attempt THEN {}
    ELSE (IF bill.state = "paid" THEN {} ELSE {"unpaid"})
           \cup {After(kind, bill.state) : kind \in EventKinds \ {"other"}}

\* A payment, the second one too, begins a new time
SettleBill(state) ==
    /\ state \in BillMoves
    /\ SaveBill([bill EXCEPT !.state = state, !.over = @ /\ state # "paid"])
    /\ paidUnder' = (paidUnder \/
         \E c \in Clerks : clerks[c].step \in {"checked", "drafted", "refreshed"})
    /\ UNCHANGED <<request, clerks, portalJob, staleClerk, leftHalf>>

\* The time of the last payment, and the portal's
YearEnds ==
    /\ \/ BillPaid(bill) /\ ~bill.over
       \/ portal.status # "none" /\ ~portal.over
    /\ bill' = [bill EXCEPT !.over = TRUE]
    /\ portal' = [portal EXCEPT !.over = portal.status # "none"]
    /\ UNCHANGED <<request, clerks, portalJob, jobCrossed, paidUnder, staleClerk, leftHalf>>

\* expire_due_portal_subscriptions lists what is due ...
ListPortal ==
    /\ ~portalJob /\ portal.status = "active" /\ portal.over
    /\ portalJob' = TRUE
    /\ UNCHANGED <<request, bill, portal, clerks, jobCrossed, paidUnder, staleClerk, leftHalf>>

Shut == portal' = [portal EXCEPT !.status = "inactive"]

\* ... and saves it, whatever its end is by now
ExpirePortal ==
    /\ portalJob /\ portalJob' = FALSE
    /\ Shut
    /\ UNCHANGED <<request, bill, clerks, jobCrossed, paidUnder, staleClerk, leftHalf>>

BundleNext ==
    \/ \E c \in Clerks :
         \/ \E want \in BundleStatus : OpenBundle(c, want)
         \/ WriteBundle(c) \/ OpenPortal(c)
         \/ CheckBill(c) \/ DraftBill(c) \/ ReadBill(c) \/ IssueBill(c) \/ WriteIssued(c)
    \/ \E s \in InvoiceStates : SettleBill(s)
    \/ YearEnds \/ ListPortal \/ ExpirePortal

BundleSpec == BundleInit /\ [][BundleNext]_bundleVars

\* Beat runs the job for ever
FairBundleSpec == BundleSpec /\ WF_bundleVars(ListPortal) /\ WF_bundleVars(ExpirePortal)
-----------------------------------------------------------------------------
(* Properties *)

\* Who has a closed request and a payment in force whose time is not over
\* has the portal, in whatever order the closing, the payment and the job
\* came, unless the job crossed an activation, a clerk wrote what he had
\* read before, or his process died.
PortalServed ==
    \/ request # "closed" \/ ~BillPaid(bill) \/ bill.over
    \/ portal.status = "active"
    \/ jobCrossed \/ leftHalf \/ staleClerk
    \/ \E c \in Clerks : AtStep(c, "closing")

\* The staff never takes a payment back: an invoice that was paid becomes
\* something else by an event, unless it was paid while it was being issued.
PaymentStands ==
    [][ BillPaid(bill) /\ ~BillPaid(bill') =>
          bill'.state \in {"refunded", "cancelled"} \/ paidUnder ]_bundleVars

\* A closed request stays closed, unless a clerk wrote what he had read
\* before.
ClosedStays == [][request = "closed" /\ request' # "closed" => staleClerk']_bundleVars

\* A portal whose time is over is shut, or gets more time.
PortalEnds == (portal.status = "active" /\ portal.over) ~> (portal.status # "active" \/ ~portal.over)
===============================================================================
