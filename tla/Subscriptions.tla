---------------------------- MODULE Subscriptions ----------------------------
(***************************************************************************)
(* The subscriptions of one provider (backend/apps/subscriptions): the     *)
(* checkout, the invoice and the receiver of its saves, the activation by  *)
(* the staff, the passage of time and the one current subscription.        *)
(*                                                                         *)
(* Transactions of several steps are jobs that hold row locks between      *)
(* their steps.  A payment event locks the invoice and then, in the        *)
(* receiver, the subscription; a checkout being updated or cancelled locks *)
(* them the other way round, and the database breaks the deadlock by       *)
(* failing either of them.  The receiver swallows its failure.             *)
(***************************************************************************)
EXTENDS Naturals, FiniteSets, Invoices

CONSTANTS
    MaxSubs,   \* bound on the Subscription rows
    Plans,     \* plans by their order; 0 is the free basic plan
    Workers    \* web processes

ASSUME SubscriptionsAssumption == MaxSubs \in Nat /\ Plans \subseteq Nat /\ 0 \in Plans

VARIABLES
    subs,      \* the Subscription rows by id, with their invoices
    jobs,      \* the transaction each worker is in
    unheard,   \* rows whose receiver failed at the last save of the invoice
    overlap    \* two entitlements have been in the making at a time

subscriptionVars == <<subs, jobs, unheard, overlap>>

Ids == 1..MaxSubs
SubStatus == {"pending_payment", "awaiting_review", "active", "grace", "expired", "cancelled"}

\* clock: where now is between end_at and grace_end_at.  whole: the payment
\* on record is the total of the invoice.
Row(plan, status, clock, inv) ==
    [plan |-> plan, status |-> status, clock |-> clock, inv |-> inv, whole |-> TRUE]
NoRow == Row(0, "none", "none", "none")
GoneRow == Row(0, "gone", "none", "none")

Ops == {"idle", "basic", "grant", "create", "found", "update", "remove", "activate", "renew", "bill"}
Job(op, i, plan, others) == [op |-> op, sub |-> i, plan |-> plan, others |-> others]
NoJob == Job("idle", 0, 0, {})

SubscriptionsTypeOK ==
    /\ subs \in [Ids -> [plan : Plans, status : SubStatus \cup {"none", "gone"},
                         clock : {"none", "running", "ended", "over"},
                         inv : InvoiceStates \cup {"none"}, whole : BOOLEAN]]
    /\ jobs \in [Workers -> [op : Ops, sub : Ids \cup {0}, plan : Plans, others : SUBSET Ids]]
    /\ unheard \subseteq Ids
    /\ overlap \in BOOLEAN

SubscriptionsInit ==
    /\ subs = [i \in Ids |-> NoRow]
    /\ jobs = [w \in Workers |-> NoJob]
    /\ unheard = {}
    /\ overlap = FALSE

-----------------------------------------------------------------------------
(* Rows, locks and jobs *)

Made == {i \in Ids : subs[i].status \notin {"none", "gone"}}
CurrentIn(rows) == {i \in Ids : rows[i].status \in {"active", "grace"}}
Current == CurrentIn(subs)

\* Ids are never used again
Unborn == {i \in Ids : subs[i].status = "none"}
NextId == CHOOSE i \in Unborn : \A j \in Unborn : i <= j

Latest(ids) == CHOOSE i \in ids : \A j \in ids : j <= i

Locks(w) ==
    IF jobs[w].op \in {"update", "remove", "activate"}
    THEN {jobs[w].sub} \cup jobs[w].others ELSE {}
Unlocked(ids) == \A w \in Workers : Locks(w) \cap ids = {}

Idle(w) == jobs[w].op = "idle"
Do(w, job) == jobs' = [jobs EXCEPT ![w] = job]

Making == {w \in Workers : jobs[w].op \in {"activate", "grant"}}
NoteOverlap(w) == overlap' = (overlap \/ Making \ {w} # {})

\* _subscription_priority without the time of the start: ties are left open
Above(a, b) ==
    \/ a.plan > 0 /\ b.plan = 0
    \/ (a.plan > 0 <=> b.plan > 0) /\ a.status = "active" /\ b.status = "grace"
Effectives(rows, ids) == {i \in ids : \A j \in ids : ~Above(rows[j], rows[i])}

Cancelled(rows, ids) ==
    [i \in Ids |-> IF i \in ids THEN [rows[i] EXCEPT !.status = "cancelled"] ELSE rows[i]]

\* Mutation: nothing is picked when the preferred subscription is not current
NormalizedUnpicked(rows, preferred) == {Cancelled(rows, CurrentIn(rows) \ {preferred})}

\* normalize_user_current_subscriptions: what may become of the rows
Normalized(rows, preferred) ==
    LET current == CurrentIn(rows)
        kept == IF preferred \in current THEN {preferred} ELSE Effectives(rows, current) IN
    IF current = {} THEN {rows} ELSE {Cancelled(rows, current \ {e}) : e \in kept}

-----------------------------------------------------------------------------
(* The checkout *)

Undecided(p) == {i \in Made : subs[i].plan = p /\ subs[i].status \in {"pending_payment", "awaiting_review"}}
Payable(p) == {i \in Undecided(p) : subs[i].status = "pending_payment"}

\* start_subscription_checkout reads what the offer says to do; what it
\* refuses is not a step
StartCheckout(w, p) ==
    /\ Idle(w)
    /\ \/ /\ Payable(p) # {}
          /\ Do(w, Job("found", Latest(Payable(p)), p, {}))
       \/ /\ Undecided(p) = {} /\ p = 0
          /\ \E e \in Effectives(subs, Current) \cup {0} :
               /\ e = 0 <=> Current = {}
               /\ e # 0 => subs[e].plan = 0
          /\ Do(w, Job("basic", 0, p, {}))
       \/ /\ Undecided(p) = {} /\ p # 0
          /\ \E e \in Effectives(subs, Current) \cup {0} :
               /\ e = 0 <=> Current = {}
               /\ e # 0 => subs[e].plan < p
          /\ Do(w, Job("create", 0, p, {}))
    /\ UNCHANGED <<subs, unheard, overlap>>

\* _create_pending_subscription_checkout inside the transaction
CreatePending(w) ==
    /\ jobs[w].op = "create" /\ Unborn # {}
    /\ subs' = [subs EXCEPT ![NextId] = Row(jobs[w].plan, "pending_payment", "none", "unpaid")]
    /\ Do(w, NoJob)
    /\ UNCHANGED <<unheard, overlap>>

\* Under the lock the status is looked at again
StillPayable(i) == subs[i].status = "pending_payment"

\* _update_pending_subscription_checkout locks the row ...
LockPending(w) ==
    /\ jobs[w].op = "found" /\ Unlocked({jobs[w].sub})
    /\ Do(w, IF StillPayable(jobs[w].sub)
             THEN [jobs[w] EXCEPT !.op = "update"] ELSE NoJob)
    /\ UNCHANGED <<subs, unheard, overlap>>

\* ... and saves the invoice with another duration
UpdatePending(w) ==
    /\ jobs[w].op = "update"
    /\ subs' = [subs EXCEPT ![jobs[w].sub].whole = @ /\ subs[jobs[w].sub].inv # "paid"]
    /\ Do(w, NoJob)
    /\ UNCHANGED <<unheard, overlap>>

\* ensure_basic_subscription_entitlement finds out what is current ...
EnsureBasic(w) ==
    /\ jobs[w].op = "basic" /\ Unlocked(Current)
    /\ subs' \in Normalized(subs, 0)
    /\ \/ Current # {} /\ Do(w, NoJob) /\ UNCHANGED overlap
       \/ /\ Current = {} /\ NoteOverlap(w)
          /\ Do(w, Job("grant", 0, 0, {}))
    /\ UNCHANGED unheard

\* ... and creates the free subscription; nothing keeps a second one out
GrantBasic(w) ==
    /\ jobs[w].op = "grant" /\ Unborn # {}
    /\ subs' = [subs EXCEPT ![NextId] = Row(0, "active", "none", "none")]
    /\ Do(w, NoJob)
    /\ UNCHANGED <<unheard, overlap>>

\* start_subscription_renewal_checkout runs in no transaction: it looks for
\* a checkout of the plan,
StartRenewal(w, i) ==
    /\ Idle(w) /\ i \in Made
    /\ Undecided(subs[i].plan) = {}
    /\ Do(w, Job("renew", 0, subs[i].plan, {}))
    /\ UNCHANGED <<subs, unheard, overlap>>

\* creates the subscription
RenewalRow(w) ==
    /\ jobs[w].op = "renew" /\ Unborn # {}
    /\ subs' = [subs EXCEPT ![NextId] = Row(jobs[w].plan, "pending_payment", "none", "none")]
    /\ Do(w, Job("bill", NextId, jobs[w].plan, {}))
    /\ UNCHANGED <<unheard, overlap>>

\* and then its invoice
RenewalInvoice(w) ==
    /\ jobs[w].op = "bill" /\ Unlocked({jobs[w].sub})
    /\ subs' = [subs EXCEPT ![jobs[w].sub].inv =
                  IF subs[jobs[w].sub].status = "gone" THEN @ ELSE "unpaid"]
    /\ Do(w, NoJob)
    /\ UNCHANGED <<unheard, overlap>>

Deletable(i) ==
    /\ subs[i].status \in {"pending_payment", "expired", "cancelled"}
    /\ subs[i].inv \notin {"claimed", "paid", "refunded"}

\* cancel_pending_subscription_checkout, and the deletion by the staff, which
\* takes expired and cancelled rows as well: the row is locked and the
\* invoice read ...
StartRemoval(w, i) ==
    /\ Idle(w) /\ Unlocked({i}) /\ Deletable(i)
    /\ Do(w, Job("remove", i, 0, {}))
    /\ UNCHANGED <<subs, unheard, overlap>>

\* ... and both are deleted
Remove(w) ==
    /\ jobs[w].op = "remove"
    /\ subs' = [subs EXCEPT ![jobs[w].sub] = GoneRow]
    /\ Do(w, NoJob)
    /\ UNCHANGED <<unheard, overlap>>

-----------------------------------------------------------------------------
(* Payment, activation and time *)

\* Mutation: a refund is noticed before the activation only
RevokedEarly(rows, i) ==
    IF rows[i].status = "awaiting_review"
    THEN {[rows EXCEPT ![i].status = "pending_payment"]} ELSE {rows}

\* revoke_subscription_after_payment_reversal
Revoked(rows, i) ==
    CASE rows[i].status = "awaiting_review" ->
           {[rows EXCEPT ![i].status = "pending_payment"]}
      [] rows[i].status \in {"active", "grace"} ->
           Normalized([rows EXCEPT ![i].status = "pending_payment", ![i].clock = "none"], 0)
      [] OTHER -> {rows}

\* Mutation: a status of the verification requests
AppliedElsewhere(rows, i) ==
    {[rows EXCEPT ![i].status = IF @ = "pending_payment" THEN "in_review" ELSE @]}

\* Mutation: whatever is not current goes to review
AppliedToPast(rows, i) ==
    {[rows EXCEPT ![i].status = IF @ \in {"active", "grace"} THEN @ ELSE "awaiting_review"]}

\* apply_effective_payment
Applied(rows, i) ==
    {[rows EXCEPT ![i].status = IF @ = "pending_payment" THEN "awaiting_review" ELSE @]}

\* activate_subscription_on_paid, the receiver
Reacted(rows, i) == IF rows[i].inv = "paid" THEN Applied(rows, i) ELSE Revoked(rows, i)

\* An event is accepted for the total of the invoice only
WithInvoice(i, state) == [subs EXCEPT ![i].inv = state, ![i].whole = TRUE]

\* Billing saves the invoice: init_payment, or a payment event
InvoiceMoves(i) ==
    (IF subs[i].inv = "paid" THEN {} ELSE {"unpaid"})
      \cup {After(kind, subs[i].inv) : kind \in EventKinds \ {"other"}}

Invoiced == {i \in Made : subs[i].inv # "none"}

SaveInvoice(i, state) ==
    /\ i \in Invoiced /\ state \in InvoiceMoves(i)
    /\ Unlocked({i})
    /\ subs[i].status \in {"active", "grace"} /\ state # "paid" => Unlocked(Current)
    /\ subs' \in Reacted(WithInvoice(i, state), i)
    /\ unheard' = unheard \ {i}
    /\ UNCHANGED <<jobs, overlap>>

\* The same against a job that holds the row and is about to save the
\* invoice: the receiver loses
SaveInvoiceUnheard(i, state) ==
    /\ i \in Invoiced /\ state \in InvoiceMoves(i)
    /\ \E w \in Workers : jobs[w].op \in {"update", "remove"} /\ jobs[w].sub = i
    /\ subs' = WithInvoice(i, state)
    /\ unheard' = unheard \cup {i}
    /\ UNCHANGED <<jobs, overlap>>

\* The dashboard applies the payment if need be, and activate_subscription_
\* after_payment locks the row and the current ones ...
StartActivation(w, i) ==
    /\ Idle(w) /\ i \in Made
    /\ subs[i].inv = "paid"
    /\ subs[i].status \in {"pending_payment", "awaiting_review", "active"}
    /\ Unlocked({i} \cup Current)
    /\ subs' \in Applied(subs, i)
    /\ Do(w, Job("activate", i, 0, Current \ {i}))
    /\ NoteOverlap(w)
    /\ UNCHANGED unheard

\* Mutation: the subscriptions it replaces stay as they are
ActivatedBeside(rows, i, others) == [rows EXCEPT ![i].status = "active", ![i].clock = "running"]

Activated(rows, i, others) ==
    Cancelled([rows EXCEPT ![i].status = "active",
                           ![i].clock = IF rows[i].status = "active" THEN @ ELSE "running"],
              others)

\* ... and makes it the current one
Activate(w) ==
    /\ jobs[w].op = "activate"
    /\ subs' = Activated(subs, jobs[w].sub, jobs[w].others)
    /\ Do(w, NoJob)
    /\ UNCHANGED <<unheard, overlap>>

\* refresh_subscription_status: one stage at a time
Refreshed(i) ==
    IF subs[i].status = "active"
    THEN Normalized([subs EXCEPT ![i].status = "grace"], i)
    ELSE Normalized([subs EXCEPT ![i].status = "expired"], 0)

\* Mutation: a subscription that nobody looked at during its grace is skipped
RefreshDueInGrace(i) ==
    \/ subs[i].status = "active" /\ subs[i].clock = "ended"
    \/ subs[i].status = "grace" /\ subs[i].clock = "over"

RefreshDue(i) ==
    \/ subs[i].status = "active" /\ subs[i].clock \in {"ended", "over"}
    \/ subs[i].status = "grace" /\ subs[i].clock = "over"

\* SubscriptionRefreshMiddleware, at a request of the user: the latest row
\* only, whatever its status
Refresh ==
    /\ Made # {}
    /\ LET i == Latest(Made) IN
       /\ RefreshDue(i)
       /\ Unlocked({i} \cup Current)
       /\ subs' \in Refreshed(i)
    /\ UNCHANGED <<jobs, unheard, overlap>>

\* The command normalize_current_subscriptions
NormalizeCommand ==
    /\ Unlocked(Current)
    /\ subs' \in Normalized(subs, 0)
    /\ UNCHANGED <<jobs, unheard, overlap>>

\* Time passes
Elapse(i) ==
    /\ subs[i].clock \in {"running", "ended"} /\ i \in Current
    /\ subs' = [subs EXCEPT ![i].clock = IF @ = "running" THEN "ended" ELSE "over"]
    /\ UNCHANGED <<jobs, unheard, overlap>>

\* A transaction is rolled back: a crash, or the victim of a deadlock.  The
\* renewal keeps what it has saved.
JobLost(w) ==
    /\ ~Idle(w)
    /\ Do(w, NoJob)
    /\ UNCHANGED <<subs, unheard, overlap>>

SubscriptionJob(w) ==
    \/ CreatePending(w) \/ LockPending(w) \/ UpdatePending(w)
    \/ EnsureBasic(w) \/ GrantBasic(w)
    \/ RenewalRow(w) \/ RenewalInvoice(w)
    \/ Remove(w) \/ Activate(w)

SubscriptionsNext ==
    \/ \E w \in Workers :
         \/ \E p \in Plans : StartCheckout(w, p)
         \/ \E i \in Ids : StartRenewal(w, i) \/ StartRemoval(w, i) \/ StartActivation(w, i)
         \/ SubscriptionJob(w) \/ JobLost(w)
    \/ \E i \in Ids :
         \/ \E s \in InvoiceStates : SaveInvoice(i, s) \/ SaveInvoiceUnheard(i, s)
         \/ Elapse(i)
    \/ Refresh \/ NormalizeCommand

SubscriptionsSpec == SubscriptionsInit /\ [][SubscriptionsNext]_subscriptionVars

\* Time passes, the user keeps calling, and a transaction ends
FairSubscriptionsSpec ==
    /\ SubscriptionsSpec
    /\ \A i \in Ids : WF_subscriptionVars(Elapse(i))
    /\ SF_subscriptionVars(Refresh)
    /\ \A w \in Workers : WF_subscriptionVars(SubscriptionJob(w) \/ JobLost(w))

-----------------------------------------------------------------------------
(* Properties *)

\* What is paid for and what is provided agree, in both directions, unless
\* the receiver was the victim of a deadlock: nothing under review or current
\* without a payment in force, and no payment that nobody takes up.
PaidAndHeard ==
    \A i \in Made \ unheard :
      subs[i].plan > 0 =>
        /\ subs[i].status \in {"awaiting_review", "active", "grace"} => subs[i].inv = "paid"
        /\ subs[i].inv = "paid" => subs[i].status # "pending_payment"

\* The payment of a subscription is the price of its duration, although the
\* duration of a checkout may be changed while the payment is under way.
PaidInFull ==
    \A i \in Made \ unheard : subs[i].inv = "paid" => subs[i].whole

\* A provider has one current subscription at most, however checkouts,
\* activations, refunds and expiries follow each other, as long as no two
\* transactions that make an entitlement overlap.
OneCurrent == ~overlap => Cardinality(Current) <= 1

\* A subscription that has expired or was replaced never comes back, paid
\* again or not.
NeverRevived ==
    [][ \A i \in Ids : subs[i].status \in {"expired", "cancelled", "gone"} =>
          subs'[i].status \in {subs[i].status, "gone"} ]_subscriptionVars

\* A provider who has a current subscription is left without one only by a
\* refund or by the end of its grace: replacing never takes the last away.
NotLeftWithout ==
    [][ Current # {} /\ CurrentIn(subs') = {} =>
          \E i \in Current :
            \/ subs'[i].status = "expired" /\ subs[i].clock = "over"
            \/ subs'[i].status = "pending_payment" /\ subs'[i].inv # "paid" ]_subscriptionVars

\* No subscription is deleted with a payment in force, unless its receiver
\* was not heard.
PaymentNotDeleted ==
    [][ \A i \in Made : subs'[i].status = "gone" =>
          subs[i].inv # "paid" \/ i \in unheard ]_subscriptionVars

Over(i) == i \in Current /\ subs[i].clock = "over"
Newer(i) == \E j \in Made : j > i

\* The latest subscription of a provider who keeps using the platform
\* expires.
LatestExpires == \A i \in Ids : Over(i) ~> (~Over(i) \/ Newer(i))

\* What is provided is paid for in full, and what is paid for is provided.
AccessPaid == PaidAndHeard /\ PaidInFull

\* What has ended does not come back, and what is paid for is not deleted.
EndsOnce == NeverRevived /\ PaymentNotDeleted
==============================================================================
