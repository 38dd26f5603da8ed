-------------------------------- MODULE Promo --------------------------------
(***************************************************************************)
(* One promotion campaign (backend/apps/promo): the quote and its invoice, *)
(* the receiver of the invoice's saves, the execution by the staff, its    *)
(* promotional message, the end of the campaign and the removal of         *)
(* campaigns that nobody paid for.                                         *)
(*                                                                         *)
(* Services lock the campaign and are one step each.  The removal is two:  *)
(* it locks the campaign and then the invoice, a payment event locks them  *)
(* the other way round, and the database fails either; the receiver of the *)
(* event swallows its failure.                                             *)
(***************************************************************************)
EXTENDS Naturals, Invoices

VARIABLES
    campaign,     \* the PromoRequest row, its invoice and its message
    discarding,   \* a removal holds the row
    unheardPromo  \* the receiver has failed

promoVars == <<campaign, discarding, unheardPromo>>

\* free: the total of the invoice is zero.  over: end_at is past.  message:
\* failed is due, with an error on record.
PromoTypeOK ==
    /\ campaign \in [status : {"none", "new", "pending_payment", "active", "rejected", "expired", "gone"},
                     ops : {"new", "in_progress", "completed"},
                     inv : InvoiceStates \cup {"none"}, free : BOOLEAN, over : BOOLEAN,
                     message : {"waiting", "due", "failed", "sent"}]
    /\ discarding \in BOOLEAN /\ unheardPromo \in BOOLEAN

PromoInit ==
    /\ campaign = [status |-> "none", ops |-> "new", inv |-> "none", free |-> FALSE,
                   over |-> FALSE, message |-> "waiting"]
    /\ discarding = FALSE /\ unheardPromo = FALSE
-----------------------------------------------------------------------------
(* What becomes of the row; sets, since the database may refuse the lock   *)
(* that a message takes                                                     *)

Immutable == {"rejected", "expired"}
Incomplete(row) == row.status \in {"new", "pending_payment"}

\* _dispatch_due_messages_for_request, while the campaign is active
Dispatched(row) ==
    IF row.message \in {"due", "failed"}
    THEN {[row EXCEPT !.message = m] : m \in {"sent", "failed"}} ELSE {row}

\* A campaign past its end sends what is due, and expires
Closed(row) == {[r EXCEPT !.status = "expired", !.ops = "completed"] : r \in Dispatched(row)}

\* activate_after_payment
PromoActivated(row) ==
    CASE row.status \in Immutable -> {row}
      [] row.status \notin Immutable /\ row.over -> Closed(row)
      [] row.status = "active" /\ ~row.over -> {row}
      [] OTHER -> Dispatched([row EXCEPT !.status = "active"])

\* apply_effective_payment
PromoApplied(row) ==
    CASE row.status \in Immutable -> {row}
      [] row.status \notin Immutable /\ row.over -> Closed(row)
      [] row.status \notin Immutable /\ ~row.over /\ row.ops = "completed" -> PromoActivated(row)
      [] OTHER -> {[row EXCEPT !.status = "new"]}

\* Mutation: a campaign that runs is not called back
PromoRevokedLate(row) ==
    IF row.status \in Immutable \cup {"active"} THEN row ELSE [row EXCEPT !.status = "pending_payment"]

\* revoke_after_payment_reversal
PromoRevoked(row) ==
    IF row.status \in Immutable THEN row ELSE [row EXCEPT !.status = "pending_payment"]

\* discard_incomplete_promo_request, in the receiver
Discarded(row) == IF Incomplete(row) THEN [row EXCEPT !.status = "gone"] ELSE row

\* activate_promo_on_invoice_paid, the receiver
PromoReacted(row) ==
    CASE row.inv = "paid" -> PromoApplied(row)
      [] row.inv \in {"cancelled", "failed"} -> {Discarded(row)}
      [] OTHER -> {PromoRevoked(row)}

\* The invoice gets another total: what the staff marked paid by hand is
\* paid if it is free, and is not if it is free no more
Priced(row, free) ==
    [row EXCEPT !.free = free,
                !.inv = CASE @ = "none" -> "unpaid"
                          [] @ = "claimed" /\ free -> "paid"
                          [] @ = "paid" /\ row.free /\ ~free -> "claimed"
                          [] OTHER -> @]

\* _sync_invoice_from_items: an invoice that is there is saved with its old
\* total and then with the new one
Billings(row, free) ==
    LET before == IF row.inv = "none" THEN {row} ELSE PromoReacted(row) IN
    UNION {PromoReacted(Priced(r, free)) : r \in before}

\* quote_and_create_invoice; a row that its own receiver deletes cannot be
\* saved, and everything is rolled back
Quoted(row, free) ==
    LET quotes == {[r EXCEPT !.status = "pending_payment"] :
                     r \in {b \in Billings(row, free) : b.status # "gone"}} IN
    IF free THEN UNION {PromoReacted([q EXCEPT !.inv = "paid"]) : q \in quotes} ELSE quotes
-----------------------------------------------------------------------------
Free(row) == row.status \notin {"none", "gone"} /\ ~discarding
Becomes(rows) == campaign' \in rows /\ UNCHANGED <<discarding, unheardPromo>>

\* PromoRequestCreateSerializer.create
CreateCampaign ==
    /\ campaign.status = "none"
    /\ Becomes({[campaign EXCEPT !.status = "new"]})

\* By the provider who prepares the payment, or by the back office
Quote(free) ==
    /\ Free(campaign) /\ campaign.status \notin {"active", "expired"}
    /\ Becomes(Quoted(campaign, free))

\* reject_request, whatever the status
Reject ==
    /\ Free(campaign)
    /\ Becomes({[campaign EXCEPT !.status = "rejected"]})

\* set_promo_ops_status
SetOps ==
    /\ Free(campaign) /\ campaign.inv = "paid"
    /\ \/ /\ campaign.ops = "new"
          /\ Becomes({[campaign EXCEPT !.ops = "in_progress"]})
       \/ /\ campaign.ops = "in_progress"
          /\ Becomes(PromoActivated([campaign EXCEPT !.ops = "completed"]))

\* Billing saves the invoice: init_payment, a payment event, or the staff
PromoInvoiceMoves ==
    IF campaign.inv = "none" \/ campaign.free THEN {}
    ELSE (IF campaign.inv = "paid" THEN {} ELSE {"unpaid"})
           \cup {After(kind, campaign.inv) : kind \in EventKinds \ {"other"}}

SavePromoInvoice(state) ==
    /\ Free(campaign) /\ state \in PromoInvoiceMoves
    /\ Becomes(PromoReacted([campaign EXCEPT !.inv = state]))

\* The same against a removal that is about to lock the invoice
SavePromoInvoiceUnheard(state) ==
    /\ discarding /\ state \in PromoInvoiceMoves
    /\ campaign' = [campaign EXCEPT !.inv = state]
    /\ unheardPromo' = TRUE
    /\ UNCHANGED discarding

Discardable(row) == Incomplete(row) /\ row.inv # "paid"

\* cleanup_incomplete_unpaid_promo_requests, or the provider, locks the
\* campaign ...
StartDiscard ==
    /\ Free(campaign) /\ Discardable(campaign)
    /\ discarding' = TRUE
    /\ UNCHANGED <<campaign, unheardPromo>>

\* ... and deletes it with its invoice
FinishDiscard ==
    /\ discarding
    /\ campaign' = [campaign EXCEPT !.status = "gone"]
    /\ discarding' = FALSE
    /\ UNCHANGED unheardPromo

\* The removal is the victim, or its process dies
LoseDiscard ==
    /\ discarding /\ discarding' = FALSE
    /\ UNCHANGED <<campaign, unheardPromo>>

\* send_due_promo_messages, by celery or by the middleware: what was listed
\* is looked at again under the lock
SendDue ==
    /\ Free(campaign) /\ campaign.status = "active" /\ ~campaign.over
    /\ campaign.message \in {"due", "failed"}
    /\ Becomes(Dispatched(campaign))

\* expire_due_promos
Expire ==
    /\ Free(campaign) /\ campaign.status = "active" /\ campaign.over
    /\ Becomes(Closed(campaign))

\* send_at passes, or end_at
PromoTick ==
    /\ Free(campaign)
    /\ \/ /\ campaign.message = "waiting"
          /\ Becomes({[campaign EXCEPT !.message = "due"]})
       \/ /\ ~campaign.over
          /\ Becomes({[campaign EXCEPT !.over = TRUE]})

PromoNext ==
    \/ CreateCampaign \/ Reject \/ SetOps
    \/ \E free \in BOOLEAN : Quote(free)
    \/ \E s \in InvoiceStates : SavePromoInvoice(s) \/ SavePromoInvoiceUnheard(s)
    \/ StartDiscard \/ FinishDiscard \/ LoseDiscard
    \/ SendDue \/ Expire \/ PromoTick

PromoSpec == PromoInit /\ [][PromoNext]_promoVars

\* Celery beat runs the expiry, and a removal comes to an end
FairPromoSpec ==
    PromoSpec /\ WF_promoVars(Expire) /\ WF_promoVars(FinishDiscard \/ LoseDiscard)
-----------------------------------------------------------------------------
(* Properties *)

\* A campaign runs only while its payment is in force, through quotes,
\* refunds and late events in any order.  The event that cancels a paid
\* invoice is the exception: the receiver takes it for an unpaid campaign's.
RunsPaid == campaign.status = "active" => campaign.inv \in {"paid", "cancelled"}

\* No campaign runs before the staff has completed its execution, a refund
\* and a second payment included.
RunsExecuted == campaign.status = "active" => campaign.ops = "completed"

\* A campaign with a payment in force is never removed as unpaid, unless the
\* payment and the removal were in a deadlock.
PaidNotDiscarded == campaign.status = "gone" /\ campaign.inv = "paid" => unheardPromo

\* A campaign that expires has sent its message if it was due, or has the
\* error on record.
MessageTried ==
    [][ campaign.status # "expired" /\ campaign'.status = "expired" =>
          campaign'.message # "due" ]_promoVars

\* A campaign past its end stops running.
RunEnds ==
    (campaign.status = "active" /\ campaign.over) ~> campaign.status # "active"

\* What runs is paid for and executed, and what is paid for is kept.
CampaignSound == RunsPaid /\ RunsExecuted /\ PaidNotDiscarded
==============================================================================
