----------------------------- MODULE ExtraCredits -----------------------------
(***************************************************************************)
(* The credits of one SKU that a provider buys (backend/apps/extras):      *)
(* purchases with their invoices, the receiver of the invoices' saves, and *)
(* the consumption from the newest active purchase.  Each service is one   *)
(* transaction that locks the purchase.                                    *)
(***************************************************************************)
EXTENDS Naturals, Invoices

CONSTANTS
    MaxPurchases,   \* bound on the ExtraPurchase rows
    Credits         \* credits of a purchase

ASSUME CreditsAssumption == MaxPurchases \in Nat /\ Credits \in Nat \ {0}

VARIABLES
    purchases,   \* the purchases by id, with their invoices
    paidOnce,    \* those whose invoice was paid at some time
    againPaid    \* a paid invoice was saved again after its purchase was consumed

creditVars == <<purchases, paidOnce, againPaid>>

Purchases == 1..MaxPurchases
Bought == {p \in Purchases : purchases[p].status # "none"}
NoPurchase == [status |-> "none", used |-> 0, inv |-> "unpaid"]

CreditsTypeOK ==
    /\ purchases \in [Purchases -> [status : {"none", "pending_payment", "active", "consumed"},
                                    used : 0..Credits, inv : InvoiceStates]]
    /\ paidOnce \subseteq Purchases /\ againPaid \in BOOLEAN

CreditsInit ==
    /\ purchases = [p \in Purchases |-> NoPurchase]
    /\ paidOnce = {} /\ againPaid = FALSE
-----------------------------------------------------------------------------
\* create_extra_purchase_checkout
Buy(p) ==
    /\ p \notin Bought /\ \A q \in Purchases : q < p => q \in Bought
    /\ purchases' = [purchases EXCEPT ![p].status = "pending_payment"]
    /\ UNCHANGED <<paidOnce, againPaid>>

\* activate_extra_on_paid, the receiver, and activate_extra_after_payment: a
\* refund is not heard of
ExtraActivated(row) ==
    IF row.inv \in {"paid", "claimed"} THEN [row EXCEPT !.status = "active"] ELSE row

\* init_payment, a payment event, or the same success once more
ExtraInvoiceMoves(inv) ==
    (IF inv = "paid" THEN {} ELSE {"unpaid"}) \cup {After(kind, inv) : kind \in EventKinds \ {"other"}}

SaveExtraInvoice(p, state) ==
    /\ p \in Bought /\ state \in ExtraInvoiceMoves(purchases[p].inv)
    /\ purchases' = [purchases EXCEPT ![p] = ExtraActivated([@ EXCEPT !.inv = state])]
    /\ paidOnce' = IF state = "paid" THEN paidOnce \cup {p} ELSE paidOnce
    /\ againPaid' = (againPaid \/ (state = "paid" /\ purchases[p].status = "consumed"))

ConsumedBy(row, n) ==
    [row EXCEPT !.used = @ + n, !.status = IF row.used + n = Credits THEN "consumed" ELSE @]

Usable == {p \in Bought : purchases[p].status = "active"}

\* The purchase that consume_credit takes
Newest(p) == p \in Usable /\ \A q \in Usable : q <= p

\* consume_credit: for more than the newest has left it does nothing
Consume(p, n) ==
    /\ Newest(p) /\ n > 0
    /\ purchases[p].used + n <= Credits
    /\ purchases' = [purchases EXCEPT ![p] = ConsumedBy(@, n)]
    /\ UNCHANGED <<paidOnce, againPaid>>

CreditsNext ==
    \E p \in Purchases :
      \/ Buy(p)
      \/ \E s \in InvoiceStates : SaveExtraInvoice(p, s)
      \/ \E n \in 1..Credits : Consume(p, n)

CreditsSpec == CreditsInit /\ [][CreditsNext]_creditVars
-----------------------------------------------------------------------------
(* Properties *)

\* Credits are consumed only from what was once paid for, whatever event
\* comes first.
UsedPaid == \A p \in Purchases : purchases[p].used > 0 => p \in paidOnce

\* An active purchase that is used up does not hide the credits of an older
\* one, unless its paid invoice was saved again after it was consumed.
CreditsReachable ==
    againPaid \/ \A p \in Purchases : Newest(p) => purchases[p].used < Credits
===============================================================================
