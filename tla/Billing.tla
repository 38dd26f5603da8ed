------------------------------- MODULE Billing -------------------------------
(***************************************************************************)
(* One invoice, the payment attempts made for it and the webhook events    *)
(* about them (backend/apps/billing): init_payment, complete_mock_payment, *)
(* handle_webhook and the mock checkout page.  Each service is one         *)
(* transaction that locks the invoice first, or the attempt together with  *)
(* it, so that each is one step here; the checkout page looks at the       *)
(* invoice before it, without a lock.                                      *)
(*                                                                         *)
(* The provider may deliver an event late, twice, in any order, for an     *)
(* attempt that is not there yet or for another amount.  Signatures,       *)
(* currencies and payment methods are left out: a payload that fails one   *)
(* of the checks on them is refused like one with another amount.          *)
(***************************************************************************)
EXTENDS Naturals, Sequences, Invoices

CONSTANTS
    MaxAttempts,  \* bound on the PaymentAttempt rows of the invoice
    Keys,         \* idempotency keys that clients send
    NoKey,        \* the request has none: the server draws one
    Prices,       \* amounts; 0 is a free invoice
    Tabs,         \* browser tabs on the checkout page
    PageActions,  \* what its visitors choose: to pay, to cancel, to fail
    Deliveries    \* webhook events of the provider

ASSUME BillingAssumption ==
    /\ MaxAttempts \in Nat
    /\ NoKey \notin Keys
    /\ Prices \subseteq Nat
    /\ PageActions \subseteq {"success", "cancelled", "failure"}
    /\ "success" \in PageActions

VARIABLES
    invoice,   \* the Invoice row
    attempts,  \* its PaymentAttempt rows, in the order of their creation
    events,    \* the event ids of the WebhookEvent rows
    tabs,      \* what each checkout page has read
    notices    \* PAYMENT_RECEIVED notifications (2: or more)

billingVars == <<invoice, attempts, events, tabs, notices>>

InvoiceStatus == {"draft", "pending", "paid", "failed", "cancelled", "refunded"}
AttemptStatus == {"redirected", "success", "failed", "cancelled", "refunded"}

\* Who names the event: the provider numbers its own, the server derives
\* those of the mock provider from the attempt
EventIds ==
    [from : {"provider"}, kind : EventKinds, n : Deliveries]
      \cup [from : {"checkout"}, kind : PageActions, n : 1..MaxAttempts]
      \cup [from : {"complete"}, kind : {"success"}, n : 1..MaxAttempts]

EventId(from, kind, n) == [from |-> from, kind |-> kind, n |-> n]
NoEvent == EventId("nobody", "other", 0)

\* What a page has read: the attempt, the total, and whether it is paid
NoPage == [attempt |-> 0, action |-> "success", amount |-> 0, paid |-> FALSE]

BillingTypeOK ==
    /\ invoice \in [status : InvoiceStatus, confirmed : BOOLEAN, total : Prices,
                    event : EventIds \cup {NoEvent}, via : 0..MaxAttempts,
                    amount : Prices \cup {0}]
    /\ attempts \in Seq([key : Keys \cup {NoKey}, status : AttemptStatus, amount : Prices])
    /\ Len(attempts) <= MaxAttempts
    /\ events \subseteq EventIds
    /\ tabs \in [Tabs -> [attempt : 0..MaxAttempts, action : PageActions,
                          amount : Prices \cup {0}, paid : BOOLEAN]]
    /\ notices \in 0..2

\* is_payment_effective
IsEffective(inv) == inv.status = "paid" /\ (inv.total > 0 => inv.confirmed)
Effective == IsEffective(invoice)

\* The back office may have marked an invoice paid by hand
BillingInit ==
    /\ invoice \in [status : {"draft", "pending", "paid"}, confirmed : {FALSE},
                    total : Prices, event : {NoEvent}, via : {0}, amount : {0}]
    /\ ~Effective
    /\ attempts = <<>>
    /\ events = {}
    /\ tabs = [t \in Tabs |-> NoPage]
    /\ notices = 0
-----------------------------------------------------------------------------
(* Rows *)

\* clear_payment_confirmation
Cleared(inv) ==
    [inv EXCEPT !.confirmed = FALSE, !.event = NoEvent, !.via = 0, !.amount = 0]

\* mark_payment_confirmed
Confirmed(inv, e, a, amount) ==
    [inv EXCEPT !.status = "paid", !.confirmed = TRUE, !.event = e, !.via = a,
                !.amount = amount]

\* _mark_invoice_reversal with mark_failed, mark_cancelled and mark_refunded
Reversed(inv, kind) ==
    [Cleared(inv) EXCEPT
       !.status = IF kind = "cancelled" THEN "cancelled"
                  ELSE IF kind = "reversal" \/ IsEffective(inv) THEN "refunded"
                  ELSE IF @ \in {"paid", "cancelled"} THEN @ ELSE "failed"]

\* The attempt an event is about; failing that, the latest of the invoice
Found(atts, ref) == IF ref \in DOMAIN atts THEN ref ELSE Len(atts)

\* Mutation: the amount is compared with the attempt only
CreditableToAttempt(inv, atts, a, amount) == a # 0 /\ amount = atts[a].amount

\* _success_amount_and_currency, which every kind of event goes through
Creditable(inv, atts, a, amount) ==
    a # 0 /\ amount = atts[a].amount /\ amount = inv.total

InvoiceAfter(inv, e, a, amount) ==
    CASE e.kind = "success" -> Confirmed(inv, e, a, amount)
      [] e.kind = "other"   -> inv
      [] OTHER              -> Reversed(inv, e.kind)

AttemptAfter(kind, status) ==
    CASE kind = "success"   -> "success"
      [] kind = "failure"   -> "failed"
      [] kind = "cancelled" -> "cancelled"
      [] kind = "reversal"  -> "refunded"
      [] OTHER              -> status

\* handle_webhook after the event is recorded
Handled(inv, atts, e, ref, amount) ==
    LET a == Found(atts, ref) IN
    IF Creditable(inv, atts, a, amount)
    THEN [invoice |-> InvoiceAfter(inv, e, a, amount),
          attempts |-> [atts EXCEPT ![a].status = AttemptAfter(e.kind, @)]]
    ELSE [invoice |-> inv, attempts |-> atts]

WithKey(atts, key) == {a \in DOMAIN atts : key # NoKey /\ atts[a].key = key}

\* Mutation: the attempt is not saved again once it has its checkout address
NewAttemptUnsaved(key, amount) == [key |-> key, status |-> "initiated", amount |-> amount]

NewAttempt(key, amount) == [key |-> key, status |-> "redirected", amount |-> amount]

\* What init_payment makes of the invoice and its attempts
Begun(inv, atts, key) ==
    LET open == IF inv.status = "paid" THEN [Cleared(inv) EXCEPT !.status = "pending"]
                ELSE inv IN
    IF WithKey(atts, key) # {}
    THEN [invoice |-> open, attempts |-> atts]
    ELSE [invoice |-> [open EXCEPT !.status = "pending"],
          attempts |-> Append(atts, NewAttempt(key, inv.total))]

\* notify_provider_payment_received, at every save of the invoice
Notice ==
    notices' = IF IsEffective(invoice') /\ notices = 0 THEN 1 ELSE notices

-----------------------------------------------------------------------------
(* Services and endpoints *)

RoomFor(atts) == Len(atts) <= MaxAttempts

\* init_payment refuses an invoice whose payment took effect
InitPayment(key) ==
    /\ ~Effective
    /\ LET b == Begun(invoice, attempts, key) IN
       /\ RoomFor(b.attempts)
       /\ invoice' = b.invoice
       /\ attempts' = b.attempts
    /\ Notice
    /\ UNCHANGED <<events, tabs>>

\* Mutation: the unique constraint on event ids is not there
FreshUnchecked(e) == TRUE

\* WebhookEvent rows are unique; an event seen before changes nothing
Fresh(e) == e \notin events

\* handle_webhook.  An event that is refused stays recorded.
HandleWebhook(e, ref, amount) ==
    /\ Fresh(e)
    /\ events' = events \cup {e}
    /\ LET h == Handled(invoice, attempts, e, ref, amount) IN
       invoice' = h.invoice /\ attempts' = h.attempts
    /\ Notice

\* The provider delivers an event, perhaps again: it quotes an attempt, or
\* none that is known, and an amount, and always tells the same of one event
Deliver(d, kind, ref, amount) ==
    /\ \A e \in events : e.from = "provider" /\ e.n = d => e.kind = kind
    /\ HandleWebhook(EventId("provider", kind, d), ref, amount)
    /\ UNCHANGED tabs

\* The attempt of a completed checkout: the latest with the key, or the latest
Completing(atts, key) ==
    IF key = NoKey THEN {Len(atts)}
    ELSE {a \in WithKey(atts, key) : \A b \in WithKey(atts, key) : b <= a}

\* complete_mock_payment: without a key it takes the attempts as they are, if
\* there are any; whatever is refused rolls everything back
CompleteMockPayment(key) ==
    LET reuse == key = NoKey /\ attempts # <<>>
        b == IF reuse THEN [invoice |-> invoice, attempts |-> attempts]
             ELSE Begun(invoice, attempts, key) IN
    /\ ~Effective
    /\ RoomFor(b.attempts)
    /\ \E a \in Completing(b.attempts, key) :
         LET e == EventId("complete", "success", a)
             h == Handled(b.invoice, b.attempts, e, a, b.invoice.total) IN
         /\ Fresh(e)
         /\ Creditable(b.invoice, b.attempts, a, b.invoice.total)
         /\ events' = events \cup {e}
         /\ invoice' = h.invoice
         /\ attempts' = h.attempts
    /\ Notice
    /\ UNCHANGED tabs

\* The check of the checkout page
Payable == ~Effective

\* MockCheckoutView reads the attempt and the invoice ...
OpenCheckout(t, a, action) ==
    /\ tabs[t] = NoPage
    /\ a \in DOMAIN attempts
    /\ Payable
    /\ tabs' = [tabs EXCEPT ![t] = [attempt |-> a, action |-> action,
                                    amount |-> invoice.total, paid |-> Effective]]
    /\ UNCHANGED <<invoice, attempts, events, notices>>

\* ... and sends the event, which may come too late
SubmitCheckout(t) ==
    /\ tabs[t] # NoPage
    /\ tabs' = [tabs EXCEPT ![t] = NoPage]
    /\ LET e == EventId("checkout", tabs[t].action, tabs[t].attempt) IN
       \/ HandleWebhook(e, tabs[t].attempt, tabs[t].amount)
       \/ ~Fresh(e) /\ UNCHANGED <<invoice, attempts, events, notices>>

\* The service the invoice is for changes its subtotal before it is paid
Reprice(p) ==
    /\ invoice.status # "paid"
    /\ invoice' = [invoice EXCEPT !.total = p]
    /\ Notice
    /\ UNCHANGED <<attempts, events, tabs>>

BillingNext ==
    \/ \E key \in Keys \cup {NoKey} : InitPayment(key) \/ CompleteMockPayment(key)
    \/ \E d \in Deliveries, kind \in EventKinds, ref \in 0..MaxAttempts, amount \in Prices :
         Deliver(d, kind, ref, amount)
    \/ \E t \in Tabs : SubmitCheckout(t)
    \/ \E t \in Tabs, a \in 1..MaxAttempts, action \in PageActions :
         OpenCheckout(t, a, action)
    \/ \E p \in Prices : Reprice(p)

BillingSpec == BillingInit /\ [][BillingNext]_billingVars

-----------------------------------------------------------------------------
(* Properties *)

\* A payment that is in force was confirmed by a success event received for
\* one of the attempts, which has not failed since, and it is the whole
\* amount of the invoice: whatever order the events of several attempts,
\* tabs and amounts come in.
ConfirmedInFull ==
    invoice.confirmed =>
        /\ Effective
        /\ invoice.event \in events /\ invoice.event.kind = "success"
        /\ invoice.via \in DOMAIN attempts
        /\ attempts[invoice.via].status = "success"
        /\ attempts[invoice.via].amount = invoice.amount
        /\ invoice.amount = invoice.total

\* Who has paid is told so, and only once however often the invoice is saved,
\* refunded and paid again.
PaymentAnnounced == notices <= 1 /\ (Effective => notices = 1)

\* A payment in force is undone by an event of the provider or by a checkout
\* page that was opened before it took effect, never by one opened since.
ReversedFromOutside ==
    [][ Effective /\ ~IsEffective(invoice') =>
          \/ \E e \in events' \ events :
               e.from = "provider" /\ e.kind \in {"failure", "cancelled", "reversal"}
          \/ \E t \in Tabs :
               /\ EventId("checkout", tabs[t].action, tabs[t].attempt) \in events' \ events
               /\ ~tabs[t].paid ]_billingVars

InvoiceState ==
    CASE Effective                                   -> "paid"
      [] invoice.status = "paid" /\ ~Effective       -> "claimed"
      [] invoice.status \in {"draft", "pending"}     -> "unpaid"
      [] OTHER                                       -> invoice.status

Contract == INSTANCE Settlement WITH Events <- EventIds, state <- InvoiceState, used <- events

\* Billing keeps the promises of Settlement: an invoice is paid by a fresh
\* success event, stops being paid by another fresh event, and no event
\* counts twice.
ImplementsSettlement == Contract!Spec

\* A payment in force was confirmed in full, and announced once.
PaymentsSound == ConfirmedInFull /\ PaymentAnnounced
==============================================================================
