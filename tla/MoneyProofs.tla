------------------------------ MODULE MoneyProofs ------------------------------
(***************************************************************************)
(* What is paid, and what is given for it.  A payment in force was         *)
(* confirmed in full and announced once, and billing implements            *)
(* Settlement; credits are consumed from what was paid for; who closed a   *)
(* request for extras and paid has the portal; the points of a client are  *)
(* those of the ledger.  Each service has a section, with the invariant    *)
(* that is inductive, one lemma per action that says the action keeps it,  *)
(* and the theorems.                                                       *)
(***************************************************************************)
EXTENDS Billing, ExtraCredits, ExtrasBundle, Loyalty, SequenceTheorems, TLAPS

-----------------------------------------------------------------------------
(* Billing: the invoice and its provider *)

\* Kept as names, so that a record is typed field by field
EventOrNone == EventIds \cup {NoEvent}
AttemptOrNone == 0..MaxAttempts
PriceOrNone == Prices \cup {0}

InvoiceRow ==
    [status : InvoiceStatus, confirmed : BOOLEAN, total : Prices,
     event : EventOrNone, via : AttemptOrNone, amount : PriceOrNone]

AttemptRow == [key : Keys \cup {NoKey}, status : AttemptStatus, amount : Prices]

\* ConfirmedInFull, of the rows
PaidInFull(inv, atts, received) ==
    inv.confirmed =>
        /\ IsEffective(inv)
        /\ inv.event \in received /\ inv.event.kind = "success"
        /\ inv.via \in DOMAIN atts
        /\ atts[inv.via].status = "success"
        /\ atts[inv.via].amount = inv.amount
        /\ inv.amount = inv.total

\* InvoiceState, of a row
StateOf(inv) ==
    CASE IsEffective(inv)                              -> "paid"
      [] inv.status = "paid" /\ ~IsEffective(inv)      -> "claimed"
      [] inv.status \in {"draft", "pending"}           -> "unpaid"
      [] OTHER                                         -> inv.status

\* A checkout page that is open is about an attempt
PagesOpen == \A t \in Tabs : tabs[t] # NoPage => tabs[t].attempt \in DOMAIN attempts

BillingInv == BillingTypeOK /\ PaymentsSound /\ PagesOpen

-----------------------------------------------------------------------------
(* Rows *)

LEMMA ClearedRow ==
  ASSUME NEW inv \in InvoiceRow
  PROVE  /\ Cleared(inv) \in InvoiceRow /\ ~Cleared(inv).confirmed
         /\ Cleared(inv).total = inv.total /\ Cleared(inv).status = inv.status
<1>1. NoEvent \in EventOrNone /\ 0 \in AttemptOrNone /\ 0 \in PriceOrNone
  BY BillingAssumption DEF EventOrNone, AttemptOrNone, PriceOrNone
<1>. QED
  BY <1>1 DEF Cleared, InvoiceRow

\* An accepted event is what it is in Settlement, and confirms in full
LEMMA InvoiceMoves ==
  ASSUME NEW inv \in InvoiceRow, NEW e \in EventIds, NEW a \in 1..MaxAttempts, NEW amount \in Prices,
         inv.confirmed => IsEffective(inv), NEW new, new = InvoiceAfter(inv, e, a, amount)
  PROVE  /\ new \in InvoiceRow /\ new.total = inv.total
         /\ StateOf(new) = After(e.kind, StateOf(inv))
         /\ \/ e.kind = "success" /\ new = Confirmed(inv, e, a, amount) /\ IsEffective(new)
            \/ e.kind = "other" /\ new = inv
            \/ e.kind \notin {"success", "other"} /\ ~new.confirmed
<1> USE BillingAssumption
<1>0. e.kind \in EventKinds
  BY DEF EventIds, EventKinds
<1>1. CASE e.kind = "success"
  <2>1. new = Confirmed(inv, e, a, amount)
    BY <1>1 DEF InvoiceAfter
  <2>2. new.total = inv.total /\ new.status = "paid" /\ new.confirmed
    BY <2>1 DEF Confirmed, InvoiceRow
  <2>4. e \in EventOrNone /\ a \in AttemptOrNone /\ amount \in PriceOrNone
        /\ "paid" \in InvoiceStatus
    BY DEF InvoiceStatus, EventOrNone, AttemptOrNone, PriceOrNone
  <2>5. new \in InvoiceRow
    BY <2>1, <2>4 DEF Confirmed, InvoiceRow
  <2>3. IsEffective(new) /\ StateOf(new) = "paid"
    BY <2>2 DEF IsEffective, StateOf
  <2>. QED
    BY <1>1, <2>1, <2>2, <2>3, <2>5 DEF After
<1>2. CASE e.kind = "other"
  <2>1. new = inv /\ After(e.kind, StateOf(inv)) = StateOf(inv)
    BY <1>2 DEF InvoiceAfter, After
  <2>. QED
    BY <1>2, <2>1
<1>3. CASE e.kind \in {"failure", "cancelled", "reversal"}
  <2>1. new = Reversed(inv, e.kind)
    BY <1>3 DEF InvoiceAfter
  <2>2. /\ new \in InvoiceRow /\ new.total = inv.total /\ ~new.confirmed
        /\ new.status = IF e.kind = "cancelled" THEN "cancelled"
                        ELSE IF e.kind = "reversal" \/ IsEffective(inv) THEN "refunded"
                        ELSE IF inv.status \in {"paid", "cancelled"} THEN inv.status ELSE "failed"
    <3>1. Cleared(inv) \in InvoiceRow /\ ~Cleared(inv).confirmed /\ Cleared(inv).total = inv.total
          /\ Cleared(inv).status = inv.status
      BY ClearedRow
    <3>. QED
      BY <1>3, <2>1, <3>1 DEF Reversed, InvoiceRow, InvoiceStatus
  <2>3. CASE e.kind = "cancelled"
    <3>1. new.status = "cancelled" /\ After(e.kind, StateOf(inv)) = "cancelled"
      BY <2>2, <2>3 DEF After
    <3>2. StateOf(new) = "cancelled"
      BY <3>1 DEF StateOf, IsEffective
    <3>. QED
      BY <2>2, <2>3, <3>1, <3>2
  <2>4. CASE e.kind = "reversal"
    <3>1. new.status = "refunded" /\ After(e.kind, StateOf(inv)) = "refunded"
      BY <2>2, <2>4 DEF After
    <3>2. StateOf(new) = "refunded"
      BY <3>1 DEF StateOf, IsEffective
    <3>. QED
      BY <2>2, <2>4, <3>1, <3>2
  <2>5. CASE e.kind = "failure" /\ IsEffective(inv)
    <3>1. new.status = "refunded" /\ StateOf(inv) = "paid"
      BY <2>2, <2>5 DEF StateOf, IsEffective
    <3>2. StateOf(new) = "refunded"
      BY <3>1 DEF StateOf, IsEffective
    <3>3. After(e.kind, StateOf(inv)) = "refunded"
      BY <2>5, <3>1 DEF After
    <3>. QED
      BY <2>2, <2>5, <3>2, <3>3
  <2>6. CASE e.kind = "failure" /\ ~IsEffective(inv)
    <3>1. new.status = IF inv.status \in {"paid", "cancelled"} THEN inv.status ELSE "failed"
      BY <2>2, <2>6
    <3>2. ~IsEffective(new)
      BY <2>2, <2>6, <3>1 DEF IsEffective
    <3>3. inv.status \in InvoiceStatus
      BY DEF InvoiceRow
    <3>. QED
      BY <2>2, <2>6, <3>1, <3>2, <3>3 DEF StateOf, After, InvoiceStatus
  <2>. QED
    BY <1>3, <2>2, <2>3, <2>4, <2>5, <2>6
<1>. QED
  BY <1>0, <1>1, <1>2, <1>3 DEF EventKinds

\* The attempts after an event about one of them
AttemptsAfter(atts, a, kind) == [atts EXCEPT ![a].status = AttemptAfter(kind, @)]

LEMMA AttemptMoves ==
  ASSUME NEW atts \in Seq(AttemptRow), NEW a \in 1..Len(atts), NEW e \in EventIds,
         NEW new, new = AttemptsAfter(atts, a, e.kind)
  PROVE  /\ new \in Seq(AttemptRow) /\ Len(new) = Len(atts) /\ DOMAIN new = DOMAIN atts
         /\ new[a].amount = atts[a].amount
         /\ e.kind = "success" => new[a].status = "success"
         /\ e.kind = "other" => new = atts
<1> DEFINE row == [atts[a] EXCEPT !.status = AttemptAfter(e.kind, atts[a].status)]
<1>1. atts[a] \in AttemptRow /\ DOMAIN atts = 1..Len(atts)
  BY ElementOfSeq, LenProperties
<1>2. row \in AttemptRow /\ row.amount = atts[a].amount
  BY <1>1 DEF AttemptRow, AttemptAfter, AttemptStatus
<1>3. new = [atts EXCEPT ![a] = row]
  BY DEF AttemptsAfter
<1>4. /\ new \in Seq(AttemptRow) /\ Len(new) = Len(atts)
      /\ \A j \in 1..Len(atts) : new[j] = IF j = a THEN row ELSE atts[j]
  BY <1>2, <1>3, ExceptSeq
<1>5. DOMAIN new = DOMAIN atts
  BY <1>3
<1>6. e.kind = "success" => row.status = "success"
  BY <1>1 DEF AttemptRow, AttemptAfter
<1>7. ASSUME e.kind = "other" PROVE new = atts
  <2>1. row = atts[a]
    BY <1>1, <1>7 DEF AttemptRow, AttemptAfter
  <2>. QED
    BY <1>1, <1>3, <2>1, LenProperties
<1>. QED
  BY <1>2, <1>4, <1>5, <1>6, <1>7

\* What handle_webhook makes of the rows: nothing, or what the event is
LEMMA HandledRows ==
  ASSUME NEW inv \in InvoiceRow, NEW atts \in Seq(AttemptRow), Len(atts) <= MaxAttempts,
         NEW e \in EventIds, NEW ref \in Nat, NEW amount \in PriceOrNone,
         NEW received, NEW earlier, earlier \subseteq received, e \in received,
         PaidInFull(inv, atts, earlier),
         NEW h, h = Handled(inv, atts, e, ref, amount)
  PROVE  /\ h.invoice \in InvoiceRow /\ h.attempts \in Seq(AttemptRow)
         /\ Len(h.attempts) = Len(atts)
         /\ PaidInFull(h.invoice, h.attempts, received)
         /\ StateOf(h.invoice) \in {StateOf(inv), After(e.kind, StateOf(inv))}
<1>0. PICK a : a = Found(atts, ref)
  OBVIOUS
<1>1. Len(atts) \in Nat /\ DOMAIN atts = 1..Len(atts)
  BY LenProperties
<1>2. CASE ~Creditable(inv, atts, a, amount)
  <2>1. h.invoice = inv /\ h.attempts = atts
    BY <1>0, <1>2 DEF Handled
  <2>. QED
    BY <2>1 DEF PaidInFull
<1>3. CASE Creditable(inv, atts, a, amount)
  <2>0. a # 0
    BY <1>3 DEF Creditable
  <2>1. a \in 1..Len(atts) /\ a \in 1..MaxAttempts
    <3>1. CASE ref \in DOMAIN atts
      <4>1. a = ref
        BY <1>0, <3>1 DEF Found
      <4>2. a \in 1..Len(atts)
        BY <1>1, <3>1, <4>1
      <4>. QED
        BY <1>1, <4>2, BillingAssumption
    <3>2. CASE ref \notin DOMAIN atts
      <4>1. a = Len(atts)
        BY <1>0, <3>2 DEF Found
      <4>2. a \in 1..Len(atts)
        BY <1>1, <2>0, <4>1
      <4>. QED
        BY <1>1, <4>2, BillingAssumption
    <3>. QED
      BY <3>1, <3>2
  <2>2. amount = inv.total /\ amount = atts[a].amount /\ amount \in Prices
    BY <1>3 DEF Creditable, InvoiceRow
  <2>3. /\ h.invoice = InvoiceAfter(inv, e, a, amount)
        /\ h.attempts = AttemptsAfter(atts, a, e.kind)
    BY <1>0, <1>3 DEF Handled, AttemptsAfter
  <2>4. /\ h.attempts \in Seq(AttemptRow) /\ Len(h.attempts) = Len(atts)
        /\ DOMAIN h.attempts = DOMAIN atts
        /\ h.attempts[a].amount = atts[a].amount
        /\ e.kind = "success" => h.attempts[a].status = "success"
        /\ e.kind = "other" => h.attempts = atts
    BY <2>1, <2>3, AttemptMoves
  <2>5. inv.confirmed => IsEffective(inv)
    BY DEF PaidInFull
  <2>6. /\ h.invoice \in InvoiceRow /\ h.invoice.total = inv.total
        /\ StateOf(h.invoice) = After(e.kind, StateOf(inv))
        /\ \/ /\ e.kind = "success" /\ h.invoice = Confirmed(inv, e, a, amount)
              /\ IsEffective(h.invoice)
           \/ e.kind = "other" /\ h.invoice = inv
           \/ e.kind \notin {"success", "other"} /\ ~h.invoice.confirmed
    BY <2>1, <2>2, <2>3, <2>5, InvoiceMoves
  <2>7. PaidInFull(h.invoice, h.attempts, received)
    <3>1. CASE e.kind = "success"
      <4>1. h.invoice.event = e /\ h.invoice.via = a /\ h.invoice.amount = amount
        BY <2>6, <3>1 DEF Confirmed, InvoiceRow
      <4>. QED
        BY <1>1, <2>1, <2>2, <2>4, <2>6, <3>1, <4>1 DEF PaidInFull
    <3>2. CASE e.kind = "other"
      BY <2>4, <2>6, <3>2 DEF PaidInFull
    <3>3. CASE e.kind \notin {"success", "other"}
      BY <2>6, <3>3 DEF PaidInFull
    <3>. QED
      BY <3>1, <3>2, <3>3
  <2>. QED
    BY <2>4, <2>6, <2>7
<1>. QED
  BY <1>2, <1>3

\* init_payment opens an invoice that is not paid
LEMMA BegunRows ==
  ASSUME NEW inv \in InvoiceRow, NEW atts \in Seq(AttemptRow), NEW key \in Keys \cup {NoKey},
         ~IsEffective(inv), ~inv.confirmed,
         NEW b, b = Begun(inv, atts, key)
  PROVE  /\ b.invoice \in InvoiceRow /\ b.attempts \in Seq(AttemptRow)
         /\ ~b.invoice.confirmed /\ ~IsEffective(b.invoice)
         /\ StateOf(b.invoice) \in {StateOf(inv), "unpaid"}
         /\ DOMAIN atts \subseteq DOMAIN b.attempts
<1> DEFINE open == IF inv.status = "paid" THEN [Cleared(inv) EXCEPT !.status = "pending"] ELSE inv
<1>1. open \in InvoiceRow /\ ~open.confirmed /\ open.status # "paid" /\ (open = inv \/ open.status = "pending")
  BY ClearedRow DEF InvoiceRow, InvoiceStatus
<1>2. ~IsEffective(open) /\ StateOf(open) \in {StateOf(inv), "unpaid"}
  BY <1>1 DEF IsEffective, StateOf
<1>3. CASE WithKey(atts, key) # {}
  <2>1. b.invoice = open /\ b.attempts = atts
    BY <1>3 DEF Begun
  <2>. QED
    BY <1>1, <1>2, <2>1
<1>4. CASE WithKey(atts, key) = {}
  <2> DEFINE row == NewAttempt(key, inv.total)
             pending == [open EXCEPT !.status = "pending"]
  <2>1. b.invoice = pending /\ b.attempts = Append(atts, row)
    BY <1>4 DEF Begun
  <2>2. pending \in InvoiceRow /\ ~pending.confirmed /\ pending.status = "pending"
    BY <1>1 DEF InvoiceRow, InvoiceStatus
  <2>3. ~IsEffective(pending) /\ StateOf(pending) = "unpaid"
    BY <2>2 DEF IsEffective, StateOf
  <2>4. row \in AttemptRow
    BY DEF NewAttempt, AttemptRow, AttemptStatus, InvoiceRow
  <2>5. Append(atts, row) \in Seq(AttemptRow) /\ Len(Append(atts, row)) = Len(atts) + 1
    BY <2>4, AppendProperties
  <2>6. DOMAIN atts \subseteq DOMAIN Append(atts, row)
    BY <2>5, LenProperties
  <2>. QED
    BY <2>1, <2>2, <2>3, <2>5, <2>6
<1>. QED
  BY <1>3, <1>4

-----------------------------------------------------------------------------
(* The invariant, and the step of Settlement *)

LEMMA BillingTyped ==
  BillingTypeOK <=>
    /\ invoice \in InvoiceRow
    /\ attempts \in Seq(AttemptRow) /\ Len(attempts) <= MaxAttempts
    /\ events \subseteq EventIds
    /\ tabs \in [Tabs -> [attempt : AttemptOrNone, action : PageActions,
                          amount : PriceOrNone, paid : BOOLEAN]]
    /\ notices \in 0..2
BY DEF BillingTypeOK, InvoiceRow, AttemptRow, EventOrNone, AttemptOrNone, PriceOrNone

SettlementStep ==
    \/ StateOf(invoice) # "paid" /\ StateOf(invoice') = "unpaid" /\ events' = events
    \/ \E e \in EventIds : /\ e \notin events /\ events' = events \cup {e}
                          /\ StateOf(invoice') \in {StateOf(invoice), After(e.kind, StateOf(invoice))}
    \/ StateOf(invoice') = StateOf(invoice) /\ events' = events

LEMMA NoticeKept ==
  ASSUME PaymentAnnounced, notices \in 0..2, Notice
  PROVE  PaymentAnnounced' /\ notices' \in 0..2
BY DEF PaymentAnnounced, Notice, Effective

\* What every action keeps, once the rows are known
Kept == BillingInv' /\ SettlementStep

LEMMA InvoiceKept ==
  ASSUME BillingInv, Notice,
         events' \subseteq EventIds, invoice' \in InvoiceRow,
         attempts' \in Seq(AttemptRow), Len(attempts') <= MaxAttempts,
         DOMAIN attempts \subseteq DOMAIN attempts',
         PaidInFull(invoice', attempts', events'),
         \/ tabs' = tabs
         \/ \E t \in Tabs : tabs' = [tabs EXCEPT ![t] = NoPage]
  PROVE  BillingInv'
<1>1. PaymentAnnounced' /\ notices' \in 0..2
  BY NoticeKept DEF BillingInv, BillingTypeOK, PaymentsSound
<1>2. ConfirmedInFull'
  BY DEF PaidInFull, ConfirmedInFull, Effective
<1>3. NoPage \in [attempt : AttemptOrNone, action : PageActions, amount : PriceOrNone, paid : BOOLEAN]
  BY BillingAssumption DEF NoPage, AttemptOrNone, PriceOrNone
<1>4. tabs' \in [Tabs -> [attempt : AttemptOrNone, action : PageActions,
                         amount : PriceOrNone, paid : BOOLEAN]]
  BY <1>3, BillingTyped DEF BillingInv
<1>5. PagesOpen'
  BY BillingTyped DEF BillingInv, PagesOpen
<1>6. BillingTypeOK'
  BY <1>1, <1>4 DEF BillingTypeOK, InvoiceRow, AttemptRow, EventOrNone, AttemptOrNone, PriceOrNone
<1>. QED
  BY <1>1, <1>2, <1>5, <1>6 DEF BillingInv, PaymentsSound

\* An event, whoever sends it
LEMMA WebhookKept ==
  ASSUME BillingInv, NEW e \in EventIds, NEW ref \in Nat, NEW amount \in PriceOrNone,
         HandleWebhook(e, ref, amount),
         tabs' = tabs \/ \E t \in Tabs : tabs' = [tabs EXCEPT ![t] = NoPage]
  PROVE  Kept
<1> DEFINE h == Handled(invoice, attempts, e, ref, amount)
<1>1. /\ e \notin events /\ events' = events \cup {e} /\ Notice
      /\ invoice' = h.invoice /\ attempts' = h.attempts
  BY DEF HandleWebhook, Fresh
<1>2. /\ invoice \in InvoiceRow /\ attempts \in Seq(AttemptRow) /\ Len(attempts) <= MaxAttempts
      /\ events \subseteq EventIds /\ PaidInFull(invoice, attempts, events)
  BY BillingTyped DEF BillingInv, PaymentsSound, ConfirmedInFull, PaidInFull, Effective
<1>3. events \subseteq events' /\ e \in events' /\ events' \subseteq EventIds
  BY <1>1, <1>2
<1>4. /\ h.invoice \in InvoiceRow /\ h.attempts \in Seq(AttemptRow)
      /\ Len(h.attempts) = Len(attempts)
      /\ PaidInFull(h.invoice, h.attempts, events')
      /\ StateOf(h.invoice) \in {StateOf(invoice), After(e.kind, StateOf(invoice))}
  BY <1>2, <1>3, HandledRows
<1>5. DOMAIN attempts = DOMAIN attempts'
  BY <1>1, <1>2, <1>4, LenProperties
<1>6. BillingInv'
  BY <1>1, <1>2, <1>3, <1>4, <1>5, InvoiceKept
<1>. QED
  BY <1>1, <1>4, <1>6 DEF Kept, SettlementStep

LEMMA BeginKept ==
  ASSUME BillingInv, NEW key \in Keys \cup {NoKey}, InitPayment(key)
  PROVE  Kept
<1> DEFINE b == Begun(invoice, attempts, key)
<1>1. /\ ~IsEffective(invoice) /\ Len(b.attempts) <= MaxAttempts
      /\ invoice' = b.invoice /\ attempts' = b.attempts
      /\ Notice /\ events' = events /\ tabs' = tabs
  BY DEF InitPayment, RoomFor, Effective
<1>2. /\ invoice \in InvoiceRow /\ attempts \in Seq(AttemptRow)
      /\ events \subseteq EventIds /\ ~invoice.confirmed
  BY <1>1, BillingTyped DEF BillingInv, PaymentsSound, ConfirmedInFull, Effective
<1>3. /\ b.invoice \in InvoiceRow /\ b.attempts \in Seq(AttemptRow)
      /\ ~b.invoice.confirmed /\ ~IsEffective(b.invoice)
      /\ StateOf(b.invoice) \in {StateOf(invoice), "unpaid"}
      /\ DOMAIN attempts \subseteq DOMAIN b.attempts
  BY <1>1, <1>2, BegunRows
<1>4. PaidInFull(invoice', attempts', events')
  BY <1>1, <1>3 DEF PaidInFull
<1>5. BillingInv'
  BY <1>1, <1>2, <1>3, <1>4, InvoiceKept
<1>6. StateOf(invoice) # "paid"
  BY <1>1, <1>2 DEF StateOf, InvoiceRow, InvoiceStatus
<1>. QED
  BY <1>1, <1>3, <1>5, <1>6 DEF Kept, SettlementStep

\* A completed checkout opens the invoice and pays it in one transaction
LEMMA CompleteKept ==
  ASSUME BillingInv, NEW key \in Keys \cup {NoKey}, CompleteMockPayment(key)
  PROVE  Kept
<1>1. PICK b : b = IF key = NoKey /\ attempts # <<>>
                   THEN [invoice |-> invoice, attempts |-> attempts]
                   ELSE Begun(invoice, attempts, key)
  OBVIOUS
<1>2. ~IsEffective(invoice) /\ Len(b.attempts) <= MaxAttempts /\ Notice /\ tabs' = tabs
  BY <1>1 DEF CompleteMockPayment, RoomFor, Effective
<1>3. PICK a \in Completing(b.attempts, key) :
        LET e == EventId("complete", "success", a)
            h == Handled(b.invoice, b.attempts, e, a, b.invoice.total) IN
        /\ Fresh(e)
        /\ Creditable(b.invoice, b.attempts, a, b.invoice.total)
        /\ events' = events \cup {e}
        /\ invoice' = h.invoice
        /\ attempts' = h.attempts
  BY <1>1 DEF CompleteMockPayment
<1> DEFINE e == EventId("complete", "success", a)
           h == Handled(b.invoice, b.attempts, e, a, b.invoice.total)
<1>4. /\ invoice \in InvoiceRow /\ attempts \in Seq(AttemptRow) /\ Len(attempts) <= MaxAttempts
      /\ events \subseteq EventIds /\ ~invoice.confirmed
  BY <1>2, BillingTyped DEF BillingInv, PaymentsSound, ConfirmedInFull, Effective
<1>5. /\ b.invoice \in InvoiceRow /\ b.attempts \in Seq(AttemptRow)
      /\ ~b.invoice.confirmed /\ DOMAIN attempts \subseteq DOMAIN b.attempts
  <2>1. CASE key = NoKey /\ attempts # <<>>
    BY <1>1, <1>4, <2>1
  <2>2. CASE ~(key = NoKey /\ attempts # <<>>)
    BY <1>1, <1>2, <1>4, <2>2, BegunRows
  <2>. QED
    BY <2>1, <2>2
<1>6. a \in 1..Len(b.attempts) /\ a \in 1..MaxAttempts
  <2>1. Len(b.attempts) \in Nat /\ DOMAIN b.attempts = 1..Len(b.attempts) /\ a # 0
    BY <1>3, <1>5, LenProperties DEF Creditable
  <2>2. a \in 1..Len(b.attempts)
    BY <1>3, <2>1 DEF Completing, WithKey
  <2>. QED
    BY <1>2, <2>1, <2>2, BillingAssumption
<1>7. e \in EventIds /\ e.kind = "success" /\ e \notin events
  BY <1>3, <1>6 DEF EventId, EventIds, Fresh
<1>8. /\ h.invoice \in InvoiceRow /\ h.attempts \in Seq(AttemptRow)
      /\ Len(h.attempts) = Len(b.attempts)
      /\ PaidInFull(h.invoice, h.attempts, events')
  <2>1. PaidInFull(b.invoice, b.attempts, events)
    BY <1>5 DEF PaidInFull
  <2>2. events \subseteq events' /\ e \in events' /\ a \in Nat /\ b.invoice.total \in PriceOrNone
    BY <1>3, <1>5, <1>6, BillingAssumption DEF InvoiceRow, PriceOrNone
  <2>. QED
    BY <1>2, <1>5, <1>7, <2>1, <2>2, HandledRows
<1>9. StateOf(h.invoice) = "paid"
  <2>1. h.invoice = Confirmed(b.invoice, e, Found(b.attempts, a), b.invoice.total)
    <3>1. Found(b.attempts, a) = a
      BY <1>5, <1>6, LenProperties DEF Found
    <3>. QED
      BY <1>3, <1>7, <3>1 DEF Handled, InvoiceAfter
  <2>2. h.invoice.status = "paid" /\ h.invoice.confirmed
    BY <1>5, <2>1 DEF Confirmed, InvoiceRow
  <2>. QED
    BY <2>2 DEF StateOf, IsEffective
<1>10. events' = events \cup {e} /\ invoice' = h.invoice /\ attempts' = h.attempts
  BY <1>3
<1>11. DOMAIN attempts \subseteq DOMAIN attempts'
  BY <1>5, <1>8, <1>10, LenProperties
<1>12. BillingInv'
  <2>1. events' \subseteq EventIds
    BY <1>4, <1>7, <1>10
  <2>. QED
    BY <1>2, <1>8, <1>10, <1>11, <2>1, InvoiceKept
<1>. QED
  BY <1>7, <1>9, <1>10, <1>12 DEF Kept, SettlementStep, After

LEMMA BillingStep ==
  ASSUME BillingInv, [BillingNext]_billingVars
  PROVE  Kept
<1>1. ASSUME NEW key \in Keys \cup {NoKey}, InitPayment(key) PROVE Kept
  BY <1>1, BeginKept
<1>2. ASSUME NEW key \in Keys \cup {NoKey}, CompleteMockPayment(key) PROVE Kept
  BY <1>2, CompleteKept
<1>3. ASSUME NEW d \in Deliveries, NEW kind \in EventKinds, NEW ref \in 0..MaxAttempts,
             NEW amount \in Prices, Deliver(d, kind, ref, amount)
      PROVE  Kept
  <2>1. EventId("provider", kind, d) \in EventIds /\ ref \in Nat /\ amount \in PriceOrNone
    BY DEF EventId, EventIds, PriceOrNone
  <2>. QED
    BY <1>3, <2>1, WebhookKept DEF Deliver
<1>4. ASSUME NEW t \in Tabs, SubmitCheckout(t) PROVE Kept
  <2> DEFINE e == EventId("checkout", tabs[t].action, tabs[t].attempt)
  <2>1. /\ tabs[t].attempt \in 1..MaxAttempts /\ tabs[t].action \in PageActions
        /\ tabs[t].amount \in PriceOrNone
    <3>1. tabs[t] \in [attempt : AttemptOrNone, action : PageActions, amount : PriceOrNone, paid : BOOLEAN]
      BY BillingTyped DEF BillingInv
    <3>2. tabs[t].attempt \in DOMAIN attempts /\ DOMAIN attempts = 1..Len(attempts)
      BY <1>4, BillingTyped, LenProperties DEF BillingInv, PagesOpen, SubmitCheckout
    <3>3. Len(attempts) \in Nat /\ Len(attempts) <= MaxAttempts
      BY BillingTyped, LenProperties DEF BillingInv
    <3>. QED
      BY <3>1, <3>2, <3>3, BillingAssumption
  <2>2. e \in EventIds /\ tabs[t].attempt \in Nat
    BY <2>1, BillingAssumption DEF EventId, EventIds
  <2>3. CASE HandleWebhook(e, tabs[t].attempt, tabs[t].amount)
    BY <1>4, <2>1, <2>2, <2>3, WebhookKept DEF SubmitCheckout
  <2>4. CASE UNCHANGED <<invoice, attempts, events, notices>>
    <3>1. PaidInFull(invoice', attempts', events') /\ PaymentAnnounced'
      BY <2>4 DEF BillingInv, PaymentsSound, ConfirmedInFull, PaymentAnnounced, PaidInFull, Effective
    <3>2. Notice
      BY <2>4 DEF BillingInv, PaymentsSound, PaymentAnnounced, Notice, Effective
    <3>3. BillingInv'
      BY <1>4, <2>4, <3>1, <3>2, BillingTyped, InvoiceKept DEF SubmitCheckout, BillingInv
    <3>. QED
      BY <2>4, <3>3 DEF Kept, SettlementStep
  <2>. QED
    BY <1>4, <2>3, <2>4 DEF SubmitCheckout
<1>5. ASSUME NEW t \in Tabs, NEW a \in 1..MaxAttempts, NEW action \in PageActions,
             OpenCheckout(t, a, action)
      PROVE  Kept
  <2> DEFINE page == [attempt |-> a, action |-> action, amount |-> invoice.total, paid |-> Effective]
  <2>1. page \in [attempt : AttemptOrNone, action : PageActions, amount : PriceOrNone, paid : BOOLEAN]
    BY BillingTyped, BillingAssumption
       DEF BillingInv, InvoiceRow, AttemptOrNone, PriceOrNone, Effective, IsEffective
  <2>2. /\ tabs' = [tabs EXCEPT ![t] = page] /\ a \in DOMAIN attempts
        /\ UNCHANGED <<invoice, attempts, events, notices>>
    BY <1>5 DEF OpenCheckout
  <2>3. PagesOpen'
    BY <2>2, BillingTyped DEF BillingInv, PagesOpen
  <2>4. BillingTypeOK'
    BY <2>1, <2>2, BillingTyped
       DEF BillingInv, BillingTypeOK, InvoiceRow, AttemptRow, EventOrNone, AttemptOrNone, PriceOrNone
  <2>5. PaymentsSound'
    BY <2>2 DEF BillingInv, PaymentsSound, ConfirmedInFull, PaymentAnnounced, Effective
  <2>. QED
    BY <2>2, <2>3, <2>4, <2>5 DEF BillingInv, Kept, SettlementStep
<1>6. ASSUME NEW p \in Prices, Reprice(p) PROVE Kept
  <2>1. /\ invoice \in InvoiceRow /\ invoice' = [invoice EXCEPT !.total = p] /\ Notice
        /\ invoice.status # "paid" /\ UNCHANGED <<attempts, events, tabs>>
    BY <1>6, BillingTyped DEF Reprice, BillingInv
  <2>2. invoice' \in InvoiceRow /\ invoice'.status = invoice.status /\ invoice'.confirmed = invoice.confirmed
    BY <2>1 DEF InvoiceRow
  <2>3. ~invoice.confirmed
    BY <2>1 DEF BillingInv, PaymentsSound, ConfirmedInFull, Effective, IsEffective
  <2>4. PaidInFull(invoice', attempts', events') /\ StateOf(invoice') = StateOf(invoice)
    BY <2>1, <2>2, <2>3 DEF PaidInFull, StateOf, IsEffective
  <2>5. BillingInv'
    BY <2>1, <2>2, <2>4, BillingTyped, InvoiceKept DEF BillingInv
  <2>. QED
    BY <2>1, <2>4, <2>5 DEF Kept, SettlementStep
<1>7. CASE UNCHANGED billingVars
  BY <1>7
     DEF billingVars, Kept, SettlementStep, BillingInv, BillingTypeOK, PaymentsSound, ConfirmedInFull,
         PaymentAnnounced, PagesOpen, Effective
<1>. QED
  BY <1>1, <1>2, <1>3, <1>4, <1>5, <1>6, <1>7 DEF BillingNext

LEMMA BillingStarts == BillingInit => BillingInv
<1> SUFFICES ASSUME BillingInit PROVE BillingInv
  OBVIOUS
<1>1. invoice \in InvoiceRow /\ ~invoice.confirmed /\ ~IsEffective(invoice)
  <2>1. NoEvent \in EventOrNone /\ 0 \in AttemptOrNone /\ 0 \in PriceOrNone
    BY BillingAssumption DEF EventOrNone, AttemptOrNone, PriceOrNone
  <2>. QED
    BY <2>1 DEF BillingInit, InvoiceRow, InvoiceStatus, Effective
<1>2. NoPage \in [attempt : AttemptOrNone, action : PageActions, amount : PriceOrNone, paid : BOOLEAN]
  BY BillingAssumption DEF NoPage, AttemptOrNone, PriceOrNone
<1>3. /\ attempts = <<>> /\ events = {} /\ notices = 0 /\ tabs = [t \in Tabs |-> NoPage]
  BY DEF BillingInit
<1>4. attempts \in Seq(AttemptRow) /\ Len(attempts) = 0
  BY <1>3, EmptySeq
<1>5. BillingTypeOK
  BY <1>1, <1>2, <1>3, <1>4, BillingTyped, BillingAssumption
<1>. QED
  BY <1>1, <1>3, <1>5
     DEF BillingInv, PaymentsSound, ConfirmedInFull, PaymentAnnounced, PagesOpen, Effective

\* A payment in force was confirmed in full by a success event of an attempt
\* that has not failed since, and announced once, for any number of attempts,
\* keys, tabs, prices and events in any order.
THEOREM PaymentsCorrect == BillingSpec => [](BillingTypeOK /\ PaymentsSound)
<1>1. BillingInv /\ [BillingNext]_billingVars => BillingInv'
  BY BillingStep DEF Kept
<1>2. BillingInv => BillingTypeOK /\ PaymentsSound
  BY DEF BillingInv
<1>. QED
  BY <1>1, <1>2, BillingStarts, PTL DEF BillingSpec

\* Whatever billing does to an invoice is a step of Settlement: payment by a
\* fresh success event, its end by another fresh event, and no event twice.
THEOREM SettlementImplemented == BillingSpec => ImplementsSettlement
<1>1. BillingInit => Contract!Init
  <2> SUFFICES ASSUME BillingInit PROVE InvoiceState \in {"unpaid", "claimed"} /\ events = {}
    BY DEF Contract!Init
  <2>. QED
    BY DEF BillingInit, InvoiceState, Effective, IsEffective
<1>2. BillingInv /\ [BillingNext]_billingVars => BillingInv'
  BY BillingStep DEF Kept
<1>3. BillingInv /\ [BillingNext]_billingVars => [Contract!Next]_(Contract!settlementVars)
  <2> SUFFICES ASSUME BillingInv, [BillingNext]_billingVars
               PROVE  Contract!Next \/ UNCHANGED Contract!settlementVars
    OBVIOUS
  <2>1. SettlementStep
    BY BillingStep DEF Kept
  <2>2. InvoiceState = StateOf(invoice) /\ InvoiceState' = StateOf(invoice')
    BY DEF InvoiceState, StateOf, Effective
  <2>3. \A kind, state : Contract!After(kind, state) = After(kind, state)
    BY DEF Contract!After, After
  <2>. QED
    BY <2>1, <2>2, <2>3
       DEF SettlementStep, Contract!Next, Contract!Open, Contract!Receive, Contract!settlementVars
<1>. QED
  BY <1>1, <1>2, <1>3, BillingStarts, PTL DEF BillingSpec, ImplementsSettlement, Contract!Spec

\* A page is opened only while there is something to pay
OpenedUnpaid == \A t \in Tabs : ~tabs[t].paid

LEMMA OpenedKept ==
  ASSUME BillingInv, OpenedUnpaid, [BillingNext]_billingVars
  PROVE  OpenedUnpaid'
<1>1. tabs \in [Tabs -> [attempt : AttemptOrNone, action : PageActions, amount : PriceOrNone, paid : BOOLEAN]]
  BY BillingTyped DEF BillingInv
<1>2. \/ tabs' = tabs
      \/ \E t \in Tabs : tabs' = [tabs EXCEPT ![t] = NoPage]
      \/ \E t \in Tabs, a \in 1..MaxAttempts, action \in PageActions : OpenCheckout(t, a, action)
  <2>1. CASE \E t \in Tabs : SubmitCheckout(t)
    BY <2>1 DEF SubmitCheckout
  <2>2. CASE tabs' = tabs
    BY <2>2
  <2>. QED
    BY <2>1, <2>2 DEF BillingNext, billingVars, InitPayment, CompleteMockPayment, Deliver, Reprice
<1>3. ASSUME NEW t \in Tabs, tabs' = [tabs EXCEPT ![t] = NoPage] PROVE OpenedUnpaid'
  <2>1. ~NoPage.paid
    BY DEF NoPage
  <2>. QED
    BY <1>1, <1>3, <2>1 DEF OpenedUnpaid
<1>4. ASSUME NEW t \in Tabs, NEW a \in 1..MaxAttempts, NEW action \in PageActions, OpenCheckout(t, a, action)
      PROVE  OpenedUnpaid'
  <2>1. PICK page : /\ page = [attempt |-> a, action |-> action, amount |-> invoice.total, paid |-> Effective]
                    /\ tabs' = [tabs EXCEPT ![t] = page]
    BY <1>4 DEF OpenCheckout
  <2>2. ~Effective
    BY <1>4 DEF OpenCheckout, Payable
  <2>3. page.paid = Effective
    BY <2>1
  <2>4. ~page.paid
    BY <2>2, <2>3
  <2>. QED
    BY <1>1, <2>1, <2>4 DEF OpenedUnpaid
<1>. QED
  BY <1>2, <1>3, <1>4 DEF OpenedUnpaid

\* An event that undoes a payment in force is neither a success nor unknown
LEMMA UndoneBy ==
  ASSUME BillingInv, NEW e \in EventIds, NEW ref \in Nat, NEW amount \in PriceOrNone,
         HandleWebhook(e, ref, amount), IsEffective(invoice), ~IsEffective(invoice')
  PROVE  e.kind \in {"failure", "cancelled", "reversal"} /\ e \in events' \ events
<1>1. /\ e \in events' \ events
      /\ invoice' \in {invoice, InvoiceAfter(invoice, e, Found(attempts, ref), amount)}
  BY DEF HandleWebhook, Fresh, Handled
<1>2. invoice \in InvoiceRow
  BY BillingTyped DEF BillingInv
<1>3. e.kind # "other"
  BY <1>1 DEF InvoiceAfter
<1>4. IsEffective(Confirmed(invoice, e, Found(attempts, ref), amount))
  BY <1>2 DEF Confirmed, InvoiceRow, IsEffective
<1>5. e.kind # "success"
  BY <1>1, <1>4 DEF InvoiceAfter
<1>. QED
  BY <1>1, <1>3, <1>5, BillingAssumption DEF EventIds, EventKinds

\* A payment in force is undone only by an event of the provider or by a page
\* that was opened before it took effect.
THEOREM ReversalsFromOutside == BillingSpec => ReversedFromOutside
<1> DEFINE Outside ==
      \/ \E e \in events' \ events :
           e.from = "provider" /\ e.kind \in {"failure", "cancelled", "reversal"}
      \/ \E t \in Tabs :
           /\ EventId("checkout", tabs[t].action, tabs[t].attempt) \in events' \ events
           /\ ~tabs[t].paid
<1>1. BillingInv /\ OpenedUnpaid /\ [BillingNext]_billingVars =>
        BillingInv' /\ OpenedUnpaid' /\ [Effective /\ ~IsEffective(invoice') => Outside]_billingVars
  <2> SUFFICES ASSUME BillingInv, OpenedUnpaid, BillingNext, IsEffective(invoice), ~IsEffective(invoice')
               PROVE  Outside
    BY BillingStep, OpenedKept DEF Kept, Effective
  <2>1. ASSUME NEW d \in Deliveries, NEW kind \in EventKinds, NEW ref \in 0..MaxAttempts,
               NEW amount \in Prices, Deliver(d, kind, ref, amount)
        PROVE  Outside
    <3> DEFINE e == EventId("provider", kind, d)
    <3>1. e \in EventIds /\ e.from = "provider" /\ ref \in Nat /\ amount \in PriceOrNone
      BY DEF EventId, EventIds, PriceOrNone
    <3>2. e.kind \in {"failure", "cancelled", "reversal"} /\ e \in events' \ events
      BY <2>1, <3>1, UndoneBy DEF Deliver
    <3>. QED
      BY <3>1, <3>2
  <2>2. ASSUME NEW t \in Tabs, SubmitCheckout(t) PROVE Outside
    <3>1. EventId("checkout", tabs[t].action, tabs[t].attempt) \in events' \ events
      BY <2>2 DEF SubmitCheckout, HandleWebhook, Fresh
    <3>. QED
      BY <3>1 DEF OpenedUnpaid
  <2>3. CASE \E p \in Prices : Reprice(p)
    BY <2>3 DEF Reprice, IsEffective
  <2>4. CASE \E t \in Tabs, a \in 1..MaxAttempts, action \in PageActions : OpenCheckout(t, a, action)
    BY <2>4 DEF OpenCheckout
  <2>5. CASE \E key \in Keys \cup {NoKey} : InitPayment(key) \/ CompleteMockPayment(key)
    BY <2>5 DEF InitPayment, CompleteMockPayment, Effective
  <2>. QED
    BY <2>1, <2>2, <2>3, <2>4, <2>5 DEF BillingNext
<1>2. BillingInit => OpenedUnpaid
  BY DEF BillingInit, OpenedUnpaid, NoPage
<1>. QED
  BY <1>1, <1>2, BillingStarts, PTL DEF BillingSpec, ReversedFromOutside

-----------------------------------------------------------------------------
(* Extras: the credits *)

PurchaseRow ==
    [status : {"none", "pending_payment", "active", "consumed"}, used : 0..Credits, inv : InvoiceStates]

\* Nothing marks these invoices paid by hand; what was activated was paid, and
\* is not used up while it is active unless it was paid again.
PurchaseSound(p) ==
    /\ purchases[p].inv # "claimed"
    /\ purchases[p].status \in {"active", "consumed"} => p \in paidOnce
    /\ purchases[p].status \in {"none", "pending_payment"} => purchases[p].used = 0
    /\ ~againPaid /\ purchases[p].status = "active" => purchases[p].used < Credits

CreditsInv == CreditsTypeOK /\ \A p \in Purchases : PurchaseSound(p)

LEMMA CreditsTyped ==
  CreditsTypeOK <=>
    purchases \in [Purchases -> PurchaseRow] /\ paidOnce \subseteq Purchases /\ againPaid \in BOOLEAN
  BY DEF CreditsTypeOK, PurchaseRow

\* A step changes one purchase; the others stay sound.
LEMMA PurchaseChanged ==
  ASSUME CreditsInv, NEW p \in Purchases, NEW row \in PurchaseRow,
         purchases' = [purchases EXCEPT ![p] = row],
         paidOnce \subseteq paidOnce', paidOnce' \subseteq Purchases,
         againPaid' \in BOOLEAN, againPaid => againPaid',
         row.inv # "claimed",
         row.status \in {"active", "consumed"} => p \in paidOnce',
         row.status \in {"none", "pending_payment"} => row.used = 0,
         ~againPaid' /\ row.status = "active" => row.used < Credits
  PROVE  CreditsInv'
<1>1. /\ purchases' \in [Purchases -> PurchaseRow] /\ purchases'[p] = row
      /\ \A q \in Purchases : q # p => purchases'[q] = purchases[q]
  BY CreditsTyped DEF CreditsInv
<1>2. CreditsTypeOK'
  BY <1>1 DEF CreditsTypeOK, PurchaseRow
<1>3. ASSUME NEW q \in Purchases PROVE PurchaseSound(q)'
  <2>1. CASE q = p
    BY <1>1, <2>1 DEF PurchaseSound
  <2>2. CASE q # p
    BY <1>1, <2>2 DEF CreditsInv, PurchaseSound
  <2>. QED
    BY <2>1, <2>2
<1>. QED
  BY <1>2, <1>3 DEF CreditsInv

LEMMA BuyKept == ASSUME CreditsInv, NEW p \in Purchases, Buy(p) PROVE CreditsInv'
<1> DEFINE row == [purchases[p] EXCEPT !.status = "pending_payment"]
<1>1. purchases[p] \in PurchaseRow /\ PurchaseSound(p) /\ purchases[p].status = "none"
  BY CreditsTyped DEF CreditsInv, Buy, Bought
<1>2. /\ row \in PurchaseRow /\ row.status = "pending_payment"
      /\ row.used = purchases[p].used /\ row.inv = purchases[p].inv
  BY <1>1 DEF PurchaseRow
<1>3. /\ purchases' = [purchases EXCEPT ![p] = row] /\ UNCHANGED <<paidOnce, againPaid>>
      /\ paidOnce \subseteq Purchases /\ againPaid \in BOOLEAN
  BY CreditsTyped DEF Buy, CreditsInv
<1> HIDE DEF row
<1>. QED
  BY <1>1, <1>2, <1>3, PurchaseChanged DEF PurchaseSound

\* A payment activates the purchase, and only a payment does.
LEMMA InvoiceOfExtraKept ==
  ASSUME CreditsInv, NEW p \in Purchases, NEW s \in InvoiceStates, SaveExtraInvoice(p, s)
  PROVE  CreditsInv'
<1> DEFINE saved == [purchases[p] EXCEPT !.inv = s]
           row == ExtraActivated(saved)
<1>1. /\ purchases[p] \in PurchaseRow /\ PurchaseSound(p) /\ purchases[p].status # "none"
      /\ paidOnce \subseteq Purchases /\ againPaid \in BOOLEAN
  BY CreditsTyped DEF CreditsInv, SaveExtraInvoice, Bought
<1>2. s # "claimed"
  <2>1. s \in ExtraInvoiceMoves(purchases[p].inv) /\ purchases[p].inv # "claimed"
    BY <1>1 DEF SaveExtraInvoice, PurchaseSound
  <2>2. \A kind \in EventKinds : After(kind, purchases[p].inv) # "claimed"
    BY <2>1 DEF After, EventKinds
  <2>. QED
    BY <2>1, <2>2 DEF ExtraInvoiceMoves
<1>3. /\ saved \in PurchaseRow /\ saved.inv = s
      /\ saved.status = purchases[p].status /\ saved.used = purchases[p].used
  BY <1>1 DEF PurchaseRow
<1>4. purchases' = [purchases EXCEPT ![p] = row]
  BY DEF SaveExtraInvoice
<1>5. /\ paidOnce' = IF s = "paid" THEN paidOnce \cup {p} ELSE paidOnce
      /\ againPaid' = (againPaid \/ (s = "paid" /\ purchases[p].status = "consumed"))
  BY DEF SaveExtraInvoice
<1> HIDE DEF saved
<1>6. /\ row \in PurchaseRow /\ row.inv = s /\ row.used = saved.used
      /\ row.status = IF s = "paid" THEN "active" ELSE saved.status
  BY <1>2, <1>3 DEF ExtraActivated, PurchaseRow
<1> HIDE DEF row
<1>7. Credits \in Nat /\ 0 < Credits
  BY CreditsAssumption
<1>8. againPaid' \in BOOLEAN /\ (againPaid => againPaid')
  BY <1>1, <1>5
<1>9. paidOnce \subseteq paidOnce' /\ paidOnce' \subseteq Purchases /\ (s = "paid" => p \in paidOnce')
  BY <1>1, <1>5
<1>10. row.status \in {"active", "consumed"} => p \in paidOnce'
  BY <1>1, <1>3, <1>6, <1>9 DEF PurchaseSound
<1>11. row.status \in {"none", "pending_payment"} => row.used = 0
  BY <1>1, <1>3, <1>6 DEF PurchaseSound
<1>12. ASSUME ~againPaid', row.status = "active" PROVE row.used < Credits
  <2>1. ~againPaid /\ (s = "paid" => purchases[p].status # "consumed")
    BY <1>5, <1>12
  <2>2. purchases[p].status \in {"pending_payment", "active"}
    BY <1>1, <1>3, <1>6, <1>12, <2>1 DEF PurchaseRow
  <2>. QED
    BY <1>1, <1>3, <1>6, <1>7, <2>1, <2>2 DEF PurchaseSound
<1>. QED
  BY <1>2, <1>4, <1>6, <1>8, <1>9, <1>10, <1>11, <1>12, PurchaseChanged

LEMMA ConsumeKept ==
  ASSUME CreditsInv, NEW p \in Purchases, NEW n \in 1..Credits, Consume(p, n)
  PROVE  CreditsInv'
<1> DEFINE row == ConsumedBy(purchases[p], n)
<1>1. /\ purchases[p] \in PurchaseRow /\ PurchaseSound(p) /\ purchases[p].status = "active"
      /\ paidOnce \subseteq Purchases /\ againPaid \in BOOLEAN
  BY CreditsTyped DEF CreditsInv, Consume, Newest, Usable
<1>2. /\ purchases' = [purchases EXCEPT ![p] = row] /\ UNCHANGED <<paidOnce, againPaid>>
      /\ purchases[p].used + n <= Credits
  BY DEF Consume
<1>3. purchases[p].used \in Nat /\ n \in Nat /\ Credits \in Nat
  BY <1>1, CreditsAssumption DEF PurchaseRow
<1>4. purchases[p].used + n \in 0..Credits
  BY <1>2, <1>3
<1>5. /\ row \in PurchaseRow /\ row.used = purchases[p].used + n /\ row.inv = purchases[p].inv
      /\ row.status = IF purchases[p].used + n = Credits THEN "consumed" ELSE "active"
  BY <1>1, <1>4 DEF ConsumedBy, PurchaseRow
<1> HIDE DEF row
<1>6. row.status = "active" => row.used < Credits
  BY <1>2, <1>3, <1>5
<1>7. /\ row.inv # "claimed" /\ row.status \in {"active", "consumed"} /\ p \in paidOnce'
  BY <1>1, <1>2, <1>5 DEF PurchaseSound
<1>. QED
  BY <1>1, <1>2, <1>5, <1>6, <1>7, PurchaseChanged

LEMMA CreditsStart == CreditsInit => CreditsInv
<1> SUFFICES ASSUME CreditsInit PROVE CreditsInv
  OBVIOUS
<1>1. NoPurchase \in PurchaseRow /\ NoPurchase.status = "none" /\ NoPurchase.used = 0 /\ NoPurchase.inv = "unpaid"
  BY CreditsAssumption DEF NoPurchase, PurchaseRow, InvoiceStates
<1>2. CreditsTypeOK
  BY <1>1, CreditsTyped DEF CreditsInit
<1>. QED
  BY <1>1, <1>2 DEF CreditsInit, CreditsInv, PurchaseSound

LEMMA CreditsStep == CreditsInv /\ [CreditsNext]_creditVars => CreditsInv'
<1> SUFFICES ASSUME CreditsInv, [CreditsNext]_creditVars PROVE CreditsInv'
  OBVIOUS
<1>1. CASE UNCHANGED creditVars
  BY <1>1 DEF creditVars, CreditsInv, CreditsTypeOK, PurchaseSound
<1>2. CASE CreditsNext
  BY <1>2, BuyKept, InvoiceOfExtraKept, ConsumeKept DEF CreditsNext
<1>. QED
  BY <1>1, <1>2

LEMMA CreditsHolds == CreditsInv => CreditsTypeOK /\ UsedPaid /\ CreditsReachable
<1> SUFFICES ASSUME CreditsInv PROVE UsedPaid /\ CreditsReachable
  BY DEF CreditsInv
<1>1. \A p \in Purchases : purchases[p] \in PurchaseRow /\ PurchaseSound(p)
  BY CreditsTyped DEF CreditsInv
<1>2. UsedPaid
  BY <1>1 DEF UsedPaid, PurchaseSound, PurchaseRow
<1>3. CreditsReachable
  BY <1>1 DEF CreditsReachable, PurchaseSound, Newest, Usable, Bought
<1>. QED
  BY <1>2, <1>3

\* Credits are consumed only from what was paid for, and an active purchase
\* hides no older one, for any number of purchases and credits, unless its
\* invoice was saved as paid again after it was consumed.
THEOREM CreditsCorrect == CreditsSpec => [](CreditsTypeOK /\ UsedPaid /\ CreditsReachable)
BY CreditsStart, CreditsStep, CreditsHolds, PTL DEF CreditsSpec

-----------------------------------------------------------------------------
(* Extras: the bundle and its portal *)

ClerkRow ==
    [step : {"idle", "editing", "closing", "checked", "drafted", "refreshed", "issued"},
     read : BundleStatus, want : BundleStatus, inv : BillStates]

BillRow == [state : BillStates, attempt : BOOLEAN, over : BOOLEAN]
PortalRow == [status : {"none", "active", "inactive"}, over : BOOLEAN]

\* What a clerk has read and chosen: a closed request is only closed again,
\* an invoice is issued for an open one, and a payment that comes under the
\* writing of the invoice is noted.
ClerkSound(c) ==
    /\ AtStep(c, "editing") => Allowed(clerks[c].read, clerks[c].want)
    /\ clerks[c].step \in {"checked", "drafted", "refreshed", "issued"} => clerks[c].read # "closed"
    /\ clerks[c].step \in {"checked", "drafted", "refreshed"} /\ BillPaid(bill) => paidUnder
    /\ AtStep(c, "refreshed") /\ clerks[c].inv = "paid" => paidUnder

Excused == jobCrossed \/ leftHalf \/ staleClerk \/ \E c \in Clerks : AtStep(c, "closing")

\* Whom the portal is due has it with time left, and the job has not listed
\* it, so that the job takes no portal that is paid for.
PortalKept ==
    request = "closed" /\ BillPaid(bill) /\ ~bill.over /\ ~Excused =>
      portal.status = "active" /\ ~portal.over /\ ~portalJob

BundleInv == BundleTypeOK /\ (\A c \in Clerks : ClerkSound(c)) /\ PortalKept

BundleSteps ==
    /\ BillPaid(bill) /\ ~BillPaid(bill') => bill'.state \in {"refunded", "cancelled"} \/ paidUnder
    /\ request = "closed" /\ request' # "closed" => staleClerk'

LEMMA BundleTyped ==
  BundleTypeOK <=>
    /\ request \in BundleStatus /\ bill \in BillRow /\ portal \in PortalRow
    /\ clerks \in [Clerks -> ClerkRow]
    /\ portalJob \in BOOLEAN /\ jobCrossed \in BOOLEAN /\ paidUnder \in BOOLEAN
    /\ staleClerk \in BOOLEAN /\ leftHalf \in BOOLEAN
  BY DEF BundleTypeOK, BillRow, PortalRow, ClerkRow

LEMMA BundleTypedNext ==
  BundleTypeOK' <=>
    /\ request' \in BundleStatus /\ bill' \in BillRow /\ portal' \in PortalRow
    /\ clerks' \in [Clerks -> ClerkRow]
    /\ portalJob' \in BOOLEAN /\ jobCrossed' \in BOOLEAN /\ paidUnder' \in BOOLEAN
    /\ staleClerk' \in BOOLEAN /\ leftHalf' \in BOOLEAN
  BY DEF BundleTypeOK, BillRow, PortalRow, ClerkRow

LEMMA ClerkBecomes ==
  ASSUME clerks \in [Clerks -> ClerkRow], NEW c \in Clerks, NEW row \in ClerkRow,
         clerks' = [clerks EXCEPT ![c] = row]
  PROVE  /\ clerks' \in [Clerks -> ClerkRow] /\ clerks'[c] = row
         /\ \A d \in Clerks : d # c => clerks'[d] = clerks[d]
  OBVIOUS

LEMMA AtDeskTyped == AtDesk \in ClerkRow /\ AtDesk.step = "idle"
  BY DEF AtDesk, ClerkRow, BundleStatus, BillStates

LEMMA ClerkDone ==
  ASSUME clerks \in [Clerks -> ClerkRow], NEW c \in Clerks, Done(c)
  PROVE  /\ clerks' \in [Clerks -> ClerkRow] /\ clerks'[c].step = "idle"
         /\ \A d \in Clerks : d # c => clerks'[d] = clerks[d]
  BY AtDeskTyped DEF Done

LEMMA ClerkGoes ==
  ASSUME clerks \in [Clerks -> ClerkRow], NEW c \in Clerks,
         NEW step \in {"closing", "drafted", "issued"}, To(c, step)
  PROVE  /\ clerks' \in [Clerks -> ClerkRow] /\ clerks'[c].step = step
         /\ clerks'[c].read = clerks[c].read
         /\ \A d \in Clerks : d # c => clerks'[d] = clerks[d]
  BY DEF To, ClerkRow

\* The other clerks: what they rely on stays, unless a payment is noted.
LEMMA ClerkStays ==
  ASSUME NEW d \in Clerks, ClerkSound(d), clerks'[d] = clerks[d],
         paidUnder => paidUnder',
         BillPaid(bill') => BillPaid(bill) \/ paidUnder'
           \/ clerks[d].step \notin {"checked", "drafted", "refreshed"}
  PROVE  ClerkSound(d)'
  BY DEF ClerkSound, AtStep, BillPaid

LEMMA ClerkFree ==
  ASSUME NEW c, clerks'[c].step \in {"idle", "closing"}
  PROVE  ClerkSound(c)'
  BY DEF ClerkSound, AtStep

LEMMA ActivatedPortal ==
  ASSUME portal \in PortalRow, portalJob \in BOOLEAN, jobCrossed \in BOOLEAN,
         NEW b \in BillRow, Activate(b)
  PROVE  /\ portal' \in PortalRow /\ portal'.status = "active"
         /\ ~b.over => ~portal'.over
         /\ jobCrossed' \in BOOLEAN /\ (jobCrossed \/ portalJob => jobCrossed')
  BY DEF Activate, Opened, PortalRow, BillRow

LEMMA SavedBill ==
  ASSUME portal \in PortalRow, portalJob \in BOOLEAN, jobCrossed \in BOOLEAN,
         NEW b \in BillRow, SaveBill(b)
  PROVE  /\ bill' = b /\ portal' \in PortalRow
         /\ jobCrossed' \in BOOLEAN /\ (jobCrossed => jobCrossed')
         /\ BillPaid(b) /\ request = "closed" =>
              portal'.status = "active" /\ (~b.over => ~portal'.over) /\ (portalJob => jobCrossed')
<1>1. CASE BillPaid(b) /\ request = "closed"
  <2>1. Activate(b) /\ bill' = b
    BY <1>1 DEF SaveBill, Healed
  <2>. QED
    BY <2>1, ActivatedPortal
<1>2. CASE ~(BillPaid(b) /\ request = "closed")
  BY <1>2 DEF SaveBill, Healed
<1>. QED
  BY <1>1, <1>2

\* The invoice is saved by a clerk or by billing.
LEMMA BillStep ==
  ASSUME BundleInv, NEW b \in BillRow, SaveBill(b), clerks' \in [Clerks -> ClerkRow],
         UNCHANGED <<request, portalJob, staleClerk, leftHalf>>,
         paidUnder' \in BOOLEAN,
         \A c \in Clerks : ClerkSound(c)',
         \A c \in Clerks : AtStep(c, "closing") => AtStep(c, "closing")'
  PROVE  BundleInv'
<1>1. /\ request \in BundleStatus /\ portal \in PortalRow /\ portalJob \in BOOLEAN
      /\ jobCrossed \in BOOLEAN /\ staleClerk \in BOOLEAN /\ leftHalf \in BOOLEAN
  BY BundleTyped DEF BundleInv
<1>2. /\ bill' = b /\ portal' \in PortalRow
      /\ jobCrossed' \in BOOLEAN /\ (jobCrossed => jobCrossed')
      /\ BillPaid(b) /\ request = "closed" =>
           portal'.status = "active" /\ (~b.over => ~portal'.over) /\ (portalJob => jobCrossed')
  BY <1>1, SavedBill
<1>3. BundleTypeOK'
  BY <1>1, <1>2, BundleTypedNext
<1>4. PortalKept'
  BY <1>1, <1>2 DEF PortalKept, Excused, BillPaid
<1>. QED
  BY <1>3, <1>4 DEF BundleInv

LEMMA OpenBundleKept ==
  ASSUME BundleInv, NEW c \in Clerks, NEW want \in BundleStatus, OpenBundle(c, want)
  PROVE  BundleInv' /\ BundleSteps
<1> DEFINE row == [AtDesk EXCEPT !.step = "editing", !.read = request, !.want = want]
<1>1. clerks \in [Clerks -> ClerkRow] /\ request \in BundleStatus
  BY BundleTyped DEF BundleInv
<1>2. row \in ClerkRow /\ row.step = "editing" /\ row.read = request /\ row.want = want
  BY <1>1, AtDeskTyped DEF ClerkRow
<1>3. /\ clerks' = [clerks EXCEPT ![c] = row] /\ Allowed(request, want) /\ AtStep(c, "idle")
      /\ UNCHANGED <<request, bill, portal, portalJob, jobCrossed, paidUnder, staleClerk, leftHalf>>
  BY DEF OpenBundle
<1> HIDE DEF row
<1>4. /\ clerks' \in [Clerks -> ClerkRow] /\ clerks'[c] = row
      /\ \A d \in Clerks : d # c => clerks'[d] = clerks[d]
  BY <1>1, <1>2, <1>3, ClerkBecomes
<1>5. ASSUME NEW d \in Clerks PROVE ClerkSound(d)'
  <2>1. CASE d = c
    BY <1>2, <1>3, <1>4, <2>1 DEF ClerkSound, AtStep
  <2>2. CASE d # c
    BY <1>3, <1>4, <2>2, ClerkStays DEF BundleInv
  <2>. QED
    BY <2>1, <2>2
<1>6. BundleTypeOK'
  BY <1>3, <1>4, BundleTyped, BundleTypedNext DEF BundleInv
<1>7. \A d \in Clerks : AtStep(d, "closing") => AtStep(d, "closing")'
  BY <1>3, <1>4 DEF AtStep
<1>8. PortalKept'
  BY <1>3, <1>7 DEF BundleInv, PortalKept, Excused, BillPaid
<1>. QED
  BY <1>3, <1>5, <1>6, <1>8 DEF BundleInv, BundleSteps, BillPaid

\* A closed request that is written over was read before it was closed.
LEMMA WriteBundleKept ==
  ASSUME BundleInv, NEW c \in Clerks, WriteBundle(c)
  PROVE  BundleInv' /\ BundleSteps
<1>1. /\ clerks \in [Clerks -> ClerkRow] /\ request \in BundleStatus
      /\ clerks[c] \in ClerkRow /\ staleClerk \in BOOLEAN
      /\ clerks[c].want \in BundleStatus
  BY BundleTyped DEF BundleInv, ClerkRow
<1>2. /\ AtStep(c, "editing") /\ Allowed(clerks[c].read, clerks[c].want)
      /\ UNCHANGED <<bill, portal, portalJob, jobCrossed, paidUnder, leftHalf>>
  BY DEF WriteBundle, BundleInv, ClerkSound
<1>3. /\ clerks' \in [Clerks -> ClerkRow] /\ clerks'[c].step \in {"idle", "closing"}
      /\ \A d \in Clerks : d # c => clerks'[d] = clerks[d]
      /\ request' \in BundleStatus /\ staleClerk' \in BOOLEAN /\ (staleClerk => staleClerk')
      /\ request' = "closed" => request = "closed" \/ AtStep(c, "closing")'
      /\ request' # request => request' = clerks[c].want /\ (request # clerks[c].read => staleClerk')
  <2>1. CASE clerks[c].want = "closed" /\ ~Closable(c)
    <3>1. Done(c) /\ UNCHANGED <<request, staleClerk>>
      BY <2>1 DEF WriteBundle
    <3>. QED
      BY <1>1, <3>1, ClerkDone
  <2>2. CASE clerks[c].want = "closed" /\ Closable(c)
    <3>1. /\ To(c, "closing") /\ request' = clerks[c].want
          /\ staleClerk' = (staleClerk \/ request # clerks[c].read)
      BY <2>2 DEF WriteBundle
    <3>. QED
      BY <1>1, <3>1, ClerkGoes DEF AtStep
  <2>3. CASE clerks[c].want # "closed"
    <3>1. /\ Done(c) /\ request' = clerks[c].want
          /\ staleClerk' = (staleClerk \/ request # clerks[c].read)
      BY <2>3 DEF WriteBundle
    <3>. QED
      BY <1>1, <2>3, <3>1, ClerkDone
  <2>. QED
    BY <2>1, <2>2, <2>3
<1>4. ASSUME NEW d \in Clerks PROVE ClerkSound(d)'
  <2>1. CASE d = c
    BY <1>3, <2>1, ClerkFree
  <2>2. CASE d # c
    BY <1>2, <1>3, <2>2, ClerkStays DEF BundleInv
  <2>. QED
    BY <2>1, <2>2
<1>5. BundleTypeOK'
  BY <1>2, <1>3, BundleTyped, BundleTypedNext DEF BundleInv
<1>6. \A d \in Clerks : AtStep(d, "closing") => AtStep(d, "closing")'
  BY <1>2, <1>3 DEF AtStep
<1>7. PortalKept'
  BY <1>2, <1>3, <1>6 DEF BundleInv, PortalKept, Excused, BillPaid
<1>8. BundleSteps
  BY <1>2, <1>3 DEF BundleSteps, BillPaid, Allowed
<1>. QED
  BY <1>4, <1>5, <1>7, <1>8 DEF BundleInv

LEMMA OpenPortalKept ==
  ASSUME BundleInv, NEW c \in Clerks, OpenPortal(c)
  PROVE  BundleInv' /\ BundleSteps
<1>1. /\ clerks \in [Clerks -> ClerkRow] /\ bill \in BillRow /\ portal \in PortalRow
      /\ portalJob \in BOOLEAN /\ jobCrossed \in BOOLEAN /\ leftHalf \in BOOLEAN
  BY BundleTyped DEF BundleInv
<1>2. Done(c) /\ UNCHANGED <<request, bill, portalJob, paidUnder, staleClerk>>
  BY DEF OpenPortal
<1>3. /\ clerks' \in [Clerks -> ClerkRow] /\ clerks'[c].step = "idle"
      /\ \A d \in Clerks : d # c => clerks'[d] = clerks[d]
  BY <1>1, <1>2, ClerkDone
<1>4. /\ portal' \in PortalRow /\ jobCrossed' \in BOOLEAN /\ leftHalf' \in BOOLEAN
      /\ \/ leftHalf'
         \/ /\ portal'.status = "active" /\ (~bill.over => ~portal'.over)
            /\ portalJob => jobCrossed'
  <2>1. CASE Activate(bill) /\ UNCHANGED leftHalf
    BY <1>1, <2>1, ActivatedPortal
  <2>2. CASE leftHalf' = TRUE /\ UNCHANGED <<portal, jobCrossed>>
    BY <1>1, <2>2
  <2>. QED
    BY <2>1, <2>2 DEF OpenPortal
<1>5. ASSUME NEW d \in Clerks PROVE ClerkSound(d)'
  <2>1. CASE d = c
    BY <1>3, <2>1, ClerkFree
  <2>2. CASE d # c
    BY <1>2, <1>3, <2>2, ClerkStays DEF BundleInv
  <2>. QED
    BY <2>1, <2>2
<1>6. BundleTypeOK'
  BY <1>2, <1>3, <1>4, BundleTyped, BundleTypedNext DEF BundleInv
<1>7. PortalKept'
  BY <1>1, <1>2, <1>4 DEF PortalKept, Excused, BillPaid
<1>. QED
  BY <1>2, <1>5, <1>6, <1>7 DEF BundleInv, BundleSteps, BillPaid

\* The invoice was not paid when it was checked.
LEMMA CheckBillKept ==
  ASSUME BundleInv, NEW c \in Clerks, CheckBill(c)
  PROVE  BundleInv' /\ BundleSteps
<1> DEFINE row == [AtDesk EXCEPT !.step = "checked", !.read = request]
<1>1. clerks \in [Clerks -> ClerkRow] /\ request \in BundleStatus
  BY BundleTyped DEF BundleInv
<1>2. row \in ClerkRow /\ row.step = "checked" /\ row.read = request
  BY <1>1, AtDeskTyped DEF ClerkRow
<1>3. /\ clerks' = [clerks EXCEPT ![c] = row] /\ Issuable /\ AtStep(c, "idle")
      /\ UNCHANGED <<request, bill, portal, portalJob, jobCrossed, paidUnder, staleClerk, leftHalf>>
  BY DEF CheckBill
<1> HIDE DEF row
<1>4. /\ clerks' \in [Clerks -> ClerkRow] /\ clerks'[c] = row
      /\ \A d \in Clerks : d # c => clerks'[d] = clerks[d]
  BY <1>1, <1>2, <1>3, ClerkBecomes
<1>5. ASSUME NEW d \in Clerks PROVE ClerkSound(d)'
  <2>1. CASE d = c
    BY <1>2, <1>3, <1>4, <2>1 DEF ClerkSound, AtStep, Issuable, BillPaid
  <2>2. CASE d # c
    BY <1>3, <1>4, <2>2, ClerkStays DEF BundleInv
  <2>. QED
    BY <2>1, <2>2
<1>6. BundleTypeOK'
  BY <1>3, <1>4, BundleTyped, BundleTypedNext DEF BundleInv
<1>7. \A d \in Clerks : AtStep(d, "closing") => AtStep(d, "closing")'
  BY <1>3, <1>4 DEF AtStep
<1>8. PortalKept'
  BY <1>3, <1>7 DEF BundleInv, PortalKept, Excused, BillPaid
<1>. QED
  BY <1>3, <1>5, <1>6, <1>8 DEF BundleInv, BundleSteps, BillPaid

LEMMA DraftBillKept ==
  ASSUME BundleInv, NEW c \in Clerks, DraftBill(c)
  PROVE  BundleInv' /\ BundleSteps
<1> DEFINE b == [bill EXCEPT !.state = "draft"]
<1>1. /\ clerks \in [Clerks -> ClerkRow] /\ bill \in BillRow /\ portal \in PortalRow
      /\ portalJob \in BOOLEAN /\ jobCrossed \in BOOLEAN /\ paidUnder \in BOOLEAN
  BY BundleTyped DEF BundleInv
<1>2. /\ AtStep(c, "checked") /\ SaveBill(b) /\ To(c, "drafted")
      /\ UNCHANGED <<request, portalJob, paidUnder, staleClerk, leftHalf>>
  BY DEF DraftBill
<1>3. b \in BillRow /\ b.state = "draft"
  BY <1>1 DEF BillRow, BillStates
<1> HIDE DEF b
<1>4. bill' = b
  BY <1>2 DEF SaveBill
<1>5. /\ clerks' \in [Clerks -> ClerkRow] /\ clerks'[c].step = "drafted"
      /\ clerks'[c].read = clerks[c].read
      /\ \A d \in Clerks : d # c => clerks'[d] = clerks[d]
  BY <1>1, <1>2, ClerkGoes
<1>6. ASSUME NEW d \in Clerks PROVE ClerkSound(d)'
  <2>1. CASE d = c
    BY <1>2, <1>3, <1>4, <1>5, <2>1 DEF BundleInv, ClerkSound, AtStep, BillPaid
  <2>2. CASE d # c
    BY <1>2, <1>3, <1>4, <1>5, <2>2, ClerkStays DEF BundleInv, BillPaid
  <2>. QED
    BY <2>1, <2>2
<1>7. \A d \in Clerks : AtStep(d, "closing") => AtStep(d, "closing")'
  BY <1>2, <1>5 DEF AtStep
<1>8. BundleInv'
  BY <1>1, <1>2, <1>3, <1>5, <1>6, <1>7, BillStep
<1>9. BillPaid(bill) => paidUnder
  BY <1>2 DEF BundleInv, ClerkSound, AtStep
<1>. QED
  BY <1>2, <1>8, <1>9 DEF BundleSteps

LEMMA ReadBillKept ==
  ASSUME BundleInv, NEW c \in Clerks, ReadBill(c)
  PROVE  BundleInv' /\ BundleSteps
<1>1. clerks \in [Clerks -> ClerkRow] /\ bill.state \in BillStates
  BY BundleTyped DEF BundleInv, BillRow
<1>2. /\ clerks' = [clerks EXCEPT ![c].step = "refreshed", ![c].inv = bill.state]
      /\ AtStep(c, "drafted")
      /\ UNCHANGED <<request, bill, portal, portalJob, jobCrossed, paidUnder, staleClerk, leftHalf>>
  BY DEF ReadBill
<1>3. /\ clerks' \in [Clerks -> ClerkRow] /\ clerks'[c].step = "refreshed"
      /\ clerks'[c].inv = bill.state /\ clerks'[c].read = clerks[c].read
      /\ \A d \in Clerks : d # c => clerks'[d] = clerks[d]
  BY <1>1, <1>2 DEF ClerkRow
<1>4. ASSUME NEW d \in Clerks PROVE ClerkSound(d)'
  <2>1. CASE d = c
    BY <1>2, <1>3, <2>1 DEF BundleInv, ClerkSound, AtStep, BillPaid
  <2>2. CASE d # c
    BY <1>2, <1>3, <2>2, ClerkStays DEF BundleInv
  <2>. QED
    BY <2>1, <2>2
<1>5. BundleTypeOK'
  BY <1>2, <1>3, BundleTyped, BundleTypedNext DEF BundleInv
<1>6. \A d \in Clerks : AtStep(d, "closing") => AtStep(d, "closing")'
  BY <1>2, <1>3 DEF AtStep
<1>7. PortalKept'
  BY <1>2, <1>6 DEF BundleInv, PortalKept, Excused, BillPaid
<1>. QED
  BY <1>2, <1>4, <1>5, <1>7 DEF BundleInv, BundleSteps, BillPaid

\* What the clerk writes is paid only if he read a payment, and that was
\* noted.
LEMMA IssueBillKept ==
  ASSUME BundleInv, NEW c \in Clerks, IssueBill(c)
  PROVE  BundleInv' /\ BundleSteps
<1> DEFINE s == IF clerks[c].inv = "draft" THEN "unpaid" ELSE clerks[c].inv
           b == [bill EXCEPT !.state = s, !.attempt = TRUE]
<1>1. /\ clerks \in [Clerks -> ClerkRow] /\ bill \in BillRow /\ portal \in PortalRow
      /\ portalJob \in BOOLEAN /\ jobCrossed \in BOOLEAN /\ paidUnder \in BOOLEAN
      /\ clerks[c].inv \in BillStates
  BY BundleTyped DEF BundleInv, ClerkRow
<1>2. /\ AtStep(c, "refreshed") /\ SaveBill(b) /\ To(c, "issued")
      /\ UNCHANGED <<request, portalJob, paidUnder, staleClerk, leftHalf>>
  BY DEF IssueBill
<1>3. s \in BillStates /\ (s = "paid" => clerks[c].inv = "paid")
  BY <1>1 DEF BillStates, InvoiceStates
<1> HIDE DEF s
<1>4. b \in BillRow /\ b.state = s
  BY <1>1, <1>3 DEF BillRow
<1> HIDE DEF b
<1>5. bill' = b
  BY <1>2 DEF SaveBill
<1>6. /\ clerks' \in [Clerks -> ClerkRow] /\ clerks'[c].step = "issued"
      /\ clerks'[c].read = clerks[c].read
      /\ \A d \in Clerks : d # c => clerks'[d] = clerks[d]
  BY <1>1, <1>2, ClerkGoes
<1>7. /\ BillPaid(bill) => paidUnder
      /\ BillPaid(bill') => paidUnder
      /\ clerks[c].read # "closed"
  BY <1>2, <1>3, <1>4, <1>5 DEF BundleInv, ClerkSound, AtStep, BillPaid
<1>8. ASSUME NEW d \in Clerks PROVE ClerkSound(d)'
  <2>1. CASE d = c
    BY <1>6, <1>7, <2>1 DEF ClerkSound, AtStep
  <2>2. CASE d # c
    BY <1>2, <1>6, <1>7, <2>2, ClerkStays DEF BundleInv
  <2>. QED
    BY <2>1, <2>2
<1>9. \A d \in Clerks : AtStep(d, "closing") => AtStep(d, "closing")'
  BY <1>2, <1>6 DEF AtStep
<1>10. BundleInv'
  BY <1>1, <1>2, <1>4, <1>6, <1>8, <1>9, BillStep
<1>. QED
  BY <1>2, <1>7, <1>10 DEF BundleSteps

LEMMA WriteIssuedKept ==
  ASSUME BundleInv, NEW c \in Clerks, WriteIssued(c)
  PROVE  BundleInv' /\ BundleSteps
<1>1. clerks \in [Clerks -> ClerkRow] /\ staleClerk \in BOOLEAN
  BY BundleTyped DEF BundleInv
<1>2. /\ AtStep(c, "issued") /\ request' = "in_progress" /\ Done(c)
      /\ staleClerk' = (staleClerk \/ request # clerks[c].read)
      /\ UNCHANGED <<bill, portal, portalJob, jobCrossed, paidUnder, leftHalf>>
  BY DEF WriteIssued
<1>3. /\ clerks' \in [Clerks -> ClerkRow] /\ clerks'[c].step = "idle"
      /\ \A d \in Clerks : d # c => clerks'[d] = clerks[d]
  BY <1>1, <1>2, ClerkDone
<1>4. ASSUME NEW d \in Clerks PROVE ClerkSound(d)'
  <2>1. CASE d = c
    BY <1>3, <2>1, ClerkFree
  <2>2. CASE d # c
    BY <1>2, <1>3, <2>2, ClerkStays DEF BundleInv
  <2>. QED
    BY <2>1, <2>2
<1>5. BundleTypeOK'
  BY <1>1, <1>2, <1>3, BundleTyped, BundleTypedNext DEF BundleInv, BundleStatus
<1>6. PortalKept'
  BY <1>2 DEF PortalKept
<1>7. clerks[c].read # "closed"
  BY <1>2 DEF BundleInv, ClerkSound, AtStep
<1>. QED
  BY <1>2, <1>4, <1>5, <1>6, <1>7 DEF BundleInv, BundleSteps, BillPaid

\* Events take a payment in force away by a refund or a cancellation, and a
\* payment under a clerk's hands is noted.
LEMMA SettleBillKept ==
  ASSUME BundleInv, NEW state \in InvoiceStates, SettleBill(state)
  PROVE  BundleInv' /\ BundleSteps
<1> DEFINE o == bill.over /\ state # "paid"
           b == [bill EXCEPT !.state = state, !.over = o]
<1>1. /\ clerks \in [Clerks -> ClerkRow] /\ bill \in BillRow /\ paidUnder \in BOOLEAN
  BY BundleTyped DEF BundleInv
<1>2. /\ SaveBill([bill EXCEPT !.state = state, !.over = @ /\ state # "paid"])
      /\ state \in BillMoves
      /\ paidUnder' = (paidUnder \/
           \E c \in Clerks : clerks[c].step \in {"checked", "drafted", "refreshed"})
      /\ UNCHANGED <<request, clerks, portalJob, staleClerk, leftHalf>>
  BY DEF SettleBill
<1>3. SaveBill(b)
  BY <1>1, <1>2 DEF BillRow
<1>4. b \in BillRow /\ b.state = state
  BY <1>1 DEF BillRow, BillStates
<1> HIDE DEF b, o
<1>5. bill' = b
  BY <1>3 DEF SaveBill
<1>6. paidUnder' \in BOOLEAN
  BY <1>1, <1>2
<1>7. ASSUME NEW d \in Clerks PROVE ClerkSound(d)'
  BY <1>2, ClerkStays DEF BundleInv
<1>8. BundleInv'
  BY <1>1, <1>2, <1>3, <1>4, <1>6, <1>7, BillStep DEF AtStep
<1>9. ASSUME bill.state = "paid", state # "paid" PROVE state \in {"refunded", "cancelled"}
  <2>1. PICK kind \in EventKinds : state = After(kind, "paid") /\ kind # "other"
    BY <1>2, <1>9 DEF BillMoves
  <2>. QED
    BY <1>9, <2>1 DEF After, EventKinds
<1>. QED
  BY <1>2, <1>4, <1>5, <1>8, <1>9 DEF BundleSteps, BillPaid

LEMMA YearEndsKept == ASSUME BundleInv, YearEnds PROVE BundleInv' /\ BundleSteps
<1>1. bill \in BillRow /\ portal \in PortalRow
  BY BundleTyped DEF BundleInv
<1>2. UNCHANGED <<request, clerks, portalJob, jobCrossed, paidUnder, staleClerk, leftHalf>>
  BY DEF YearEnds
<1>3. bill' \in BillRow /\ bill'.state = bill.state /\ bill'.over /\ portal' \in PortalRow
  BY <1>1 DEF YearEnds, BillRow, PortalRow
<1>4. \A d \in Clerks : ClerkSound(d)'
  BY <1>2, <1>3, ClerkStays DEF BundleInv, BillPaid
<1>5. BundleTypeOK'
  BY <1>2, <1>3, BundleTyped, BundleTypedNext DEF BundleInv
<1>6. PortalKept'
  BY <1>3 DEF PortalKept
<1>. QED
  BY <1>2, <1>3, <1>4, <1>5, <1>6 DEF BundleInv, BundleSteps, BillPaid

\* The job lists no portal that is due, so that what it shuts is due to
\* nobody.
LEMMA PortalJobKept == ASSUME BundleInv, ListPortal \/ ExpirePortal PROVE BundleInv' /\ BundleSteps
<1>1. portal \in PortalRow
  BY BundleTyped DEF BundleInv
<1>2. UNCHANGED <<request, bill, clerks, jobCrossed, paidUnder, staleClerk, leftHalf>>
  BY DEF ListPortal, ExpirePortal
<1>3. \A d \in Clerks : ClerkSound(d)'
  BY <1>2, ClerkStays DEF BundleInv
<1>4. portal' \in PortalRow /\ portalJob' \in BOOLEAN
  BY <1>1 DEF ListPortal, ExpirePortal, Shut, PortalRow
<1>5. BundleTypeOK'
  BY <1>2, <1>4, BundleTyped, BundleTypedNext DEF BundleInv
<1>6. PortalKept'
  <2>1. CASE ListPortal
    BY <1>2, <2>1 DEF BundleInv, PortalKept, Excused, ListPortal, AtStep
  <2>2. CASE ExpirePortal
    BY <1>2, <2>2 DEF BundleInv, PortalKept, Excused, ExpirePortal, AtStep
  <2>. QED
    BY <2>1, <2>2
<1>. QED
  BY <1>2, <1>3, <1>5, <1>6 DEF BundleInv, BundleSteps

LEMMA BundleStart == BundleInit => BundleInv
<1> SUFFICES ASSUME BundleInit PROVE BundleInv
  OBVIOUS
<1>1. bill \in BillRow /\ portal \in PortalRow
  BY DEF BundleInit, BillRow, PortalRow, BillStates
<1>2. BundleTypeOK
  BY <1>1, AtDeskTyped, BundleTyped DEF BundleInit, BundleStatus
<1>. QED
  BY <1>2, AtDeskTyped DEF BundleInit, BundleInv, ClerkSound, AtStep, PortalKept

LEMMA BundleStep == BundleInv /\ [BundleNext]_bundleVars => BundleInv' /\ [BundleSteps]_bundleVars
<1> SUFFICES ASSUME BundleInv, [BundleNext]_bundleVars PROVE BundleInv' /\ [BundleSteps]_bundleVars
  OBVIOUS
<1>1. CASE UNCHANGED bundleVars
  BY <1>1 DEF bundleVars, BundleInv, BundleTypeOK, ClerkSound, PortalKept, Excused, AtStep
<1>2. CASE BundleNext
  BY <1>2, OpenBundleKept, WriteBundleKept, OpenPortalKept, CheckBillKept, DraftBillKept, ReadBillKept,
     IssueBillKept, WriteIssuedKept, SettleBillKept, YearEndsKept, PortalJobKept DEF BundleNext
<1>. QED
  BY <1>1, <1>2

LEMMA BundleHolds == BundleInv => BundleTypeOK /\ PortalServed
  BY DEF BundleInv, PortalKept, Excused, PortalServed

\* Who closed a request and paid has the portal for the time paid for, for
\* any number of clerks, with the exceptions that PortalServed names.
THEOREM PortalIsServed == BundleSpec => [](BundleTypeOK /\ PortalServed)
BY BundleStart, BundleStep, BundleHolds, PTL DEF BundleSpec

\* No clerk takes a payment back unless it came under his hands, and a closed
\* request is opened again only by a clerk who read it before.
THEOREM BundleStands == BundleSpec => PaymentStands /\ ClosedStays
<1>1. BundleSteps => (BillPaid(bill) /\ ~BillPaid(bill') =>
                        bill'.state \in {"refunded", "cancelled"} \/ paidUnder)
  BY DEF BundleSteps
<1>2. BundleSteps => (request = "closed" /\ request' # "closed" => staleClerk')
  BY DEF BundleSteps
<1>. QED
  BY <1>1, <1>2, BundleStart, BundleStep, PTL DEF BundleSpec, PaymentStands, ClosedStays

-----------------------------------------------------------------------------
(* Excellence of clients: the points *)

\* A request that a process holds has no award yet, and no other holds it
HeldOnce ==
    trampled \/ \A s \in Savers :
        awarding[s] # NoAward =>
            /\ awarding[s] \notin awarded
            /\ \A t \in Savers : awarding[t] = awarding[s] => t = s

\* Without a membership there is no ledger, and the form has given no points
MemberLedger ==
    /\ seeded => points # -1
    /\ trampled \/ seeded \/ sheet.step = "written" \/ ledger = IF points = -1 THEN 0 ELSE points

\* What the form has written so far stands
SheetStands ==
    trampled \/
        /\ Saving => column = sheet.points
        /\ sheet.step \in {"read", "written"} => points # -1
        /\ sheet.step = "read" => points = sheet.read
        /\ sheet.step = "written" =>
               points = sheet.points /\ (seeded \/ ledger = sheet.read)

LoyaltyInv ==
    /\ LoyaltyTypeOK /\ LoyaltySound
    /\ HeldOnce /\ MemberLedger /\ SheetStands

-----------------------------------------------------------------------------
(* Who holds a request *)

LEMMA EarnedOnceKept ==
  ASSUME LoyaltyTypeOK, EarnedOnce, HeldOnce, [LoyaltyNext]_loyaltyVars
  PROVE  EarnedOnce' /\ HeldOnce'
<1> USE LoyaltyAssumption DEF LoyaltyTypeOK, EarnedOnce, HeldOnce
<1>1. ASSUME NEW s \in Savers, GiveAward(s) PROVE EarnedOnce' /\ HeldOnce'
  BY <1>1 DEF GiveAward
<1>2. ASSUME NEW s \in Savers, DropAward(s) PROVE EarnedOnce' /\ HeldOnce'
  BY <1>2 DEF DropAward
<1>3. ASSUME NEW s \in Savers, NEW q \in Completed, FindAward(s, q)
      PROVE  EarnedOnce' /\ HeldOnce'
  BY <1>3 DEF FindAward, Unawarded
<1>4. CASE UNCHANGED <<awarded, twice, awarding>> /\ (trampled => trampled')
  BY <1>4
<1>. QED
  BY <1>1, <1>2, <1>3, <1>4
     DEF LoyaltyNext, loyaltyVars, OpenSheet, SaveColumn, CreateMember, ReadMember, WriteMember,
         WriteLedger, LeaveSheet

-----------------------------------------------------------------------------
(* The invariant *)

LEMMA LoyaltyTypeKept == LoyaltyTypeOK /\ [LoyaltyNext]_loyaltyVars => LoyaltyTypeOK'
<1> SUFFICES ASSUME LoyaltyTypeOK, [LoyaltyNext]_loyaltyVars PROVE LoyaltyTypeOK'
  OBVIOUS
<1> USE LoyaltyAssumption DEF LoyaltyTypeOK, SheetClosed
<1>1. ASSUME NEW s \in Savers, GiveAward(s) PROVE LoyaltyTypeOK'
  BY <1>1 DEF GiveAward, ColumnAfter, Saving
<1>2. ASSUME NEW s \in Savers, DropAward(s) PROVE LoyaltyTypeOK'
  BY <1>2 DEF DropAward
<1>3. ASSUME NEW s \in Savers, NEW q \in Completed, FindAward(s, q) PROVE LoyaltyTypeOK'
  BY <1>3 DEF FindAward
<1>4. ASSUME NEW n \in 0..MaxPoints, OpenSheet(n) PROVE LoyaltyTypeOK'
  BY <1>4 DEF OpenSheet
<1>5. CASE SaveColumn
  BY <1>5 DEF SaveColumn
<1>6. CASE CreateMember
  BY <1>6 DEF CreateMember
<1>7. CASE ReadMember
  <2>1. points \in 0..MaxPoints
    BY <1>7 DEF ReadMember
  <2>2. CASE sheet' = SheetClosed
    BY <1>7, <2>2 DEF ReadMember
  <2>3. CASE sheet' = [sheet EXCEPT !.step = "read", !.read = points]
    BY <1>7, <2>1, <2>3 DEF ReadMember
  <2>. QED
    BY <1>7, <2>2, <2>3 DEF ReadMember
<1>8. CASE WriteMember
  BY <1>8 DEF WriteMember
<1>9. CASE WriteLedger
  BY <1>9 DEF WriteLedger, Adjustment
<1>10. CASE LeaveSheet
  BY <1>10 DEF LeaveSheet, Saving
<1>11. CASE UNCHANGED loyaltyVars
  BY <1>11 DEF loyaltyVars
<1>. QED
  BY <1>1, <1>2, <1>3, <1>4, <1>5, <1>6, <1>7, <1>8, <1>9, <1>10, <1>11 DEF LoyaltyNext

\* One statement of the form, or one award, at a time
LEMMA PointsKept ==
  ASSUME LoyaltyInv, LoyaltyTypeOK', [LoyaltyNext]_loyaltyVars
  PROVE  /\ MemberLedger' /\ SheetStands'
         /\ LedgerBalances' /\ ColumnMirrors'
<1> DEFINE Goal == MemberLedger /\ SheetStands /\ LedgerBalances /\ ColumnMirrors
<1> SUFFICES Goal'
  OBVIOUS
<1> USE LoyaltyAssumption
        DEF LoyaltyInv, LoyaltySound, LoyaltyTypeOK, MemberLedger, SheetStands, LedgerBalances,
            ColumnMirrors, Saving, SheetClosed
<1>1. ASSUME NEW s \in Savers, GiveAward(s) PROVE Goal'
  <2>1. /\ points' = (IF points = -1 THEN 0 ELSE points) + Award /\ column' = points'
        /\ ledger' = ledger + Award
        /\ trampled' <=> trampled \/ Saving
        /\ sheet' = sheet /\ seeded' = seeded
    BY <1>1 DEF GiveAward, ColumnAfter
  <2>2. points' # -1 /\ points' \in Int
    BY <2>1
  <2>3. CASE trampled \/ Saving
    BY <2>1, <2>2, <2>3
  <2>4. CASE ~trampled /\ ~Saving
    <3>1. seeded \/ ledger = IF points = -1 THEN 0 ELSE points
      BY <2>4
    <3>2. seeded' \/ ledger' = points'
      BY <2>1, <3>1
    <3>. QED
      BY <2>1, <2>2, <2>4, <3>2
  <2>. QED
    BY <2>3, <2>4
<1>2. ASSUME NEW s \in Savers, DropAward(s) PROVE Goal'
  BY <1>2 DEF DropAward
<1>3. ASSUME NEW s \in Savers, NEW q \in Completed, FindAward(s, q) PROVE Goal'
  BY <1>3 DEF FindAward
<1>4. ASSUME NEW n \in 0..MaxPoints, OpenSheet(n) PROVE Goal'
  BY <1>4 DEF OpenSheet
<1>5. CASE SaveColumn
  BY <1>5 DEF SaveColumn
<1>6. CASE CreateMember
  <2>1. /\ points = -1 /\ points' = sheet.points /\ sheet' = SheetClosed
        /\ seeded' <=> sheet.points > 0
        /\ column' = column /\ ledger' = ledger /\ trampled' = trampled /\ ~seeded
    BY <1>6 DEF CreateMember
  <2>2. trampled \/ (ledger = 0 /\ column = sheet.points)
    BY <1>6, <2>1 DEF CreateMember
  <2>3. seeded' \/ points' = 0
    BY <2>1
  <2>4. points' # -1 /\ sheet'.step = "closed"
    BY <2>1
  <2>. QED
    BY <2>1, <2>2, <2>3, <2>4
<1>7. CASE ReadMember
  BY <1>7 DEF ReadMember
<1>8. CASE WriteMember
  BY <1>8 DEF WriteMember
<1>9. CASE WriteLedger
  BY <1>9 DEF WriteLedger, Adjustment
<1>10. CASE LeaveSheet
  BY <1>10 DEF LeaveSheet
<1>11. CASE UNCHANGED loyaltyVars
  BY <1>11 DEF loyaltyVars
<1>. QED
  BY <1>1, <1>2, <1>3, <1>4, <1>5, <1>6, <1>7, <1>8, <1>9, <1>10, <1>11 DEF LoyaltyNext

\* Points are earned once, the balance is the sum of the ledger and the column
\* shows it, however many processes save the requests and whatever the
\* provider writes in his form meanwhile.
THEOREM LoyaltyCorrect == LoyaltySpec => [](LoyaltyTypeOK /\ LoyaltySound)
<1>1. LoyaltyInit => LoyaltyInv
  <2> SUFFICES ASSUME LoyaltyInit PROVE LoyaltyInv
    OBVIOUS
  <2>0. 0 \in 0..MaxPoints /\ -1 \in -1..MaxPoints
    BY LoyaltyAssumption
  <2>1. LoyaltyTypeOK
    <3>1. points \in -1..MaxPoints /\ column \in 0..MaxPoints /\ ledger \in Int
      BY <2>0 DEF LoyaltyInit
    <3>2. awarded \subseteq Completed /\ twice \in BOOLEAN /\ seeded \in BOOLEAN /\ trampled \in BOOLEAN
      BY DEF LoyaltyInit
    <3>3. awarding \in [Savers -> Completed \cup {NoAward}]
      BY DEF LoyaltyInit
    <3>4. sheet \in [step : {"closed", "open", "saved", "read", "written"},
                    points : 0..MaxPoints, read : 0..MaxPoints]
      BY <2>0 DEF LoyaltyInit, SheetClosed
    <3>. QED
      BY <3>1, <3>2, <3>3, <3>4 DEF LoyaltyTypeOK
  <2>2. EarnedOnce /\ HeldOnce
    BY DEF LoyaltyInit, EarnedOnce, HeldOnce
  <2>3. sheet.step = "closed"
    BY DEF LoyaltyInit, SheetClosed
  <2>. QED
    BY <2>1, <2>2, <2>3
       DEF LoyaltyInit, LoyaltyInv, LoyaltySound, LedgerBalances, ColumnMirrors, MemberLedger,
           SheetStands, Saving
<1>2. LoyaltyInv /\ [LoyaltyNext]_loyaltyVars => LoyaltyInv'
  BY LoyaltyTypeKept, EarnedOnceKept, PointsKept DEF LoyaltyInv, LoyaltySound
<1>3. LoyaltyInv => LoyaltyTypeOK /\ LoyaltySound
  BY DEF LoyaltyInv
<1>. QED
  BY <1>1, <1>2, <1>3, PTL DEF LoyaltySpec
================================================================================
