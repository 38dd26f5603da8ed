------------------------------- MODULE JobsProofs -------------------------------
(***************************************************************************)
(* What the periodic jobs of celery tell and end: a campaign runs only     *)
(* paid and executed, a message to several clients reaches each once, and  *)
(* a provider is invited once to a competitive request.  Each service has  *)
(* a section with its inductive invariant; the last one puts them together *)
(* as MCJobs does.  That the jobs come to an end is liveness, and not      *)
(* proved.                                                                 *)
(***************************************************************************)
EXTENDS MCJobs, TLAPS

-----------------------------------------------------------------------------
(* Promo: the campaign *)

Campaigns ==
    [status : {"none", "new", "pending_payment", "active", "rejected", "expired", "gone"},
     ops : {"new", "in_progress", "completed"},
     inv : InvoiceStates \cup {"none"}, free : BOOLEAN, over : BOOLEAN,
     message : {"waiting", "due", "failed", "sent"}]

\* RunsPaid and RunsExecuted, of a row
RowSound(row) ==
    row.status = "active" => row.inv \in {"paid", "cancelled"} /\ row.ops = "completed"

\* What the receiver may be given: a campaign that runs is executed, and the
\* failure of its payment is a refund
RowHeard(row) == row.status = "active" => row.inv # "failed" /\ row.ops = "completed"

DiscardUnpaid ==
    discarding => Incomplete(campaign) /\ (campaign.inv = "paid" => unheardPromo)

PromoInv ==
    PromoTypeOK /\ RowSound(campaign) /\ PaidNotDiscarded /\ DiscardUnpaid

-----------------------------------------------------------------------------
(* What becomes of a row *)

LEMMA DispatchedRow ==
  ASSUME NEW row \in Campaigns, NEW r \in Dispatched(row)
  PROVE  r \in Campaigns /\ r = [row EXCEPT !.message = r.message]
BY DEF Campaigns, Dispatched

LEMMA ClosedRow ==
  ASSUME NEW row \in Campaigns, NEW r \in Closed(row)
  PROVE  r \in Campaigns /\ r.status = "expired" /\ r.inv = row.inv
<1>1. PICK d \in Dispatched(row) : r = [d EXCEPT !.status = "expired", !.ops = "completed"]
  BY DEF Closed
<1>2. d \in Campaigns /\ d.inv = row.inv
  BY DispatchedRow DEF Campaigns
<1>. QED
  BY <1>1, <1>2 DEF Campaigns

\* An activation leaves the invoice as it is
LEMMA ActivatedRow ==
  ASSUME NEW row \in Campaigns, row.inv = "paid", row.ops = "completed", row.status # "gone",
         NEW r \in PromoActivated(row)
  PROVE  r \in Campaigns /\ r.inv = "paid" /\ RowSound(r) /\ r.status # "gone"
<1>1. CASE row.status \in Immutable
  BY <1>1 DEF PromoActivated, RowSound, Immutable
<1>2. CASE row.status \notin Immutable /\ row.over
  BY <1>2, ClosedRow DEF PromoActivated, RowSound
<1>3. CASE row.status \notin Immutable /\ ~row.over
  <2> DEFINE a == [row EXCEPT !.status = "active"]
  <2>1. a \in Campaigns /\ a.inv = "paid" /\ a.ops = "completed"
    BY DEF Campaigns
  <2>2. r = row \/ r \in Dispatched(a)
    BY <1>3 DEF PromoActivated
  <2>. QED
    BY <2>1, <2>2, DispatchedRow DEF Campaigns, RowSound
<1>. QED
  BY <1>1, <1>2, <1>3

LEMMA AppliedRow ==
  ASSUME NEW row \in Campaigns, row.inv = "paid", RowHeard(row), row.status # "gone",
         NEW r \in PromoApplied(row)
  PROVE  r \in Campaigns /\ r.inv = "paid" /\ RowSound(r) /\ r.status # "gone"
<1>1. CASE row.status \in Immutable
  BY <1>1 DEF PromoApplied, RowSound, Immutable
<1>2. CASE row.status \notin Immutable /\ row.over
  BY <1>2, ClosedRow DEF PromoApplied, RowSound
<1>3. CASE row.status \notin Immutable /\ ~row.over /\ row.ops = "completed"
  BY <1>3, ActivatedRow DEF PromoApplied
<1>4. CASE row.status \notin Immutable /\ ~row.over /\ row.ops # "completed"
  BY <1>4 DEF PromoApplied, RowSound, Campaigns
<1>. QED
  BY <1>1, <1>2, <1>3, <1>4

\* The receiver of a save keeps the invoice, and removes the campaign only if
\* the invoice is cancelled or has failed
LEMMA ReactedRow ==
  ASSUME NEW row \in Campaigns, RowHeard(row), row.status = "gone" => row.inv # "paid",
         NEW r \in PromoReacted(row)
  PROVE  /\ r \in Campaigns /\ r.inv = row.inv /\ RowSound(r)
         /\ r.status = "gone" => row.status = "gone" \/ row.inv \in {"cancelled", "failed"}
<1>1. CASE row.inv = "paid"
  BY <1>1, AppliedRow DEF PromoReacted
<1>2. CASE row.inv \in {"cancelled", "failed"}
  BY <1>2 DEF PromoReacted, Discarded, RowSound, RowHeard, Campaigns
<1>3. CASE row.inv \notin {"paid", "cancelled", "failed"}
  BY <1>3 DEF PromoReacted, PromoRevoked, Immutable, RowSound, Campaigns
<1>. QED
  BY <1>1, <1>2, <1>3

\* A new total is heard by the receiver; it pays for no campaign that is gone
LEMMA PricedRow ==
  ASSUME NEW row \in Campaigns, RowSound(row), NEW free \in BOOLEAN,
         row.status = "gone" => row.inv \in {"cancelled", "failed"}
  PROVE  /\ Priced(row, free) \in Campaigns /\ RowHeard(Priced(row, free))
         /\ Priced(row, free).status = row.status
         /\ row.status = "gone" => Priced(row, free).inv \in {"cancelled", "failed"}
BY DEF Priced, Campaigns, RowSound, RowHeard, InvoiceStates

LEMMA BilledRow ==
  ASSUME NEW row \in Campaigns, RowSound(row), row.status # "gone", NEW free \in BOOLEAN,
         NEW b \in Billings(row, free)
  PROVE  b \in Campaigns /\ RowSound(b)
<1> DEFINE before == IF row.inv = "none" THEN {row} ELSE PromoReacted(row)
<1>1. PICK r \in before : b \in PromoReacted(Priced(r, free))
  BY DEF Billings
<1>2. r \in Campaigns /\ RowSound(r) /\ (r.status = "gone" => r.inv \in {"cancelled", "failed"})
  BY ReactedRow DEF RowSound, RowHeard
<1>3. /\ Priced(r, free) \in Campaigns /\ RowHeard(Priced(r, free))
      /\ Priced(r, free).status = "gone" => Priced(r, free).inv # "paid"
  BY <1>2, PricedRow
<1>. QED
  BY <1>1, <1>3, ReactedRow

\* A quote leaves a campaign that is not running, or one that was free
LEMMA QuotedRow ==
  ASSUME NEW row \in Campaigns, RowSound(row), row.status # "gone", NEW free \in BOOLEAN,
         NEW r \in Quoted(row, free)
  PROVE  r \in Campaigns /\ RowSound(r) /\ r.status # "gone"
<1> DEFINE quotes == {[b EXCEPT !.status = "pending_payment"] :
                        b \in {c \in Billings(row, free) : c.status # "gone"}}
<1>1. \A q \in quotes : q \in Campaigns /\ q.status = "pending_payment"
  BY BilledRow DEF Campaigns
<1>2. CASE ~free
  BY <1>1, <1>2 DEF Quoted, RowSound
<1>3. CASE free
  <2>1. PICK q \in quotes : r \in PromoReacted([q EXCEPT !.inv = "paid"])
    BY <1>3 DEF Quoted
  <2> DEFINE p == [q EXCEPT !.inv = "paid"]
  <2>2. p \in Campaigns /\ RowHeard(p) /\ p.status = "pending_payment" /\ p.inv = "paid"
    BY <1>1 DEF Campaigns, RowHeard, InvoiceStates
  <2>. QED
    BY <2>1, <2>2, ReactedRow
<1>. QED
  BY <1>2, <1>3

-----------------------------------------------------------------------------
(* The invariant *)

LEMMA PromoTyped == PromoTypeOK <=> campaign \in Campaigns /\ discarding \in BOOLEAN /\ unheardPromo \in BOOLEAN
BY DEF PromoTypeOK, Campaigns

\* A step of a campaign that nobody is removing
LEMMA BecomesSound ==
  ASSUME PromoInv, Free(campaign), NEW rows, Becomes(rows),
         \A r \in rows : r \in Campaigns /\ RowSound(r) /\ (r.status = "gone" => r.inv # "paid")
  PROVE  PromoInv'
BY PromoTyped DEF Becomes, Free, PromoInv, PaidNotDiscarded, DiscardUnpaid, PromoTypeOK, Campaigns, RowSound

LEMMA SavedRow ==
  ASSUME PromoInv, campaign.status # "gone", NEW state \in PromoInvoiceMoves
  PROVE  LET row == [campaign EXCEPT !.inv = state] IN
         row \in Campaigns /\ RowHeard(row) /\ row.status = campaign.status /\ row.inv = state
BY PromoTyped DEF PromoInv, PromoInvoiceMoves, RowSound, RowHeard, Campaigns, After, EventKinds, InvoiceStates

LEMMA PromoInductive == PromoInv /\ [PromoNext]_promoVars => PromoInv'
<1> SUFFICES ASSUME PromoInv, [PromoNext]_promoVars PROVE PromoInv'
  OBVIOUS
<1>0. campaign \in Campaigns /\ RowSound(campaign)
  BY PromoTyped DEF PromoInv
<1>1. CASE CreateCampaign
  <2>1. PromoTypeOK' /\ RowSound(campaign)' /\ UNCHANGED <<discarding, unheardPromo>>
    BY <1>0, <1>1, PromoTyped DEF CreateCampaign, Becomes, PromoInv, PromoTypeOK, Campaigns, RowSound
  <2>. QED
    BY <1>0, <1>1, <2>1 DEF CreateCampaign, Becomes, PromoInv, PaidNotDiscarded, DiscardUnpaid, Incomplete, Campaigns
<1>2. ASSUME NEW free \in BOOLEAN, Quote(free) PROVE PromoInv'
  <2>1. campaign.status # "gone" /\ Free(campaign) /\ Becomes(Quoted(campaign, free))
    BY <1>2 DEF Quote, Free
  <2>. QED
    BY <1>0, <2>1, QuotedRow, BecomesSound
<1>3. CASE Reject
  BY <1>0, <1>3, BecomesSound DEF Reject, Campaigns, RowSound
<1>4. CASE SetOps
  <2>1. CASE campaign.ops = "new"
    BY <1>0, <1>4, <2>1, BecomesSound DEF SetOps, Free, Campaigns, RowSound
  <2>2. CASE campaign.ops = "in_progress"
    <3> DEFINE row == [campaign EXCEPT !.ops = "completed"]
    <3>1. row \in Campaigns /\ row.inv = "paid" /\ row.ops = "completed" /\ row.status # "gone"
      BY <1>0, <1>4 DEF SetOps, Free, Campaigns
    <3>2. Free(campaign) /\ Becomes(PromoActivated(row))
      BY <1>4, <2>2 DEF SetOps
    <3>. QED
      BY <3>1, <3>2, ActivatedRow, BecomesSound
  <2>. QED
    BY <1>4, <2>1, <2>2 DEF SetOps
<1>5. ASSUME NEW s \in InvoiceStates, SavePromoInvoice(s) PROVE PromoInv'
  <2> DEFINE row == [campaign EXCEPT !.inv = s]
  <2>1. row \in Campaigns /\ RowHeard(row) /\ row.status # "gone" /\ row.inv = s
    BY <1>5, SavedRow DEF SavePromoInvoice, Free
  <2>2. Free(campaign) /\ Becomes(PromoReacted(row))
    BY <1>5 DEF SavePromoInvoice
  <2>. QED
    BY <2>1, <2>2, ReactedRow, BecomesSound
<1>6. ASSUME NEW s \in InvoiceStates, SavePromoInvoiceUnheard(s) PROVE PromoInv'
  <2>1. Incomplete(campaign) /\ campaign' \in Campaigns /\ campaign'.status = campaign.status
    BY <1>0, <1>6 DEF SavePromoInvoiceUnheard, PromoInv, DiscardUnpaid, Campaigns
  <2>. QED
    BY <1>6, <2>1, PromoTyped
       DEF SavePromoInvoiceUnheard, PromoInv, PromoTypeOK, Campaigns, RowSound, PaidNotDiscarded,
           DiscardUnpaid, Incomplete
<1>7. CASE StartDiscard
  BY <1>7 DEF StartDiscard, Discardable, PromoInv, PromoTypeOK, PaidNotDiscarded, DiscardUnpaid
<1>8. CASE FinishDiscard
  BY <1>0, <1>8, PromoTyped
     DEF FinishDiscard, PromoInv, PromoTypeOK, Campaigns, RowSound, PaidNotDiscarded, DiscardUnpaid
<1>9. CASE LoseDiscard
  BY <1>9 DEF LoseDiscard, PromoInv, PromoTypeOK, PaidNotDiscarded, DiscardUnpaid
<1>10. CASE SendDue
  BY <1>0, <1>10, DispatchedRow, BecomesSound DEF SendDue, Campaigns, RowSound
<1>11. CASE Expire
  BY <1>0, <1>11, ClosedRow, BecomesSound DEF Expire, RowSound
<1>12. CASE PromoTick
  BY <1>0, <1>12, BecomesSound DEF PromoTick, Free, Campaigns, RowSound
<1>13. CASE UNCHANGED promoVars
  BY <1>13 DEF promoVars, PromoInv, PromoTypeOK, PaidNotDiscarded, DiscardUnpaid
<1>. QED
  BY <1>1, <1>2, <1>3, <1>4, <1>5, <1>6, <1>7, <1>8, <1>9, <1>10, <1>11, <1>12, <1>13
     DEF PromoNext

\* A campaign that runs is paid for and executed, and one that is paid for is
\* not removed, however quotes, payment events, refunds, the staff, the
\* removal and the jobs follow one another.
THEOREM CampaignCorrect == PromoSpec => [](PromoTypeOK /\ CampaignSound)
<1>1. PromoInit => PromoInv
  <2> SUFFICES ASSUME PromoInit PROVE PromoInv
    OBVIOUS
  <2>1. campaign \in Campaigns /\ campaign.status = "none"
    BY DEF PromoInit, Campaigns
  <2>. QED
    BY <2>1, PromoTyped DEF PromoInit, PromoInv, RowSound, PaidNotDiscarded, DiscardUnpaid
<1>2. PromoInv => PromoTypeOK /\ CampaignSound
  BY DEF PromoInv, RowSound, CampaignSound, RunsPaid, RunsExecuted
<1>. QED
  BY <1>1, <1>2, PromoInductive, PTL DEF PromoSpec

-----------------------------------------------------------------------------
(* Extras portal: the messages to several clients *)

SenderRow == [step : {"idle", "listed", "committed", "failing"}, to : SUBSET Clients]
PageRow == [step : {"idle", "drafting", "sending"}, to : SUBSET Clients]
BulkRow ==
    [status : {"none", "pending", "sent", "failed", "cancelled"}, later : BOOLEAN, due : BOOLEAN]

\* Only a message for later comes due, and only then the job has it
OnlyLater ==
    /\ bulk.due => bulk.later
    /\ ~bulk.later => \A s \in Senders : sendersAt[s] = Unlisted

\* The page sends a message of now: who has no copy yet is still on its list
PageSends ==
    /\ pageAt.step = "idle" => pageAt.to = {}
    /\ pageAt.step = "sending" =>
         /\ bulk.status = "pending" /\ ~bulk.later
         /\ \A c \in pageAt.to : copies[c] = 0
         /\ \A c \in readers \ pageAt.to : copies[c] >= 1
    /\ ~bulk.later => \A c \in Clients : copies[c] <= 1

\* Nobody has a copy of a draft, or of what the job has still to send; who
\* has listed it has listed nobody or all that are still there
NoneYet == \A c \in Clients : copies[c] = 0

YetToSend ==
    /\ bulk.status = "none" =>
         readers = {} /\ NoneYet /\ pageAt = PageIdle /\ \A s \in Senders : sendersAt[s] = Unlisted
    /\ bulk.status = "pending" /\ bulk.later => NoneYet
    /\ \A s \in Senders : sendersAt[s].step = "listed" =>
         sendersAt[s].to = {} \/ readers \subseteq sendersAt[s].to

\* While the recipients are not created nobody has a copy, and a run that
\* has the message has nobody to send to
Drafting ==
    pageAt.step = "drafting" =>
      /\ readers = {} /\ NoneYet
      /\ bulk.status = "pending" \/ (bulk.status = "cancelled" /\ bulk.later)
      /\ \A s \in Senders : sendersAt[s].step \in {"idle", "listed"} /\ sendersAt[s].to = {}

\* One run at a time: it sends what is pending, and what fails without a
\* lost notification has sent nothing
OneSends ==
    /\ \A s, t \in Senders : sendersAt[s] # Unlisted /\ sendersAt[t] # Unlisted => s = t
    /\ \A s \in Senders :
         /\ sendersAt[s].step = "listed" => bulk.status = "pending" /\ bulk.later
         /\ sendersAt[s].step = "committed" => bulk.status = "sent"
         /\ sendersAt[s].step = "failing" => noticeLost \/ NoneYet

BulkInv ==
    /\ BulkTypeOK /\ SentOnce /\ RecordedAsSent
    /\ OnlyLater /\ PageSends /\ YetToSend /\ Drafting /\ (bulkCrossed \/ OneSends)

LEMMA BulkTyped ==
  BulkTypeOK <=>
    /\ bulk \in BulkRow /\ readers \subseteq Clients /\ copies \in [Clients -> 0..2]
    /\ sendersAt \in [Senders -> SenderRow] /\ pageAt \in PageRow
    /\ bulkCrossed \in BOOLEAN /\ noticeLost \in BOOLEAN
  BY DEF BulkTypeOK, BulkRow, SenderRow, PageRow

LEMMA IdleRows ==
  /\ Unlisted \in SenderRow /\ Unlisted.step = "idle" /\ Unlisted = [step |-> "idle", to |-> {}]
  /\ PageIdle \in PageRow /\ PageIdle.step = "idle" /\ PageIdle.to = {}
  BY DEF Unlisted, PageIdle, SenderRow, PageRow

LEMMA DraftRowKept ==
  ASSUME BulkInv, NEW later \in BOOLEAN, NEW chosen \in SUBSET Clients, DraftRow(later, chosen)
  PROVE  BulkInv'
<1>1. /\ bulk.status = "none"
      /\ bulk' = [status |-> "pending", later |-> later, due |-> FALSE]
      /\ pageAt' = [step |-> "drafting", to |-> chosen]
      /\ UNCHANGED <<readers, copies, sendersAt, bulkCrossed, noticeLost>>
  BY DEF DraftRow, NewBulk
<1>2. readers = {} /\ NoneYet /\ \A s \in Senders : sendersAt[s] = Unlisted
  BY <1>1 DEF BulkInv, YetToSend
<1>3. bulk'.status = "pending" /\ bulk'.later = later /\ bulk'.due = FALSE
  BY <1>1
<1>4. BulkTypeOK'
  <2>1. bulk' \in BulkRow
    BY <1>1 DEF BulkRow
  <2>2. pageAt' \in PageRow
    BY <1>1 DEF PageRow
  <2>. QED
    BY <1>1, <2>1, <2>2, BulkTyped DEF BulkInv, BulkTypeOK, BulkRow, PageRow
<1>5. SentOnce' /\ RecordedAsSent' /\ OnlyLater'
  BY <1>1, <1>2, <1>3 DEF SentOnce, RecordedAsSent, OnlyLater, NoneYet
<1>6. PageSends' /\ Drafting'
  BY <1>1, <1>2, <1>3, IdleRows DEF PageSends, Drafting, NoneYet
<1>7. YetToSend' /\ OneSends'
  BY <1>1, <1>2, <1>3, IdleRows DEF YetToSend, OneSends, NoneYet
<1>. QED
  BY <1>4, <1>5, <1>6, <1>7 DEF BulkInv

\* The recipients come when nobody has a copy; a run that listed the row
\* before them has listed nobody
LEMMA AddRecipientsKept ==
  ASSUME BulkInv, AddRecipients
  PROVE  BulkInv'
<1>1. /\ pageAt.step = "drafting" /\ readers' = pageAt.to
      /\ pageAt' = IF bulk.later THEN PageIdle ELSE [step |-> "sending", to |-> pageAt.to]
      /\ UNCHANGED <<bulk, copies, sendersAt, bulkCrossed, noticeLost>>
  BY DEF AddRecipients
<1>2. /\ NoneYet
      /\ bulk.status = "pending" \/ (bulk.status = "cancelled" /\ bulk.later)
      /\ \A s \in Senders : sendersAt[s].step \in {"idle", "listed"} /\ sendersAt[s].to = {}
  BY <1>1 DEF BulkInv, Drafting
<1>3. pageAt.to \subseteq Clients /\ NoneYet'
  BY <1>1, <1>2, BulkTyped DEF BulkInv, PageRow, NoneYet
<1>4. BulkTypeOK' /\ pageAt'.step # "drafting"
  <2>1. pageAt' \in PageRow /\ pageAt'.step # "drafting"
    BY <1>1, <1>3, IdleRows DEF PageRow
  <2>. QED
    BY <1>1, <1>3, <2>1, BulkTyped DEF BulkInv, BulkTypeOK, BulkRow, SenderRow, PageRow
<1>5. SentOnce' /\ RecordedAsSent' /\ OnlyLater'
  BY <1>1, <1>2, <1>3 DEF BulkInv, SentOnce, RecordedAsSent, OnlyLater, NoneYet
<1>6. PageSends' /\ Drafting'
  BY <1>1, <1>2, <1>3, <1>4, IdleRows DEF PageSends, Drafting, NoneYet
<1>7. YetToSend' /\ (bulkCrossed' \/ OneSends')
  BY <1>1, <1>2, <1>3 DEF BulkInv, YetToSend, OneSends, NoneYet
<1>. QED
  BY <1>4, <1>5, <1>6, <1>7 DEF BulkInv

LEMMA PageSendsOneKept ==
  ASSUME BulkInv, NEW c \in Clients, PageSendsOne(c)
  PROVE  BulkInv'
<1>1. /\ pageAt.step = "sending" /\ c \in pageAt.to /\ copies' = [copies EXCEPT ![c] = More(@)]
      /\ pageAt' = [pageAt EXCEPT !.to = @ \ {c}]
      /\ UNCHANGED <<bulk, readers, sendersAt, bulkCrossed, noticeLost>>
  BY DEF PageSendsOne
<1>2. copies \in [Clients -> 0..2] /\ pageAt \in PageRow
  BY BulkTyped DEF BulkInv
<1>3. /\ pageAt.step = "sending" /\ bulk.status = "pending" /\ ~bulk.later /\ copies[c] = 0
      /\ \A s \in Senders : sendersAt[s] = Unlisted
  BY <1>1, <1>2 DEF BulkInv, PageSends, OnlyLater
<1>4. /\ copies'[c] = 1 /\ copies' \in [Clients -> 0..2]
      /\ \A b \in Clients : b # c => copies'[b] = copies[b]
  BY <1>1, <1>2, <1>3 DEF More
<1>5. pageAt'.step = "sending" /\ pageAt'.to = pageAt.to \ {c}
      /\ pageAt' \in PageRow
  BY <1>1, <1>2, <1>3 DEF PageRow
<1>6. BulkTypeOK'
  BY <1>1, <1>4, <1>5, BulkTyped DEF BulkInv, BulkTypeOK, PageRow
<1>7. PageSends' /\ Drafting'
  BY <1>1, <1>3, <1>4, <1>5 DEF BulkInv, PageSends, Drafting, BulkTypeOK
<1>8. SentOnce' /\ RecordedAsSent' /\ OnlyLater'
  BY <1>1, <1>3, <1>4 DEF BulkInv, SentOnce, RecordedAsSent, OnlyLater, PageSends
<1>9. YetToSend' /\ (bulkCrossed' \/ OneSends')
  BY <1>1, <1>3, IdleRows DEF BulkInv, YetToSend, OneSends
<1>. QED
  BY <1>6, <1>7, <1>8, <1>9 DEF BulkInv

LEMMA PageEndsKept ==
  ASSUME BulkInv, PageEnds
  PROVE  BulkInv'
<1>1. /\ pageAt.step # "idle" /\ pageAt' = PageIdle
      /\ UNCHANGED <<readers, copies, sendersAt, bulkCrossed, noticeLost>>
  BY DEF PageEnds
<1>2. /\ bulk \in BulkRow /\ pageAt \in PageRow /\ bulk.status # "none"
  BY <1>1, BulkTyped, IdleRows DEF BulkInv, YetToSend
<1>3. /\ bulk' \in BulkRow /\ bulk'.later = bulk.later /\ bulk'.due = bulk.due
      /\ bulk'.status # bulk.status =>
           pageAt.step = "sending" /\ ((pageAt.to = {} /\ bulk'.status = "sent") \/ bulk'.status = "failed")
  BY <1>2 DEF PageEnds, BulkRow
<1>4. BulkTypeOK'
  BY <1>1, <1>3, IdleRows, BulkTyped DEF BulkInv, BulkTypeOK, BulkRow, PageRow, SenderRow
<1>5. pageAt.step = "sending" =>
        /\ bulk.status = "pending" /\ ~bulk.later
        /\ \A c \in readers \ pageAt.to : copies[c] >= 1
  BY DEF BulkInv, PageSends
<1>6. SentOnce' /\ RecordedAsSent'
  BY <1>1, <1>3, <1>5 DEF BulkInv, SentOnce, RecordedAsSent
<1>7. OnlyLater' /\ PageSends' /\ Drafting'
  BY <1>1, <1>2, <1>3, IdleRows DEF BulkInv, OnlyLater, PageSends, Drafting
<1>8. YetToSend' /\ (bulkCrossed' \/ OneSends')
  <2>1. bulk'.status # "none" /\ (bulk'.status = "pending" => bulk.status = "pending")
    BY <1>2, <1>3, <1>5
  <2>2. bulk'.status # bulk.status => \A s \in Senders : sendersAt[s] = Unlisted
    BY <1>3, <1>5 DEF BulkInv, OnlyLater
  <2>3. YetToSend'
    BY <1>1, <1>3, <2>1 DEF BulkInv, YetToSend, NoneYet
  <2>4. ASSUME ~bulkCrossed PROVE OneSends'
    <3>1. OneSends
      BY <2>4 DEF BulkInv
    <3>2. CASE bulk'.status = bulk.status
      BY <1>1, <1>3, <3>1, <3>2 DEF OneSends, NoneYet
    <3>3. CASE bulk'.status # bulk.status
      BY <1>1, <2>2, <3>3, IdleRows DEF OneSends
    <3>. QED
      BY <3>2, <3>3
  <2>. QED
    BY <1>1, <2>3, <2>4
<1>. QED
  BY <1>4, <1>6, <1>7, <1>8 DEF BulkInv

LEMMA ComesOrLeaves ==
  ASSUME BulkInv, BulkComes \/ \E c \in Clients : ClientLeaves(c)
  PROVE  BulkInv'
<1>1. /\ UNCHANGED <<copies, sendersAt, pageAt, bulkCrossed, noticeLost>>
      /\ readers' \subseteq readers
  BY DEF BulkComes, ClientLeaves
<1>2. bulk \in BulkRow
  BY BulkTyped DEF BulkInv
<1>3. /\ bulk' \in BulkRow /\ bulk'.status = bulk.status /\ bulk'.later = bulk.later
      /\ bulk'.due # bulk.due => bulk.later
  BY <1>2 DEF BulkComes, ClientLeaves, BulkRow
<1>4. BulkTypeOK'
  BY <1>1, <1>3 DEF BulkInv, BulkTypeOK, BulkRow
<1>5. SentOnce' /\ RecordedAsSent' /\ OnlyLater'
  BY <1>1, <1>3 DEF BulkInv, SentOnce, RecordedAsSent, OnlyLater
<1>6. PageSends' /\ YetToSend' /\ Drafting' /\ (bulkCrossed' \/ OneSends')
  BY <1>1, <1>3 DEF BulkInv, PageSends, YetToSend, Drafting, OneSends, NoneYet
<1>. QED
  BY <1>4, <1>5, <1>6 DEF BulkInv

\* What the step of one run is to the rest, once the copies are known
LEMMA SenderMoved ==
  ASSUME BulkInv, NEW s \in Senders, NEW row \in SenderRow, sendersAt' = [sendersAt EXCEPT ![s] = row],
         bulk.later, UNCHANGED <<readers, pageAt>>, noticeLost' \in BOOLEAN, bulkCrossed' \in BOOLEAN,
         bulkCrossed => bulkCrossed',
         bulk' \in BulkRow, bulk'.later, bulk'.status # "none", copies' \in [Clients -> 0..2],
         SentOnce', RecordedAsSent',
         bulk'.status = "pending" => NoneYet',
         row.step = "listed" => row.to = {} \/ readers \subseteq row.to,
         pageAt.step = "drafting" =>
           /\ NoneYet' /\ bulk'.status \in {"pending", "cancelled"}
           /\ row.step \in {"idle", "listed"} /\ row.to = {},
         bulkCrossed' \/ OneSends'
  PROVE  BulkInv'
<1>1. /\ \A t \in Senders : sendersAt'[t] = IF t = s THEN row ELSE sendersAt[t]
      /\ sendersAt' \in [Senders -> SenderRow]
  BY BulkTyped DEF BulkInv
<1>2. BulkTypeOK'
  BY <1>1 DEF BulkInv, BulkTypeOK, BulkRow, SenderRow
<1>3. PageSends' /\ OnlyLater'
  BY BulkTyped DEF BulkInv, PageSends, OnlyLater
<1>4. YetToSend' /\ Drafting'
  BY <1>1 DEF BulkInv, YetToSend, Drafting
<1>. QED
  BY <1>2, <1>3, <1>4 DEF BulkInv

\* A run that lists is crossed with any that has it
LEMMA ListBulkKept ==
  ASSUME BulkInv, NEW s \in Senders, ListBulk(s)
  PROVE  BulkInv'
<1>1. PICK row : row = [step |-> "listed", to |-> readers]
  OBVIOUS
<1>2. /\ sendersAt' = [sendersAt EXCEPT ![s] = row] /\ bulk.status = "pending" /\ bulk.due
      /\ bulkCrossed' = (bulkCrossed \/ \E t \in Senders : sendersAt[t] # Unlisted)
      /\ UNCHANGED <<bulk, readers, copies, pageAt, noticeLost>>
  BY <1>1 DEF ListBulk, SenderTo, ToSend
<1>3. row \in SenderRow /\ row.step = "listed" /\ row.to = readers
  BY <1>1 DEF BulkInv, BulkTypeOK, SenderRow
<1>4. /\ bulk \in BulkRow /\ bulk.later /\ NoneYet /\ copies \in [Clients -> 0..2]
      /\ noticeLost \in BOOLEAN /\ bulkCrossed \in BOOLEAN /\ sendersAt \in [Senders -> SenderRow]
  BY <1>2, BulkTyped DEF BulkInv, OnlyLater, YetToSend
<1>5. /\ NoneYet' /\ RecordedAsSent' /\ SentOnce'
      /\ pageAt.step = "drafting" => row.to = {}
  BY <1>2, <1>3, <1>4 DEF BulkInv, NoneYet, RecordedAsSent, SentOnce, Drafting
<1>6. CASE bulkCrossed \/ \E t \in Senders : sendersAt[t] # Unlisted
  <2>1. bulkCrossed' = TRUE
    BY <1>2, <1>6
  <2>. QED
    BY <1>2, <1>3, <1>4, <1>5, <2>1, SenderMoved
<1>7. CASE ~(bulkCrossed \/ \E t \in Senders : sendersAt[t] # Unlisted)
  <2>1. bulkCrossed' = FALSE /\ \A t \in Senders : sendersAt[t] = Unlisted
    BY <1>2, <1>7
  <2>2. \A t \in Senders : sendersAt'[t] = IF t = s THEN row ELSE Unlisted
    BY <1>2, <1>4, <2>1
  <2>3. OneSends'
    BY <1>2, <1>3, <1>4, <2>2, IdleRows DEF OneSends
  <2>. QED
    BY <1>2, <1>3, <1>4, <1>5, <1>7, <2>1, <2>3, SenderMoved
<1>. QED
  BY <1>6, <1>7

\* The transaction copies to all that are still there
LEMMA SendBulkKept ==
  ASSUME BulkInv, NEW s \in Senders, SendBulk(s)
  PROVE  BulkInv'
<1>1. PICK row : row = [step |-> "committed", to |-> {}]
  OBVIOUS
<1>2. PICK to : to = sendersAt[s].to
  OBVIOUS
<1>3. /\ sendersAt[s].step = "listed" /\ to # {}
      /\ copies' = [c \in Clients |-> IF c \in to THEN More(copies[c]) ELSE copies[c]]
      /\ bulk' = [bulk EXCEPT !.status = "sent"] /\ sendersAt' = [sendersAt EXCEPT ![s] = row]
      /\ UNCHANGED <<readers, pageAt, bulkCrossed, noticeLost>>
  BY <1>1, <1>2 DEF SendBulk, SenderTo, Copied
<1>4. /\ bulk \in BulkRow /\ copies \in [Clients -> 0..2] /\ noticeLost \in BOOLEAN
      /\ bulkCrossed \in BOOLEAN /\ sendersAt \in [Senders -> SenderRow] /\ readers \subseteq Clients
  BY BulkTyped DEF BulkInv
<1>5. row \in SenderRow /\ row.step = "committed"
  BY <1>1 DEF SenderRow
<1>6. sendersAt[s] # Unlisted /\ bulk.later /\ readers \subseteq to /\ pageAt.step # "drafting"
  BY <1>2, <1>3, IdleRows DEF BulkInv, OnlyLater, YetToSend, Drafting
<1>7. /\ copies' \in [Clients -> 0..2] /\ \A c \in readers : copies'[c] >= 1
      /\ \A c \in Clients : copies[c] = 0 => copies'[c] <= 1
  BY <1>3, <1>4, <1>6 DEF More
<1>8. bulk' \in BulkRow /\ bulk'.later /\ bulk'.status = "sent"
  BY <1>3, <1>4, <1>6 DEF BulkRow
<1>9. RecordedAsSent'
  BY <1>3, <1>7, <1>8 DEF RecordedAsSent
<1>10. ASSUME ~bulkCrossed PROVE OneSends' /\ \A c \in Clients : copies'[c] <= 1
  <2>1. bulk.status = "pending" /\ \A t \in Senders : t # s => sendersAt[t] = Unlisted
    BY <1>3, <1>6, <1>10 DEF BulkInv, OneSends
  <2>2. \A c \in Clients : copies[c] = 0
    BY <1>6, <2>1 DEF BulkInv, YetToSend, NoneYet
  <2>3. \A t \in Senders : sendersAt'[t] = IF t = s THEN row ELSE Unlisted
    BY <1>3, <1>4, <2>1
  <2>4. OneSends'
    BY <1>5, <1>8, <2>3, IdleRows DEF OneSends
  <2>. QED
    BY <1>7, <2>2, <2>4
<1>11. SentOnce'
  BY <1>3, <1>10 DEF SentOnce
<1>. QED
  BY <1>3, <1>4, <1>5, <1>6, <1>7, <1>8, <1>9, <1>10, <1>11, SenderMoved

\* A run that has it and writes no copy: one is refused, the provider is
\* told or not, the message is cancelled or marked as failed
LEMMA EndsWithoutCopy ==
  ASSUME BulkInv, NEW s \in Senders, CancelBulk(s) \/ RefuseBulk(s) \/ NoticeBulk(s) \/ FailBulk(s)
  PROVE  BulkInv'
<1>1. /\ bulk \in BulkRow /\ copies \in [Clients -> 0..2] /\ noticeLost \in BOOLEAN
      /\ bulkCrossed \in BOOLEAN /\ sendersAt \in [Senders -> SenderRow]
  BY BulkTyped DEF BulkInv
<1>2. UNCHANGED <<readers, pageAt, copies, bulkCrossed>>
  BY DEF CancelBulk, RefuseBulk, NoticeBulk, FailBulk
<1>3. sendersAt[s] # Unlisted /\ sendersAt[s].step \in {"listed", "committed", "failing"}
  BY IdleRows DEF CancelBulk, RefuseBulk, NoticeBulk, FailBulk
<1>4. bulk.later /\ bulk.status # "none"
  BY <1>3 DEF BulkInv, OnlyLater, YetToSend
<1>5. PICK row \in SenderRow :
        /\ sendersAt' = [sendersAt EXCEPT ![s] = row]
        /\ row = Unlisted \/ row = [step |-> "failing", to |-> {}]
        /\ row.step = "failing" => sendersAt[s].step = "listed" \/ noticeLost'
  <2>1. [step |-> "failing", to |-> {}] \in SenderRow
    BY DEF SenderRow
  <2>2. CASE CancelBulk(s)
    BY <2>2, IdleRows DEF CancelBulk
  <2>3. CASE RefuseBulk(s)
    BY <2>1, <2>3 DEF RefuseBulk, SenderTo
  <2>4. CASE NoticeBulk(s)
    BY <2>1, <2>4, IdleRows DEF NoticeBulk, SenderTo
  <2>5. CASE FailBulk(s)
    BY <2>5, IdleRows DEF FailBulk, SenderTo
  <2>. QED
    BY <2>2, <2>3, <2>4, <2>5
<1>6. row.step \in {"idle", "failing"}
  BY <1>5, IdleRows
<1>7. /\ bulk' \in BulkRow /\ bulk'.later /\ bulk'.status # "none"
      /\ bulk'.status \in {bulk.status, "cancelled", "failed"}
      /\ bulk'.status = "failed" => bulk.status = "failed" \/ sendersAt[s].step = "failing"
      /\ bulk'.status # bulk.status => row.step = "idle"
      /\ noticeLost' \in BOOLEAN /\ (noticeLost => noticeLost')
  <2>1. CASE CancelBulk(s)
    BY <1>1, <1>4, <1>5, <2>1, IdleRows DEF CancelBulk, BulkRow
  <2>2. CASE RefuseBulk(s) \/ NoticeBulk(s)
    BY <1>1, <1>4, <2>2 DEF RefuseBulk, NoticeBulk
  <2>3. CASE FailBulk(s)
    <3>1. row.step = "idle"
      BY <1>1, <1>5, <2>3, IdleRows DEF FailBulk, SenderTo
    <3>. QED
      BY <1>1, <1>4, <2>3, <3>1 DEF FailBulk, BulkRow
  <2>. QED
    BY <2>1, <2>2, <2>3
<1>8. SentOnce'
  BY <1>2 DEF BulkInv, SentOnce
<1>9. RecordedAsSent'
  <2>1. bulk'.status = "sent" => bulk.status = "sent"
    BY <1>7
  <2>2. bulk'.status = "failed" => bulkCrossed \/ noticeLost \/ NoneYet
    BY <1>4, <1>7 DEF BulkInv, RecordedAsSent, OneSends, NoneYet
  <2>. QED
    BY <1>2, <1>7, <2>1, <2>2 DEF BulkInv, RecordedAsSent, NoneYet
<1>10. bulk'.status = "pending" => NoneYet'
  BY <1>2, <1>4, <1>7 DEF BulkInv, YetToSend, NoneYet
<1>12. ASSUME pageAt.step = "drafting"
       PROVE  /\ NoneYet' /\ bulk'.status \in {"pending", "cancelled"}
              /\ row.step \in {"idle", "listed"} /\ row.to = {}
  <2>1. /\ NoneYet /\ bulk.status \in {"pending", "cancelled"}
        /\ sendersAt[s].step \in {"idle", "listed"} /\ sendersAt[s].to = {}
    BY <1>12 DEF BulkInv, Drafting
  <2>2. CancelBulk(s)
    BY <2>1 DEF RefuseBulk, NoticeBulk, FailBulk
  <2>3. row = Unlisted
    <3>1. sendersAt'[s] = Unlisted
      BY <1>1, <2>2 DEF CancelBulk
    <3>. QED
      BY <1>1, <1>5, <3>1
  <2>. QED
    BY <1>1, <1>2, <2>1, <2>2, <2>3, IdleRows DEF CancelBulk, BulkRow, NoneYet
<1>11. ASSUME ~bulkCrossed PROVE OneSends'
  <2>1. \A t \in Senders : t # s => sendersAt[t] = Unlisted
    BY <1>3, <1>11 DEF BulkInv, OneSends
  <2>2. \A t \in Senders : sendersAt'[t] = IF t = s THEN row ELSE Unlisted
    BY <1>1, <1>5, <2>1
  <2>3. row.step = "failing" => noticeLost' \/ NoneYet'
    <3>1. sendersAt[s].step = "listed" => NoneYet
      BY <1>11 DEF BulkInv, OneSends, YetToSend
    <3>. QED
      BY <1>2, <1>5, <3>1 DEF NoneYet
  <2>. QED
    BY <1>6, <2>2, <2>3, IdleRows DEF OneSends
<1>. QED
  BY <1>1, <1>2, <1>4, <1>5, <1>6, <1>7, <1>8, <1>9, <1>10, <1>11, <1>12, SenderMoved

LEMMA BulkStep ==
  ASSUME BulkInv, [BulkNext]_bulkVars
  PROVE  BulkInv'
<1>1. CASE UNCHANGED bulkVars
  BY <1>1 DEF bulkVars, BulkInv, BulkTypeOK, SentOnce, RecordedAsSent, OnlyLater, PageSends, YetToSend,
              Drafting, OneSends, NoneYet
<1>2. CASE BulkNext
  BY <1>2, DraftRowKept, AddRecipientsKept, PageSendsOneKept, PageEndsKept, ComesOrLeaves, ListBulkKept, SendBulkKept,
     EndsWithoutCopy DEF BulkNext, RunBulk
<1>. QED
  BY <1>1, <1>2

LEMMA BulkStart == BulkInit => BulkInv
<1> SUFFICES ASSUME BulkInit PROVE BulkInv
  OBVIOUS
<1>1. BulkTypeOK
  <2>1. sendersAt \in [Senders -> SenderRow] /\ copies \in [Clients -> 0..2]
    BY IdleRows DEF BulkInit
  <2>2. bulk \in BulkRow
    BY DEF BulkInit, BulkRow
  <2>. QED
    BY <2>1, <2>2, IdleRows, BulkTyped DEF BulkInit
<1>. QED
  BY <1>1, IdleRows
     DEF BulkInit, BulkInv, SentOnce, RecordedAsSent, OnlyLater, PageSends, YetToSend, Drafting,
         OneSends, NoneYet

\* A message reaches each client once and as recorded, for any number of
\* clients and of runs, with the exceptions that the two properties name.
THEOREM MessagesAreSentOnce == BulkSpec => [](BulkTypeOK /\ SentOnce /\ RecordedAsSent)
<1>1. BulkInv => BulkTypeOK /\ SentOnce /\ RecordedAsSent
  BY DEF BulkInv
<1>. QED
  BY <1>1, BulkStart, BulkStep, PTL DEF BulkSpec

-----------------------------------------------------------------------------
(* Competitive requests: the runs of the dispatcher *)

DispatcherRow ==
    [step : {"idle", "at", "unlogged"}, left : SUBSET PoolRequests, at : {0} \cup PoolRequests]

\* A request that is not crossed: what was told of it is in the log while it
\* is in the pool, the run that has it is alone with it and goes on while
\* nothing is cleared, and what a run found untold is still untold
Apart(r) ==
    /\ \A c, d \in Dispatchers : Has(c, r) /\ Has(d, r) => c = d
    /\ \A d \in Dispatchers : Has(d, r) => clearing[r] = "nothing"

ToldInLog(r) ==
    /\ invitations[r] # 0 => r \in inEventLog
    /\ clearing[r] = "events" => invitations[r] = 0
    /\ invitations[r] <= 1

StillUntold(r) ==
    \A d \in Dispatchers : dispatchers[d].step = "unlogged" /\ dispatchers[d].at = r => r \notin inEventLog

PoolInv ==
    /\ PoolTypeOK
    /\ \A d \in Dispatchers : dispatchers[d].step = "unlogged" => dispatchers[d].at # 0
    /\ \A r \in PoolRequests \ poolCrossed : Apart(r) /\ ToldInLog(r) /\ StillUntold(r)

LEMMA PoolTyped ==
  PoolTypeOK <=>
    /\ pool \in [PoolRequests -> [state : {"none", "open", "out"}, late : BOOLEAN, ripe : BOOLEAN]]
    /\ invitations \in [PoolRequests -> 0..2]
    /\ inEventLog \subseteq PoolRequests /\ poolCrossed \subseteq PoolRequests
    /\ dispatchers \in [Dispatchers -> DispatcherRow]
    /\ clearing \in [PoolRequests -> {"nothing", "notices", "events"}]
    /\ relists \in 0..MaxRelists /\ lostRuns \in 0..MaxLostRuns
  BY DEF PoolTypeOK, DispatcherRow

LEMMA PoolNumbers == \A r \in PoolRequests : r \in Nat /\ r # 0
  BY PoolAssumption DEF PoolRequests

LEMMA NotDispatchingTyped ==
  /\ NotDispatching \in DispatcherRow /\ NotDispatching.step = "idle"
  /\ NotDispatching.left = {} /\ NotDispatching.at = 0
  BY DEF NotDispatching, DispatcherRow

\* The requests come, go and grow old
LEMMA PoolMoved ==
  ASSUME PoolInv, UNCHANGED <<invitations, inEventLog, dispatchers, clearing, poolCrossed, relists, lostRuns>>,
         pool' \in [PoolRequests -> [state : {"none", "open", "out"}, late : BOOLEAN, ripe : BOOLEAN]]
  PROVE  PoolInv'
<1>1. PoolTypeOK'
  BY DEF PoolInv, PoolTypeOK
<1>. QED
  BY <1>1 DEF PoolInv, Apart, ToldInLog, StillUntold, Has

LEMMA EntersOrLeaves ==
  ASSUME PoolInv, NEW r \in PoolRequests, EnterPool(r) \/ LeavePool(r) \/ PoolTick(r)
  PROVE  PoolInv'
<1>1. UNCHANGED <<invitations, inEventLog, dispatchers, clearing, poolCrossed, relists, lostRuns>>
  BY DEF EnterPool, LeavePool, PoolTick
<1>2. pool \in [PoolRequests -> [state : {"none", "open", "out"}, late : BOOLEAN, ripe : BOOLEAN]]
  BY DEF PoolInv, PoolTypeOK
<1>3. pool' \in [PoolRequests -> [state : {"none", "open", "out"}, late : BOOLEAN, ripe : BOOLEAN]]
  <2>1. CASE EnterPool(r)
    BY <1>2, <2>1 DEF EnterPool
  <2>2. CASE LeavePool(r)
    BY <1>2, <2>2 DEF LeavePool
  <2>3. CASE PoolTick(r)
    BY <1>2, <2>3 DEF PoolTick
  <2>. QED
    BY <2>1, <2>2, <2>3
<1>. QED
  BY <1>1, <1>3, PoolMoved

\* A request that returns to the pool under a run is crossed
LEMMA RelistKept ==
  ASSUME PoolInv, NEW r \in PoolRequests, Relist(r)
  PROVE  PoolInv'
<1>1. /\ clearing[r] = "nothing" /\ clearing' = [clearing EXCEPT ![r] = "notices"]
      /\ relists < MaxRelists /\ relists' = relists + 1
      /\ pool' = [pool EXCEPT ![r].state = "open"]
      /\ poolCrossed' = poolCrossed \cup {q \in {r} : \E d \in Dispatchers : Has(d, r)}
      /\ UNCHANGED <<invitations, inEventLog, dispatchers, lostRuns>>
  BY DEF Relist
<1>2. PoolTypeOK'
  <2>1. relists' \in 0..MaxRelists
    BY <1>1, PoolAssumption DEF PoolInv, PoolTypeOK
  <2>2. poolCrossed' \subseteq PoolRequests
    BY <1>1 DEF PoolInv, PoolTypeOK
  <2>3. pool' \in [PoolRequests -> [state : {"none", "open", "out"}, late : BOOLEAN, ripe : BOOLEAN]]
    BY <1>1 DEF PoolInv, PoolTypeOK
  <2>. QED
    BY <1>1, <2>1, <2>2, <2>3 DEF PoolInv, PoolTypeOK
<1>3. ASSUME NEW q \in PoolRequests \ poolCrossed' PROVE Apart(q)' /\ ToldInLog(q)' /\ StillUntold(q)'
  <2>1. q \in PoolRequests \ poolCrossed
    BY <1>1
  <2>2. clearing'[q] = IF q = r THEN "notices" ELSE clearing[q]
    BY <1>1 DEF PoolInv, PoolTypeOK
  <2>3. q = r => \A d \in Dispatchers : ~Has(d, r)
    BY <1>1
  <2>4. Apart(q) /\ ToldInLog(q) /\ StillUntold(q)
    BY <2>1 DEF PoolInv
  <2>. QED
    BY <1>1, <2>2, <2>3, <2>4 DEF Apart, ToldInLog, StillUntold, Has
<1>. QED
  BY <1>1, <1>2, <1>3 DEF PoolInv

\* The clearing of a request: what was told, and then the log of it
LEMMA ClearingKept ==
  ASSUME PoolInv, NEW r \in PoolRequests, ClearNotices(r) \/ ClearEvents(r) \/ LoseClearing(r)
  PROVE  PoolInv'
<1>1. UNCHANGED <<pool, dispatchers, poolCrossed, relists>>
  BY DEF ClearNotices, ClearEvents, LoseClearing
<1>2. PoolTypeOK'
  <2>1. CASE ClearNotices(r)
    BY <2>1 DEF ClearNotices, Uninvited, PoolInv, PoolTypeOK
  <2>2. CASE ClearEvents(r)
    BY <2>2 DEF ClearEvents, PoolInv, PoolTypeOK
  <2>3. CASE LoseClearing(r)
    BY <2>3, PoolAssumption DEF LoseClearing, PoolInv, PoolTypeOK
  <2>. QED
    BY <2>1, <2>2, <2>3
<1>3. ASSUME NEW q \in PoolRequests \ poolCrossed PROVE Apart(q)' /\ ToldInLog(q)' /\ StillUntold(q)'
  <2>1. Apart(q) /\ ToldInLog(q) /\ StillUntold(q)
    BY DEF PoolInv
  <2>2. q # r => clearing'[q] = clearing[q] /\ invitations'[q] = invitations[q]
                 /\ (q \in inEventLog' <=> q \in inEventLog)
    BY DEF ClearNotices, ClearEvents, LoseClearing, PoolInv, PoolTypeOK
  <2>3. clearing[r] # "nothing" /\ clearing'[r] \in {"nothing", "events"}
    BY DEF ClearNotices, ClearEvents, LoseClearing, PoolInv, PoolTypeOK
  <2>4. CASE q # r
    BY <1>1, <2>1, <2>2, <2>4 DEF Apart, ToldInLog, StillUntold, Has
  <2>5. CASE q = r
    <3>1. \A d \in Dispatchers : ~Has(d, r)
      BY <2>1, <2>3, <2>5 DEF Apart
    <3>2. Apart(q)' /\ StillUntold(q)'
      BY <1>1, <2>5, <3>1 DEF Apart, StillUntold, Has
    <3>3. invitations \in [PoolRequests -> 0..2] /\ clearing \in [PoolRequests -> {"nothing", "notices", "events"}]
      BY DEF PoolInv, PoolTypeOK
    <3>4. ToldInLog(r)'
      <4>1. CASE ClearNotices(r)
        BY <3>3, <4>1 DEF ClearNotices, Uninvited, ToldInLog
      <4>2. CASE ClearEvents(r)
        BY <2>1, <2>5, <3>3, <4>2 DEF ClearEvents, ToldInLog
      <4>3. CASE LoseClearing(r)
        BY <2>1, <2>5, <3>3, <4>3 DEF LoseClearing, ToldInLog
      <4>. QED
        BY <4>1, <4>2, <4>3
    <3>. QED
      BY <2>5, <3>2, <3>4
  <2>. QED
    BY <2>4, <2>5
<1>. QED
  BY <1>1, <1>2, <1>3 DEF PoolInv

\* A run goes on with what it has, or with less
LEMMA RunGoesOn ==
  ASSUME PoolInv, NEW d \in Dispatchers, NEW row \in DispatcherRow,
         dispatchers' = [dispatchers EXCEPT ![d] = row],
         row.left \cup ({row.at} \ {0}) \subseteq dispatchers[d].left,
         row.step = "unlogged" => row.at # 0 /\ row.at \notin inEventLog,
         UNCHANGED <<pool, invitations, inEventLog, clearing, poolCrossed, relists>>,
         lostRuns' \in 0..MaxLostRuns
  PROVE  PoolInv'
<1>1. /\ \A c \in Dispatchers : dispatchers'[c] = IF c = d THEN row ELSE dispatchers[c]
      /\ dispatchers' \in [Dispatchers -> DispatcherRow]
  BY PoolTyped DEF PoolInv
<1>2. PoolTypeOK'
  BY <1>1 DEF PoolInv, PoolTypeOK, DispatcherRow
<1>3. \A c \in Dispatchers, r \in PoolRequests :
        (r \in dispatchers'[c].left \cup {dispatchers'[c].at}) => r \in dispatchers[c].left \cup {dispatchers[c].at}
  BY <1>1, PoolNumbers
<1>4. ASSUME NEW r \in PoolRequests \ poolCrossed PROVE Apart(r)' /\ ToldInLog(r)' /\ StillUntold(r)'
  <2>1. Apart(r) /\ ToldInLog(r) /\ StillUntold(r)
    BY DEF PoolInv
  <2>2. Apart(r)'
    BY <1>3, <2>1 DEF Apart, Has
  <2>3. StillUntold(r)'
    BY <1>1, <2>1 DEF StillUntold
  <2>. QED
    BY <2>1, <2>2, <2>3 DEF ToldInLog
<1>. QED
  BY <1>1, <1>2, <1>4 DEF PoolInv

\* Whom a run has listed, and another had or a return clears, is crossed
LEMMA ListPoolKept ==
  ASSUME PoolInv, NEW d \in Dispatchers, ListPool(d)
  PROVE  PoolInv'
<1> DEFINE row == [step |-> "at", left |-> {r \in Listed : pool[r].ripe}, at |-> 0]
<1>1. /\ dispatchers[d] = NotDispatching /\ dispatchers' = [dispatchers EXCEPT ![d] = row]
      /\ poolCrossed' = poolCrossed \cup
           {r \in Listed : clearing[r] # "nothing" \/ \E c \in Dispatchers : Has(c, r)}
      /\ UNCHANGED <<pool, invitations, inEventLog, clearing, relists, lostRuns>>
  BY DEF ListPool, Dispatching
<1>2. Listed \subseteq PoolRequests
  BY DEF Listed, Open
<1>3. row \in DispatcherRow /\ row.step = "at" /\ row.left \subseteq Listed /\ row.at = 0
  BY <1>2 DEF DispatcherRow
<1> HIDE DEF row
<1>4. /\ \A c \in Dispatchers : dispatchers'[c] = IF c = d THEN row ELSE dispatchers[c]
      /\ dispatchers' \in [Dispatchers -> DispatcherRow]
  BY <1>1, <1>3, PoolTyped DEF PoolInv
<1>5. PoolTypeOK'
  BY <1>1, <1>2, <1>4 DEF PoolInv, PoolTypeOK, DispatcherRow
<1>6. ASSUME NEW r \in PoolRequests \ poolCrossed' PROVE Apart(r)' /\ ToldInLog(r)' /\ StillUntold(r)'
  <2>1. r \in PoolRequests \ poolCrossed /\ r # 0
    BY <1>1, PoolNumbers
  <2>2. Apart(r) /\ ToldInLog(r) /\ StillUntold(r)
    BY <2>1 DEF PoolInv
  <2>3. r \in Listed => clearing[r] = "nothing" /\ \A c \in Dispatchers : ~Has(c, r)
    BY <1>1
  <2>4. Apart(r)'
    BY <1>1, <1>3, <1>4, <2>1, <2>2, <2>3 DEF Apart, Has
  <2>5. StillUntold(r)'
    BY <1>1, <1>3, <1>4, <2>2 DEF StillUntold
  <2>. QED
    BY <1>1, <2>2, <2>4, <2>5 DEF ToldInLog
<1>. QED
  BY <1>1, <1>3, <1>4, <1>5, <1>6 DEF PoolInv

\* Nobody else has the request, and nothing was told of it
LEMMA InviteKept ==
  ASSUME PoolInv, NEW d \in Dispatchers, Invite(d)
  PROVE  PoolInv'
<1>1. PICK r : r = dispatchers[d].at
  OBVIOUS
<1>2. PICK row : row = [step |-> "at", left |-> dispatchers[d].left, at |-> 0]
  OBVIOUS
<1>3. /\ dispatchers[d].step = "unlogged"
      /\ invitations' = [invitations EXCEPT ![r] = IF @ < 2 THEN @ + 1 ELSE @]
      /\ inEventLog' = inEventLog \cup {r}
      /\ dispatchers' = [dispatchers EXCEPT ![d] = row]
      /\ UNCHANGED <<pool, clearing, poolCrossed, relists, lostRuns>>
  BY <1>1, <1>2 DEF Invite, Dispatching
<1>4. r \in PoolRequests /\ row \in DispatcherRow /\ row.step = "at" /\ row.at = 0
      /\ row.left = dispatchers[d].left
  BY <1>1, <1>2, <1>3, PoolTyped DEF PoolInv, DispatcherRow
<1>5. /\ \A c \in Dispatchers : dispatchers'[c] = IF c = d THEN row ELSE dispatchers[c]
      /\ dispatchers' \in [Dispatchers -> DispatcherRow]
  BY <1>3, <1>4, PoolTyped DEF PoolInv
<1>6. /\ invitations \in [PoolRequests -> 0..2] /\ invitations' \in [PoolRequests -> 0..2]
      /\ \A q \in PoolRequests : q # r => invitations'[q] = invitations[q]
      /\ invitations[r] = 0 => invitations'[r] = 1
  BY <1>3, <1>4 DEF PoolInv, PoolTypeOK
<1>7. PoolTypeOK'
  BY <1>3, <1>4, <1>5, <1>6 DEF PoolInv, PoolTypeOK, DispatcherRow
<1>8. ASSUME NEW q \in PoolRequests \ poolCrossed PROVE Apart(q)' /\ ToldInLog(q)' /\ StillUntold(q)'
  <2>1. Apart(q) /\ ToldInLog(q) /\ StillUntold(q) /\ q # 0
    BY PoolNumbers DEF PoolInv
  <2>2. Apart(q)'
    BY <1>3, <1>4, <1>5, <2>1 DEF Apart, Has
  <2>3. Has(d, r)
    BY <1>1 DEF Has
  <2>4. ToldInLog(q)'
    <3>1. CASE q = r
      <4>1. r \notin inEventLog /\ clearing[r] = "nothing"
        BY <1>1, <1>3, <2>1, <2>3, <3>1 DEF StillUntold, Apart
      <4>2. invitations[r] = 0
        BY <2>1, <3>1, <4>1 DEF ToldInLog
      <4>. QED
        BY <1>3, <1>6, <3>1, <4>1, <4>2 DEF ToldInLog
    <3>2. CASE q # r
      BY <1>3, <1>6, <2>1, <3>2 DEF ToldInLog
    <3>. QED
      BY <3>1, <3>2
  <2>5. StillUntold(q)'
    <3>1. CASE q = r
      <4>1. \A c \in Dispatchers : c # d => dispatchers[c].at # r
        BY <2>1, <2>3, <3>1 DEF Apart, Has
      <4>. QED
        BY <1>4, <1>5, <3>1, <4>1 DEF StillUntold
    <3>2. CASE q # r
      BY <1>3, <1>4, <1>5, <2>1, <3>2 DEF StillUntold
    <3>. QED
      BY <3>1, <3>2
  <2>. QED
    BY <2>2, <2>4, <2>5
<1>. QED
  BY <1>3, <1>4, <1>5, <1>7, <1>8 DEF PoolInv

LEMMA PoolStep ==
  ASSUME PoolInv, [PoolNext]_poolVars
  PROVE  PoolInv'
<1>0. dispatchers \in [Dispatchers -> DispatcherRow] /\ lostRuns \in 0..MaxLostRuns
  BY PoolTyped DEF PoolInv
<1>1. ASSUME NEW d \in Dispatchers, NEW r \in PoolRequests, LookAt(d, r) PROVE PoolInv'
  <2> DEFINE left == dispatchers[d].left \ {r}
  <2>1. /\ r \in dispatchers[d].left /\ r # 0
        /\ UNCHANGED <<pool, invitations, inEventLog, clearing, poolCrossed, relists, lostRuns>>
        /\ \/ r \notin inEventLog /\ dispatchers' = [dispatchers EXCEPT ![d] = [step |-> "unlogged", left |-> left, at |-> r]]
           \/ dispatchers' = [dispatchers EXCEPT ![d] = [step |-> "at", left |-> left, at |-> 0]]
    BY <1>1, PoolNumbers DEF LookAt, Dispatching, Unsent
  <2>2. PICK row : /\ \/ r \notin inEventLog /\ row = [step |-> "unlogged", left |-> left, at |-> r]
                      \/ row = [step |-> "at", left |-> left, at |-> 0]
                   /\ dispatchers' = [dispatchers EXCEPT ![d] = row]
    BY <2>1
  <2>3. /\ row \in DispatcherRow /\ row.left \cup ({row.at} \ {0}) \subseteq dispatchers[d].left
        /\ row.step = "unlogged" => row.at # 0 /\ row.at \notin inEventLog
    BY <1>0, <2>1, <2>2 DEF DispatcherRow
  <2>. QED
    BY <1>0, <2>1, <2>2, <2>3, RunGoesOn
<1>2. ASSUME NEW d \in Dispatchers, EndRun(d) \/ LoseRun(d) PROVE PoolInv'
  <2>1. /\ dispatchers' = [dispatchers EXCEPT ![d] = NotDispatching] /\ lostRuns' \in 0..MaxLostRuns
        /\ UNCHANGED <<pool, invitations, inEventLog, clearing, poolCrossed, relists>>
    BY <1>0, <1>2, PoolAssumption DEF EndRun, LoseRun
  <2>2. /\ NotDispatching.left \cup ({NotDispatching.at} \ {0}) \subseteq dispatchers[d].left
        /\ NotDispatching.step # "unlogged" /\ NotDispatching \in DispatcherRow
    BY NotDispatchingTyped
  <2>. QED
    BY <2>1, <2>2, RunGoesOn
<1>3. CASE UNCHANGED poolVars
  BY <1>3 DEF poolVars, PoolInv, PoolTypeOK, Apart, ToldInLog, StillUntold, Has
<1>. QED
  BY <1>1, <1>2, <1>3, EntersOrLeaves, RelistKept, ClearingKept, ListPoolKept, InviteKept
     DEF PoolNext, RunPool

LEMMA PoolStart == PoolInit => PoolInv
<1> SUFFICES ASSUME PoolInit PROVE PoolInv
  OBVIOUS
<1>1. dispatchers \in [Dispatchers -> DispatcherRow] /\ \A d \in Dispatchers : dispatchers[d] = NotDispatching
  BY NotDispatchingTyped DEF PoolInit
<1>2. 0 \in 0..MaxRelists /\ 0 \in 0..MaxLostRuns
  BY PoolAssumption
<1>3. PoolTypeOK
  BY <1>1, <1>2, PoolTyped DEF PoolInit
<1>4. \A r \in PoolRequests : Apart(r) /\ ToldInLog(r) /\ StillUntold(r)
  BY <1>1, NotDispatchingTyped, PoolNumbers DEF PoolInit, Apart, ToldInLog, StillUntold, Has
<1>. QED
  BY <1>1, <1>3, <1>4, NotDispatchingTyped DEF PoolInv

\* A provider is invited once to a request while it is in the pool, for any
\* number of requests, runs, returns and deaths, unless two runs had it at
\* once or one had it while it returned.
THEOREM InvitedOnceForListing == PoolSpec => [](PoolTypeOK /\ InvitedOncePerListing)
<1>1. PoolInv => PoolTypeOK /\ InvitedOncePerListing
  BY DEF PoolInv, ToldInLog, InvitedOncePerListing
<1>. QED
  BY <1>1, PoolStart, PoolStep, PTL DEF PoolSpec

-----------------------------------------------------------------------------
(* The jobs together *)

\* Whatever the focus, each service takes a step of its own or none.
LEMMA EachJobSteps ==
  ASSUME [JobsNext]_jobsVars
  PROVE  /\ [PromoNext]_promoVars /\ [BulkNext]_bulkVars /\ [PoolNext]_poolVars
  BY DEF JobsNext, jobsVars

LEMMA EachJob == JobsSpec => PromoSpec /\ BulkSpec /\ PoolSpec
<1>1. JobsInit => PromoInit /\ BulkInit /\ PoolInit
  BY DEF JobsInit
<1>. QED
  BY <1>1, EachJobSteps, PTL DEF JobsSpec, PromoSpec, BulkSpec, PoolSpec

\* A message reaches each client once and as recorded, and a provider is
\* invited once for each listing of a request, with the exceptions that the
\* conjuncts of OnceEach name.
THEOREM ToldOnce == JobsSpec => []OnceEach
<1>1. /\ BulkTypeOK /\ PoolTypeOK
      /\ SentOnce /\ RecordedAsSent /\ InvitedOncePerListing
      => OnceEach
  BY DEF OnceEach
<1>. QED
  BY <1>1, EachJob, MessagesAreSentOnce, InvitedOnceForListing, PTL
================================================================================
