--------------------------- MODULE RequestPayments ---------------------------
(***************************************************************************)
(* The money of one service request (backend/apps/marketplace/payments.py) *)
(* on top of its life in ServiceRequest: the three amounts on the row, the *)
(* payment plan and its installments.                                      *)
(*                                                                         *)
(* Every handler here is one action: each runs in one transaction, and the *)
(* only database the code runs its locking queries on serialises writers   *)
(* (see the README).                                                       *)
(***************************************************************************)
EXTENDS ServiceRequest, Integers, Sequences

CONSTANTS
    MaxAmount,        \* bound: amounts of money are 0..MaxAmount
    MaxInstallments,  \* bound: installments of one plan
    ReceiptsRejected  \* BOOLEAN: the providers ever reject a receipt

ASSUME PaymentsAssumption ==
    /\ MaxAmount \in Nat
    /\ MaxInstallments \in Nat \ {0}
    /\ ReceiptsRejected \in BOOLEAN

VARIABLES
    amounts,      \* estimated, received and remaining amount of the row
    plan,         \* its ServiceRequestPaymentPlan, or NoPlan
    installments  \* the installments of the plan, by sequence number

money == <<amounts, plan, installments>>
payVars == <<sr, logged, offers, profiles, worker, amounts, plan, installments>>

Money == 0..MaxAmount
Amounts(t, r) == [total |-> t, received |-> r, remaining |-> t - r]
NoAmounts == Amounts(0, 0)   \* NULL: _money reads it as zero

\* The status of a plan is PAID exactly when nothing remains: both are
\* written by recalculate_payment_plan.  bank is the account copied into it.
Plan == [provider : Providers, bank : Providers,
         total : Money \ {0}, confirmed : Money, remaining : Money]
NoPlan == [provider |-> NoProvider, bank |-> NoProvider,
           total |-> 0, confirmed |-> 0, remaining |-> 0]

Installment ==
    [amount : Money \ {0},
     status : {"pending_payment", "receipt_uploaded", "confirmed", "rejected"}]

PayTypeOK ==
    /\ amounts \in [total : Money, received : Money, remaining : Money]
    /\ plan \in Plan \cup {NoPlan}
    /\ installments \in Seq(Installment)
    /\ Len(installments) <= MaxInstallments

PayInit ==
    /\ Init
    /\ amounts = NoAmounts
    /\ plan = NoPlan
    /\ installments = <<>>

-----------------------------------------------------------------------------
(* Helpers of payments.py *)

\* The sum of a sequence of amounts
SumOf(v) ==
    LET upTo[n \in 0..Len(v)] == IF n = 0 THEN 0 ELSE upTo[n - 1] + v[n]
    IN  upTo[Len(v)]

\* What each installment adds to a sum over the given statuses
Counted(list, statuses) ==
    [i \in DOMAIN list |-> IF list[i].status \in statuses THEN list[i].amount ELSE 0]

AmountIn(list, statuses) == SumOf(Counted(list, statuses))

Confirmed(list) == AmountIn(list, {"confirmed"})
Pending(list) == AmountIn(list, {"pending_payment", "receipt_uploaded"})

\* Mutation: the confirmed sum is not capped by the total
RecalculatedUncapped(pl, list) ==
    [pl EXCEPT !.confirmed = Confirmed(list), !.remaining = pl.total - Confirmed(list)]

\* recalculate_payment_plan
Recalculated(pl, list) ==
    LET confirmed == IF Confirmed(list) > pl.total THEN pl.total ELSE Confirmed(list)
    IN  [pl EXCEPT !.confirmed = confirmed, !.remaining = pl.total - confirmed]

\* What recalculate_payment_plan copies from the plan to the row
Mirror(pl) == Amounts(pl.total, pl.confirmed)

\* ensure_payment_plan_for_request, for a request IN_PROGRESS: whether it
\* yields a plan, and the plan it creates or brings up to date.  banked: the
\* provider has a bank profile at that moment.
Ensures(banked) == sr.provider # NoProvider /\ amounts.total > 0 /\ banked

EnsuredInstallments ==
    CASE plan # NoPlan                           -> installments
      [] plan = NoPlan /\ amounts.received = 0   -> <<>>
      [] plan = NoPlan /\ amounts.received > 0   ->
           <<[amount |-> amounts.received, status |-> "confirmed"]>>

EnsuredPlan ==
    LET old == IF plan = NoPlan THEN [plan EXCEPT !.bank = sr.provider] ELSE plan
    IN  Recalculated([old EXCEPT !.provider = sr.provider, !.total = amounts.total],
                     EnsuredInstallments)

EnsurePlan(banked) ==
    IF Ensures(banked)
    THEN /\ plan' = EnsuredPlan
         /\ installments' = EnsuredInstallments
         /\ amounts' = IF plan = NoPlan THEN amounts ELSE Mirror(EnsuredPlan)
    ELSE UNCHANGED money

\* Mutation: only what is confirmed counts as committed
ReviseIgnoringPending(t) ==
    /\ t > 0
    /\ t >= plan.confirmed
    /\ plan' = Recalculated([plan EXCEPT !.total = t], installments)
    /\ amounts' = Mirror(plan')

\* revise_payment_plan_total: refused below what is confirmed or asked for
RevisePlan(t) ==
    /\ t > 0
    /\ t >= plan.confirmed + Pending(installments)
    /\ plan' = Recalculated([plan EXCEPT !.total = t], installments)
    /\ amounts' = Mirror(plan')

-----------------------------------------------------------------------------
(* The steps of the request, with what they do to its money *)

\* RequestStartView writes the amounts, whether there is a plan or not
SubmitAmounts(p) ==
    /\ SubmitDetails(p)
    /\ \E t \in Money : \E r \in 0..t : amounts' = Amounts(t, r)
    /\ UNCHANGED <<plan, installments>>

\* Mutation: the amounts submitted win over the plan
UpdateAmountsOverPlan(p) ==
    \E required \in SUBSET Responses, given \in BOOLEAN :
        /\ ProgressUpdate(p, required, given)
        /\ \/ ~given /\ UNCHANGED amounts
           \/ given /\ \E t \in Money : \E r \in 0..t : amounts' = Amounts(t, r)
        /\ UNCHANGED <<plan, installments>>

\* ProviderProgressUpdateView: with a plan the total is revised at once, and
\* the row follows the plan whatever was received; without one it is written
UpdateAmounts(p) ==
    \E required \in SUBSET Responses, given \in BOOLEAN :
        /\ ProgressUpdate(p, required, given)
        /\ \/ /\ given /\ plan = NoPlan
              /\ \E t \in Money : \E r \in 0..t : amounts' = Amounts(t, r)
              /\ UNCHANGED plan
           \/ /\ given /\ plan # NoPlan
              /\ \E t \in Money : RevisePlan(t)
           \/ /\ ~given
              /\ amounts' = IF plan = NoPlan THEN amounts ELSE Mirror(plan)
              /\ UNCHANGED plan
        /\ UNCHANGED installments

\* approve_inputs ensures the plan in its transaction
ApproveWithPlan ==
    /\ PageApprove \/ \E w \in Workers : DecisionApply(w)
    /\ IF sr'.status = "in_progress" /\ sr' # sr
       THEN \E banked \in BOOLEAN : EnsurePlan(banked)
       ELSE UNCHANGED money

\* cancel() and release_to_pool() clear the amounts before execution; the
\* plan stays
EndRound ==
    /\ \/ \E p \in Providers : ProviderReject(p) \/ ProviderCancel(p)
       \/ EngagedCancel \/ ClientCancel \/ Relist
    /\ amounts' = IF sr.status \in PreExecution THEN NoAmounts ELSE amounts
    /\ UNCHANGED <<plan, installments>>

\* The plan cascades with the account of its own provider
DropProvider(p) ==
    /\ DeleteProviderAccount(p)
    /\ IF plan.provider = p
       THEN plan' = NoPlan /\ installments' = <<>>
       ELSE UNCHANGED <<plan, installments>>
    /\ UNCHANGED amounts

DropRequest ==
    /\ HardDelete \/ DeleteClientAccount
    /\ amounts' = NoAmounts /\ plan' = NoPlan /\ installments' = <<>>

\* The steps that leave the money alone
OtherStep ==
    /\ \/ \E p \in Providers :
            \/ UrgentAccept(p) \/ AssignedAccept(p) \/ StaffAccept(p)
            \/ Complete(p) \/ AcceptOffer(p)
       \/ RejectInputs \/ StaffStart \/ StaffComplete
       \/ \E w \in Workers :
            \/ \E p \in Providers : LegacyAcceptRead(w, p) \/ CreateOfferCheck(w, p)
            \/ \E answer \in SUBSET Responses : DecisionCheck(w, answer)
            \/ LegacyAcceptUpdate(w) \/ LegacyAcceptLog(w) \/ CreateOfferInsert(w)
            \/ EditCheck(w) \/ EditSave(w)
            \/ Reopen(w) \/ Redispatch(w) \/ WorkerLost(w)
    /\ UNCHANGED money

-----------------------------------------------------------------------------
(* The payment endpoints *)

\* create_installment; a refusal rolls back the plan it has ensured
CreateInstallment(p, amount) ==
    /\ p \in profiles
    /\ sr.provider = p
    /\ sr.status = "in_progress"
    /\ Len(EnsuredInstallments) < MaxInstallments
    /\ Ensures(TRUE)
    /\ EnsuredPlan.remaining > 0
    /\ amount <= EnsuredPlan.remaining - Pending(EnsuredInstallments)
    /\ plan' = EnsuredPlan
    /\ amounts' = IF plan = NoPlan THEN amounts ELSE Mirror(EnsuredPlan)
    /\ installments' = Append(EnsuredInstallments,
                              [amount |-> amount, status |-> "pending_payment"])
    /\ LogStatus(sr.status)
    /\ UNCHANGED <<sr, offers, profiles, worker>>

\* Mutation: any receipt may be replaced
UploadReceiptAgain(i) ==
    /\ installments[i].status # "receipt_uploaded"
    /\ installments[i].amount <= plan.remaining
    /\ installments' = [installments EXCEPT ![i].status = "receipt_uploaded"]
    /\ LogStatus(sr.status)
    /\ UNCHANGED <<sr, offers, profiles, worker, amounts, plan>>

\* upload_installment_receipt, whatever the status of the request
UploadReceipt(i) ==
    /\ installments[i].status \in {"pending_payment", "rejected"}
    /\ installments[i].amount <= plan.remaining
    /\ installments' = [installments EXCEPT ![i].status = "receipt_uploaded"]
    /\ LogStatus(sr.status)
    /\ UNCHANGED <<sr, offers, profiles, worker, amounts, plan>>

\* Mutation: the plan is not recalculated when a receipt is confirmed
DecideReceiptAlone(p, i, approved) ==
    /\ p \in profiles
    /\ sr.provider = p
    /\ installments[i].status = "receipt_uploaded"
    /\ installments' = [installments EXCEPT ![i].status =
                           IF approved THEN "confirmed" ELSE "rejected"]
    /\ LogStatus(sr.status)
    /\ UNCHANGED <<sr, offers, profiles, worker, plan, amounts>>

\* decide_installment_receipt
DecideReceipt(p, i, approved) ==
    /\ p \in profiles
    /\ sr.provider = p
    /\ installments[i].status = "receipt_uploaded"
    /\ installments' = [installments EXCEPT ![i].status =
                           IF approved THEN "confirmed" ELSE "rejected"]
    /\ plan' = IF approved THEN Recalculated(plan, installments') ELSE plan
    /\ amounts' = IF approved THEN Mirror(plan') ELSE amounts
    /\ LogStatus(sr.status)
    /\ UNCHANGED <<sr, offers, profiles, worker>>

PayNext ==
    \/ \E p \in Providers :
         \/ SubmitAmounts(p) \/ UpdateAmounts(p) \/ DropProvider(p)
         \/ \E amount \in Money \ {0} : CreateInstallment(p, amount)
         \/ \E i \in DOMAIN installments :
              \/ DecideReceipt(p, i, TRUE)
              \/ ReceiptsRejected /\ DecideReceipt(p, i, FALSE)
    \/ \E i \in DOMAIN installments : UploadReceipt(i)
    \/ ApproveWithPlan \/ EndRound \/ DropRequest \/ OtherStep

PaySpec == PayInit /\ [][PayNext]_payVars

-----------------------------------------------------------------------------
(* Properties *)

\* The confirmed amount of a plan is the sum of its confirmed installments,
\* capped by the total: no path that creates, confirms, revises or re-ensures
\* leaves the two apart.
ConfirmedIsSum ==
    plan # NoPlan =>
        plan.confirmed = IF Confirmed(installments) > plan.total
                         THEN plan.total ELSE Confirmed(installments)

\* A payment the provider has confirmed stands, through updates, cancellation
\* and reopening, until the plan goes with an account or with the request.
ConfirmedStands ==
    [][ \A i \in DOMAIN installments :
          installments[i].status = "confirmed" =>
              plan' = NoPlan \/ installments'[i] = installments[i] ]_payVars

\* A normal request that has a plan shows its amounts, in every status from
\* execution on: the row is a copy that five handlers write.  (A cancellation
\* during an update clears the row and leaves the plan; the other types may
\* then be reopened with that plan.)
MirrorsPlan ==
    plan # NoPlan /\ sr.rtype = "normal" /\ sr.status # "cancelled"
    => amounts = Mirror(plan)

\* What is paid and what is asked for never exceed the total, through every
\* installment, receipt and revision of the total.
Committed ==
    plan # NoPlan => Confirmed(installments) + Pending(installments) <= plan.total
==============================================================================
