------------------------- MODULE RequestPaymentsProofs -------------------------
(***************************************************************************)
(* Proofs about RequestPayments, for any amounts, plans and installments,  *)
(* on top of the invariants of the request proved in ServiceRequestProofs. *)
(***************************************************************************)
EXTENDS RequestPayments, ServiceRequestProofs, SequenceTheorems, WellFoundedInduction

(* Sums of sequences. *)

\* Induction, as the provers can use it: a set of naturals has a least element.
LEMMA LeastOf ==
  ASSUME NEW T \in SUBSET Nat, T # {}
  PROVE  \E m \in T : \A k \in T : m <= k
<1> DEFINE R == {ss \in Nat \X Nat : ss[1] < ss[2]}
<1>1. IsWellFoundedOn(R, Nat)
  BY NatLessThanWellFounded DEF OpToRel
<1>2. T \subseteq Nat
  OBVIOUS
<1>3. PICK m \in T : \A k \in T : <<k, m>> \notin R
  <2> HIDE DEF R
  <2>. QED
    BY <1>1, <1>2, WFMin, Zenon
<1>4. ASSUME NEW k \in T PROVE m <= k
  <2>1. <<k, m>> \notin R /\ <<k, m>> \in Nat \X Nat
    BY <1>2, <1>3
  <2>2. ~(k < m)
    BY <2>1
  <2>. QED
    BY <1>2, <2>2
<1>. QED
  BY <1>4

\* Every sequence of naturals has its partial sums.
LEMMA SumsExist ==
  ASSUME NEW v \in Seq(Nat)
  PROVE  \E s \in [0..Len(v) -> Nat] : s[0] = 0 /\ \A n \in 1..Len(v) : s[n] = s[n - 1] + v[n]
<1> DEFINE Upto(m, s) == s \in [0..m -> Nat] /\ s[0] = 0 /\ \A n \in 1..m : s[n] = s[n - 1] + v[n]
           Failing == {m \in 0..Len(v) : ~\E s : Upto(m, s)}
<1>1. Len(v) \in Nat /\ \A n \in 1..Len(v) : v[n] \in Nat
  OBVIOUS
<1>2. ASSUME Failing # {} PROVE FALSE
  <2>0. Failing \in SUBSET Nat BY <1>1
  <2>1. PICK m \in Failing : \A k \in Failing : m <= k
    BY <1>2, <2>0, LeastOf
  <2>2. m # 0
    <3>1. Upto(0, [n \in 0..0 |-> 0])
      OBVIOUS
    <3>. QED
      BY <3>1
  <2>3. m \in 0..Len(v) /\ m - 1 \in 0..Len(v)
    BY <1>1, <2>1, <2>2
  <2>4. PICK s : Upto(m - 1, s)
    <3>1. m - 1 \notin Failing
      <4> HIDE DEF Failing
      <4>. QED
        BY <1>1, <2>1, <2>3
    <3>. QED
      BY <2>3, <3>1
  <2>5. Upto(m, [n \in 0..m |-> IF n = m THEN s[m - 1] + v[m] ELSE s[n]])
    BY <1>1, <2>1, <2>2, <2>4
  <2>. QED
    BY <2>1, <2>5
<1>3. Len(v) \notin Failing
  BY <1>2
<1>. QED
  BY <1>1, <1>3

\* The recursive function of SumOf is those partial sums.
LEMMA SumIs ==
  ASSUME NEW v \in Seq(Nat), NEW s \in [0..Len(v) -> Int],
         s[0] = 0, \A n \in 1..Len(v) : s[n] = s[n - 1] + v[n]
  PROVE  SumOf(v) = s[Len(v)]
<1> DEFINE Sum(g) == g = [n \in 0..Len(v) |-> IF n = 0 THEN 0 ELSE g[n - 1] + v[n]]
<1>1. Len(v) \in Nat /\ \A n \in 1..Len(v) : v[n] \in Nat
  OBVIOUS
<1>2. Sum(s)
  BY <1>1
<1>3. ASSUME NEW g, Sum(g) PROVE g[Len(v)] = s[Len(v)]
  <2> DEFINE Apart == {n \in 0..Len(v) : g[n] # s[n]}
  <2>1. ASSUME Apart # {} PROVE FALSE
    <3>0. Apart \in SUBSET Nat BY <1>1
    <3>1. PICK m \in Apart : \A k \in Apart : m <= k
      BY <2>1, <3>0, LeastOf
    <3>2. g[0] = 0 BY <1>3, <1>1
    <3>3. m # 0 BY <3>1, <3>2
    <3>4. m - 1 \in 0..Len(v) /\ m - 1 \notin Apart
      BY <1>1, <3>1, <3>3
    <3>5. g[m] = g[m-1] + v[m]
      BY <1>3, <3>1, <3>3
    <3>6. s[m] = s[m-1] + v[m]
      BY <3>1, <3>3, <1>1
    <3>. QED BY <3>1, <3>4, <3>5, <3>6
  <2>. QED BY <2>1, <1>1
<1>4. SumOf(v) = (CHOOSE g : Sum(g))[Len(v)]
  BY DEF SumOf
<1>5. Sum(CHOOSE g : Sum(g))
  <2> HIDE DEF Sum
  <2>. QED BY <1>2
<1>. QED
  BY <1>3, <1>4, <1>5

LEMMA SumNat ==
  ASSUME NEW v \in Seq(Nat)
  PROVE  SumOf(v) \in Nat
<1>1. PICK s \in [0..Len(v) -> Nat] : s[0] = 0 /\ \A n \in 1..Len(v) : s[n] = s[n - 1] + v[n]
  BY SumsExist
<1>2. Len(v) \in 0..Len(v)
  OBVIOUS
<1>. QED
  BY <1>1, <1>2, SumIs

LEMMA SumAppend ==
  ASSUME NEW v \in Seq(Nat), NEW x \in Nat
  PROVE  SumOf(Append(v, x)) = SumOf(v) + x
<1> DEFINE w == Append(v, x)
           n == Len(v)
<1>1. PICK s \in [0..n -> Nat] : s[0] = 0 /\ \A k \in 1..n : s[k] = s[k - 1] + v[k]
  BY SumsExist
<1>2. /\ n \in Nat /\ Len(w) = n + 1 /\ w \in Seq(Nat)
      /\ \A k \in 1..n : w[k] = v[k] /\ v[k] \in Nat
      /\ w[n + 1] = x
  OBVIOUS
<1> HIDE DEF w
<1> DEFINE t == [k \in 0..Len(w) |-> IF k = n + 1 THEN s[n] + x ELSE s[k]]
<1>3. t \in [0..Len(w) -> Int] /\ t[0] = 0
  <2>1. \A k \in 0..n : s[k] \in Nat
    BY <1>1
  <2>2. s[n] \in Nat /\ 0 # n + 1
    BY <1>2, <2>1
  <2>. QED
    BY <1>1, <1>2, <2>1, <2>2
<1>4. ASSUME NEW k \in 1..Len(w) PROVE t[k] = t[k - 1] + w[k]
  <2>1. k \in 0..Len(w) /\ k - 1 \in 0..Len(w) /\ k - 1 \in 0..n /\ k - 1 # n + 1
    BY <1>2
  <2>2. CASE k = n + 1
    BY <1>2, <2>1, <2>2
  <2>3. CASE k # n + 1
    BY <1>1, <1>2, <2>1, <2>3
  <2>. QED
    BY <2>2, <2>3
<1>5. SumOf(w) = t[Len(w)]
  <2> HIDE DEF t
  <2>. QED
    BY <1>2, <1>3, <1>4, SumIs
<1>6. SumOf(v) = s[n]
  BY <1>1, SumIs
<1>. QED
  BY <1>2, <1>5, <1>6 DEF w

LEMMA SumChange ==
  ASSUME NEW v \in Seq(Nat), NEW w \in Seq(Nat), Len(w) = Len(v), NEW i \in 1..Len(v),
         \A k \in 1..Len(v) : k # i => w[k] = v[k]
  PROVE  SumOf(w) = SumOf(v) - v[i] + w[i]
<1>1. PICK s \in [0..Len(v) -> Nat] : s[0] = 0 /\ \A k \in 1..Len(v) : s[k] = s[k - 1] + v[k]
  BY SumsExist
<1>2. Len(v) \in Nat /\ \A k \in 1..Len(v) : v[k] \in Nat /\ w[k] \in Nat
  OBVIOUS
<1> DEFINE t == [k \in 0..Len(w) |-> IF k < i THEN s[k] ELSE s[k] - v[i] + w[i]]
<1>3. t \in [0..Len(w) -> Int] /\ t[0] = 0
  <2>1. \A k \in 0..Len(v) : s[k] \in Nat
    BY <1>1
  <2>2. v[i] \in Nat /\ w[i] \in Nat /\ 0 < i
    BY <1>2
  <2>. QED
    BY <1>1, <1>2, <2>1, <2>2
<1>4. ASSUME NEW k \in 1..Len(w) PROVE t[k] = t[k - 1] + w[k]
  <2>1. k \in 1..Len(v) /\ k \in 0..Len(w) /\ k - 1 \in 0..Len(w) /\ k \in Nat /\ i \in Nat
    BY <1>2
  <2>2. v[i] \in Nat /\ w[i] \in Nat /\ v[k] \in Nat /\ s[k - 1] \in Nat
    BY <1>1, <1>2, <2>1
  <2>3. s[k] = s[k - 1] + v[k]
    BY <1>1, <2>1
  <2>4. /\ t[k] = IF k < i THEN s[k] ELSE s[k] - v[i] + w[i]
        /\ t[k - 1] = IF k - 1 < i THEN s[k - 1] ELSE s[k - 1] - v[i] + w[i]
    BY <2>1
  <2> HIDE DEF t
  <2>5. CASE k < i
    <3>1. k # i /\ k - 1 < i
      BY <2>1, <2>5
    <3>. QED
      BY <2>1, <2>3, <2>4, <2>5, <3>1
  <2>6. CASE k = i
    BY <2>1, <2>2, <2>3, <2>4, <2>6
  <2>7. CASE k > i
    <3>1. ~(k < i) /\ ~(k - 1 < i)
      BY <2>1, <2>7
    <3>2. w[k] = v[k]
      BY <2>1, <2>7
    <3>3. t[k] = s[k] - v[i] + w[i] /\ t[k - 1] = s[k - 1] - v[i] + w[i]
      BY <2>4, <3>1
    <3>4. (s[k - 1] + v[k]) - v[i] + w[i] = (s[k - 1] - v[i] + w[i]) + v[k]
      BY <2>2
    <3>. QED
      BY <2>3, <3>2, <3>3, <3>4
  <2>. QED
    BY <2>1, <2>5, <2>6, <2>7
<1>5. SumOf(w) = t[Len(w)]
  <2> HIDE DEF t
  <2>. QED
    BY <1>3, <1>4, SumIs
<1>6. SumOf(v) = s[Len(v)]
  <2>1. s \in [0..Len(v) -> Int]
    BY <1>1
  <2>. QED
    BY <1>1, <2>1, SumIs
<1>7. t[Len(w)] = s[Len(v)] - v[i] + w[i]
  BY <1>2
<1>. QED
  BY <1>5, <1>6, <1>7

LEMMA SumEmpty == SumOf(<<>>) = 0
<1> DEFINE s == [n \in 0..0 |-> 0]
<1>1. Len(<<>>) = 0 /\ <<>> \in Seq(Nat) /\ s \in [0..0 -> Int] /\ s[0] = 0
  OBVIOUS
<1> HIDE DEF s
<1>. QED
  BY <1>1, SumIs

-----------------------------------------------------------------------------
(* What is confirmed and what is pending in a list of installments. *)

LEMMA CountedSeq ==
  ASSUME NEW list \in Seq(Installment), NEW statuses
  PROVE  /\ Counted(list, statuses) \in Seq(Nat)
         /\ Len(Counted(list, statuses)) = Len(list)
         /\ DOMAIN list = 1..Len(list)
         /\ \A i \in 1..Len(list) :
              Counted(list, statuses)[i] = IF list[i].status \in statuses THEN list[i].amount ELSE 0
<1>1. DOMAIN list = 1..Len(list) /\ Len(list) \in Nat
  OBVIOUS
<1>2. \A i \in 1..Len(list) : list[i].amount \in Nat
  <2>1. \A i \in 1..Len(list) : list[i] \in Installment
    OBVIOUS
  <2>2. \A r \in Installment : r.amount \in Nat
    BY PaymentsAssumption DEF Installment, Money
  <2>. QED
    BY <2>1, <2>2
<1>. QED
  BY <1>1, <1>2 DEF Counted

LEMMA AmountNat ==
  ASSUME NEW list \in Seq(Installment), NEW statuses
  PROVE  AmountIn(list, statuses) \in Nat
  BY CountedSeq, SumNat DEF AmountIn

LEMMA AmountEmpty ==
  ASSUME NEW statuses
  PROVE  AmountIn(<<>>, statuses) = 0
<1>1. Counted(<<>>, statuses) = <<>>
  BY DEF Counted
<1>. QED
  BY <1>1, SumEmpty DEF AmountIn

LEMMA AmountAppend ==
  ASSUME NEW list \in Seq(Installment), NEW r \in Installment, NEW statuses
  PROVE  AmountIn(Append(list, r), statuses) =
           AmountIn(list, statuses) + (IF r.status \in statuses THEN r.amount ELSE 0)
<1> DEFINE x == IF r.status \in statuses THEN r.amount ELSE 0
<1>1. x \in Nat
  BY PaymentsAssumption DEF Installment, Money
<1>2. Counted(Append(list, r), statuses) = Append(Counted(list, statuses), x)
  <2>1. Append(list, r) \in Seq(Installment) /\ Len(Append(list, r)) = Len(list) + 1
    OBVIOUS
  <2>2. Append(Counted(list, statuses), x) \in Seq(Nat)
    BY <1>1, CountedSeq
  <2>3. Len(Append(Counted(list, statuses), x)) = Len(list) + 1
    BY CountedSeq
  <2>4. ASSUME NEW k \in 1..(Len(list) + 1)
        PROVE  Counted(Append(list, r), statuses)[k] = Append(Counted(list, statuses), x)[k]
    <3>1. Counted(Append(list, r), statuses)[k] =
            IF Append(list, r)[k].status \in statuses THEN Append(list, r)[k].amount ELSE 0
      BY <2>1, CountedSeq
    <3>2. CASE k = Len(list) + 1
      <4>1. Append(list, r)[k] = r
        BY <3>2
      <4>2. Append(Counted(list, statuses), x)[k] = x
        BY <3>2, CountedSeq
      <4>. QED
        BY <3>1, <4>1, <4>2
    <3>3. CASE k # Len(list) + 1
      <4>1. k \in 1..Len(list) /\ Append(list, r)[k] = list[k]
        BY <3>3
      <4>2. Append(Counted(list, statuses), x)[k] = Counted(list, statuses)[k]
        BY <4>1, CountedSeq
      <4>3. Counted(list, statuses)[k] = IF list[k].status \in statuses THEN list[k].amount ELSE 0
        BY <4>1, CountedSeq
      <4>. QED
        BY <3>1, <4>1, <4>2, <4>3
    <3>. QED
      BY <3>2, <3>3
  <2>5. Counted(Append(list, r), statuses) \in Seq(Nat) /\ Len(Counted(Append(list, r), statuses)) = Len(list) + 1
    BY <2>1, CountedSeq
  <2>. QED
    BY <2>2, <2>3, <2>4, <2>5, SeqEqual
<1>. QED
  BY <1>1, <1>2, CountedSeq, SumAppend DEF AmountIn

LEMMA AmountOne ==
  ASSUME NEW r \in Installment, NEW statuses
  PROVE  AmountIn(<<r>>, statuses) = IF r.status \in statuses THEN r.amount ELSE 0
<1>1. <<r>> = Append(<<>>, r) /\ <<>> \in Seq(Installment)
  OBVIOUS
<1>2. AmountIn(Append(<<>>, r), statuses) =
        AmountIn(<<>>, statuses) + (IF r.status \in statuses THEN r.amount ELSE 0)
  BY <1>1, AmountAppend
<1>3. AmountIn(<<r>>, statuses) = 0 + (IF r.status \in statuses THEN r.amount ELSE 0)
  BY <1>1, <1>2, AmountEmpty
<1>. QED
  BY <1>3, PaymentsAssumption DEF Installment, Money

Moved(list, i, s) == [list EXCEPT ![i].status = s]

\* A new status of one installment moves its amount from sum to sum.
LEMMA AmountMoves ==
  ASSUME NEW list \in Seq(Installment), NEW i \in DOMAIN list, NEW statuses,
         NEW s \in {"pending_payment", "receipt_uploaded", "confirmed", "rejected"}
  PROVE  /\ Moved(list, i, s) \in Seq(Installment)
         /\ Len(Moved(list, i, s)) = Len(list)
         /\ AmountIn(Moved(list, i, s), statuses) =
              AmountIn(list, statuses)
                - (IF list[i].status \in statuses THEN list[i].amount ELSE 0)
                + (IF s \in statuses THEN list[i].amount ELSE 0)
<1> DEFINE moved == Moved(list, i, s)
<1>1. /\ moved \in Seq(Installment) /\ Len(moved) = Len(list)
      /\ i \in 1..Len(list)
      /\ moved[i].status = s /\ moved[i].amount = list[i].amount
      /\ \A k \in 1..Len(list) : k # i => moved[k] = list[k]
  <2>1. i \in 1..Len(list) /\ list[i] \in Installment
    OBVIOUS
  <2>2. /\ [list[i] EXCEPT !.status = s] \in Installment
        /\ [list[i] EXCEPT !.status = s].status = s
        /\ [list[i] EXCEPT !.status = s].amount = list[i].amount
    BY <2>1 DEF Installment
  <2> DEFINE row == [list[i] EXCEPT !.status = s]
  <2>3. moved = [list EXCEPT ![i] = row]
    BY DEF Moved
  <2> HIDE DEF row, moved
  <2>4. moved \in Seq(Installment) /\ Len(moved) = Len(list) /\ moved[i] = row
    BY <2>1, <2>2, <2>3 DEF row
  <2>5. \A k \in 1..Len(list) : k # i => moved[k] = list[k]
    BY <2>1, <2>3
  <2>. QED
    BY <2>1, <2>2, <2>4, <2>5 DEF row
<1> HIDE DEF moved
<1>2. /\ Counted(list, statuses) \in Seq(Nat) /\ Counted(moved, statuses) \in Seq(Nat)
      /\ Len(Counted(list, statuses)) = Len(list) /\ Len(Counted(moved, statuses)) = Len(list)
      /\ Counted(list, statuses)[i] = IF list[i].status \in statuses THEN list[i].amount ELSE 0
      /\ Counted(moved, statuses)[i] = IF s \in statuses THEN list[i].amount ELSE 0
      /\ \A k \in 1..Len(list) : k # i => Counted(moved, statuses)[k] = Counted(list, statuses)[k]
  <2>1. \A k \in 1..Len(list) : Counted(moved, statuses)[k] =
          IF moved[k].status \in statuses THEN moved[k].amount ELSE 0
    BY <1>1, CountedSeq
  <2>2. \A k \in 1..Len(list) : Counted(list, statuses)[k] =
          IF list[k].status \in statuses THEN list[k].amount ELSE 0
    BY CountedSeq
  <2>3. /\ Counted(list, statuses) \in Seq(Nat) /\ Counted(moved, statuses) \in Seq(Nat)
        /\ Len(Counted(list, statuses)) = Len(list) /\ Len(Counted(moved, statuses)) = Len(list)
    BY <1>1, CountedSeq
  <2>. QED
    BY <1>1, <2>1, <2>2, <2>3
<1>3. SumOf(Counted(moved, statuses)) =
        SumOf(Counted(list, statuses)) - Counted(list, statuses)[i] + Counted(moved, statuses)[i]
  BY <1>1, <1>2, SumChange
<1>. QED
  BY <1>1, <1>2, <1>3 DEF AmountIn, moved

-----------------------------------------------------------------------------
(* The inductive invariant.  A plan exists only once its request has been   *)
(* executed, which for a normal request rules out the older endpoint that   *)
(* writes amounts without looking at the plan; and the amounts of a row are *)
(* whole, which is what lets a new plan start from them.                    *)

Executed == "in_progress" \in logged /\ sr.status \notin {"new", "provider_accepted"}

PlanKnown ==
    /\ plan = NoPlan => installments = <<>>
    /\ sr.status = "deleted" => plan = NoPlan
    /\ plan # NoPlan /\ sr.rtype = "normal" => Executed

AmountsWhole == amounts.remaining = amounts.total - amounts.received

MoneyInv == PayTypeOK /\ AmountsWhole /\ ConfirmedIsSum /\ PlanKnown /\ MirrorsPlan

PayInv == StageInv /\ MoneyInv

\* Each step takes a step of the request, or writes its status to the log once more.
Noted == UNCHANGED <<sr, offers, profiles, worker>> /\ LogStatus(sr.status)

LEMMA RequestMoves ==
  ASSUME [PayNext]_payVars
  PROVE  [Next]_vars \/ Noted
<1>1. ASSUME NEW p \in Providers, SubmitAmounts(p) \/ UpdateAmounts(p) \/ DropProvider(p)
      PROVE  Next
  BY <1>1 DEF SubmitAmounts, UpdateAmounts, DropProvider, Next, ProviderStep
<1>2. ASSUME NEW p \in Providers, NEW amount \in Money \ {0}, CreateInstallment(p, amount)
      PROVE  Noted
  BY <1>2 DEF CreateInstallment, Noted
<1>3. ASSUME NEW p \in Providers, NEW i \in DOMAIN installments, NEW a \in BOOLEAN, DecideReceipt(p, i, a)
      PROVE  Noted
  BY <1>3 DEF DecideReceipt, Noted
<1>4. ASSUME NEW i \in DOMAIN installments, UploadReceipt(i)
      PROVE  Noted
  BY <1>4 DEF UploadReceipt, Noted
<1>5. CASE ApproveWithPlan
  BY <1>5 DEF ApproveWithPlan, Next, RequestStep, WorkerStep
<1>6. CASE EndRound
  BY <1>6 DEF EndRound, Next, RequestStep, ProviderStep
<1>7. CASE DropRequest
  BY <1>7 DEF DropRequest, Next, RequestStep
<1>8. CASE OtherStep
  BY <1>8 DEF OtherStep, Next, RequestStep, WorkerStep, ProviderStep
<1>9. CASE UNCHANGED payVars
  BY <1>9 DEF payVars, vars
<1>. QED
  BY <1>1, <1>2, <1>3, <1>4, <1>5, <1>6, <1>7, <1>8, <1>9 DEF PayNext

LEMMA StageStays ==
  ASSUME StageInv, [Next]_vars \/ (Noted /\ sr.status # "deleted")
  PROVE  StageInv'
<1>1. CASE [Next]_vars
  BY <1>1, TypeKept, StageInductive DEF StageInv
<1>2. CASE Noted /\ sr.status # "deleted"
  <2>1. logged' = logged \cup {sr.status} /\ sr' = sr
    BY <1>2 DEF Noted, LogStatus
  <2>2. TypeOK'
    <3>1. sr.status \in RequestStatus
      BY <1>2 DEF StageInv, TypeOK, Request
    <3>. QED
      BY <1>2, <2>1, <3>1 DEF StageInv, TypeOK, Noted
  <2>3. ExecutionLogged' /\ AwaitingUndecided' /\ SubmissionComplete'
    BY <2>1 DEF StageInv, ExecutionLogged, AwaitingUndecided, SubmissionComplete
  <2>. QED
    BY <2>2, <2>3 DEF StageInv
<1>. QED
  BY <1>1, <1>2

\* What no step of the request undoes, unless the request goes.
LEMMA RowStays ==
  ASSUME StageInv, [Next]_vars
  PROVE  /\ sr'.rtype = sr.rtype
         /\ sr.status = "deleted" => sr'.status = "deleted"
         /\ sr'.status = "deleted" => sr.status = "deleted" \/ Vanishes
         /\ sr.status = "cancelled" /\ sr.rtype = "normal" => sr'.status \in {"cancelled", "deleted"}
         /\ Executed /\ sr.rtype = "normal" => Executed' \/ sr'.status = "deleted"
<1> DEFINE Goal ==
         /\ sr.status = "deleted" => sr'.status = "deleted"
         /\ sr'.status = "deleted" => sr.status = "deleted" \/ Vanishes
         /\ sr.status = "cancelled" /\ sr.rtype = "normal" => sr'.status \in {"cancelled", "deleted"}
         /\ Executed /\ sr.rtype = "normal" => Executed' \/ sr'.status = "deleted"
<1>1. TypeOK /\ Effect /\ sr \in Request
  BY StepEffect DEF StageInv, TypeOK
<1>2. sr'.rtype = sr.rtype
  BY <1>1, TypeConstant
<1> USE DEF Executed
<1>3. CASE Untouched
  BY <1>3 DEF Untouched, SameStage
<1>4. ASSUME NEW p \in Providers, Accepts(p) PROVE Goal
  BY <1>1, <1>4, AcceptedType DEF Accepts
<1>5. ASSUME NEW p \in Providers, Submits(p) PROVE Goal
  BY <1>5 DEF Submits, SameStage, PreExecution
<1>6. ASSUME NEW p \in Providers, AcceptOffer(p) PROVE Goal
  BY <1>1, <1>6 DEF AcceptOffer, Request
<1>7. ASSUME NEW p \in Providers, DeleteProviderAccount(p) PROVE Goal
  BY <1>1, <1>7 DEF DeleteProviderAccount, Request
<1>8. CASE Approves
  BY <1>1, <1>8 DEF Approves, ApproveInputs, LogStatus, Request
<1>9. CASE RejectInputs
  BY <1>1, <1>9 DEF RejectInputs, ReturnStatus, ProgressStage, LogStatus, Request
<1>10. CASE StaffStart
  BY <1>1, <1>10 DEF StaffStart, LogStatus, Request, PreExecution
<1>11. CASE Finishes
  BY <1>1, <1>11 DEF Finishes, SameStage, Request
<1>12. CASE Cancels
  BY <1>1, <1>2, <1>12, CancelledType DEF Cancels, SameStage, PreExecution
<1>13. CASE Relists
  BY <1>1, <1>2, <1>13, RelistType DEF Relists, RelistToPool, BeforeExecution, PoolTypes, PreExecution
<1>14. CASE Reopens
  BY <1>1, <1>2, <1>14 DEF Reopens, Request, PoolTypes
<1>15. CASE Vanishes
  <2>1. sr'.status = "deleted"
    BY <1>1, <1>15, ClearedRow DEF Vanishes, RowDeleted
  <2>. QED
    BY <1>2, <1>15, <2>1 DEF Vanishes
<1>. QED
  BY <1>1, <1>2, <1>3, <1>4, <1>5, <1>6, <1>7, <1>8, <1>9, <1>10, <1>11, <1>12,
     <1>13, <1>14, <1>15 DEF Effect

-----------------------------------------------------------------------------
(* What the helpers of payments.py return. *)

Capped(pl, list) == pl.confirmed = IF Confirmed(list) > pl.total THEN pl.total ELSE Confirmed(list)

RowAmounts == [total : Money, received : Money, remaining : Money]

LEMMA NoPlanApart == NoPlan \notin Plan /\ NoPlan.total = 0 /\ NoPlan.provider = NoProvider
  BY DEF NoPlan, Plan

LEMMA AmountsType ==
  ASSUME NEW t \in Money, NEW r \in 0..t
  PROVE  /\ Amounts(t, r) \in RowAmounts
         /\ Amounts(t, r).total = t /\ Amounts(t, r).received = r
         /\ Amounts(t, r).remaining = t - r
  BY PaymentsAssumption DEF Amounts, RowAmounts, Money

LEMMA RecalculatedSound ==
  ASSUME NEW pl \in Plan, NEW list \in Seq(Installment)
  PROVE  /\ Recalculated(pl, list) \in Plan
         /\ Recalculated(pl, list).total = pl.total
         /\ Recalculated(pl, list).provider = pl.provider
         /\ Recalculated(pl, list).remaining = pl.total - Recalculated(pl, list).confirmed
         /\ Capped(Recalculated(pl, list), list)
<1>1. Confirmed(list) \in Nat
  BY AmountNat DEF Confirmed
<1>2. pl.total \in Money /\ pl.total \in Nat
  BY PaymentsAssumption DEF Plan, Money
<1> DEFINE c == IF Confirmed(list) > pl.total THEN pl.total ELSE Confirmed(list)
<1>3. c \in Money /\ pl.total - c \in Money
  BY <1>1, <1>2, PaymentsAssumption DEF Money
<1>4. Recalculated(pl, list) = [pl EXCEPT !.confirmed = c, !.remaining = pl.total - c]
  BY DEF Recalculated
<1> HIDE DEF c
<1>5. /\ Recalculated(pl, list) \in Plan
      /\ Recalculated(pl, list).total = pl.total
      /\ Recalculated(pl, list).provider = pl.provider
      /\ Recalculated(pl, list).confirmed = c
      /\ Recalculated(pl, list).remaining = pl.total - c
  BY <1>3, <1>4 DEF Plan
<1>. QED
  BY <1>5 DEF Capped, c

LEMMA MirrorType ==
  ASSUME NEW pl \in Plan, NEW list \in Seq(Installment), Capped(pl, list)
  PROVE  /\ Mirror(pl) \in RowAmounts
         /\ Mirror(pl).total = pl.total /\ Mirror(pl).received = pl.confirmed
         /\ Mirror(pl).remaining = pl.total - pl.confirmed
<1>1. Confirmed(list) \in Nat
  BY AmountNat DEF Confirmed
<1>2. pl.total \in Money /\ pl.total \in Nat /\ pl.confirmed \in Nat
  BY PaymentsAssumption DEF Plan, Money
<1>3. pl.confirmed \in 0..pl.total
  BY <1>1, <1>2 DEF Capped
<1>. QED
  BY <1>2, <1>3, AmountsType DEF Mirror

LEMMA EnsuredSound ==
  ASSUME TypeOK, MoneyInv, NEW banked \in BOOLEAN, Ensures(banked)
  PROVE  /\ EnsuredInstallments \in Seq(Installment)
         /\ Len(EnsuredInstallments) <= MaxInstallments
         /\ EnsuredPlan \in Plan
         /\ EnsuredPlan.total = amounts.total
         /\ EnsuredPlan.remaining = EnsuredPlan.total - EnsuredPlan.confirmed
         /\ Capped(EnsuredPlan, EnsuredInstallments)
         /\ plan = NoPlan => amounts = Mirror(EnsuredPlan)
<1>1. /\ amounts \in RowAmounts /\ amounts.total \in Money \ {0}
      /\ amounts.total \in Nat /\ amounts.received \in Nat /\ amounts.remaining \in Nat
      /\ amounts.received \in Money
      /\ sr.provider \in Providers
  BY PaymentsAssumption DEF MoneyInv, PayTypeOK, RowAmounts, Money, Ensures, TypeOK, Request
<1>2. installments \in Seq(Installment) /\ Len(installments) <= MaxInstallments
      /\ plan \in Plan \cup {NoPlan}
  BY DEF MoneyInv, PayTypeOK
<1> DEFINE first == [amount |-> amounts.received, status |-> "confirmed"]
<1>3. amounts.received > 0 => first \in Installment
  BY <1>1 DEF Installment
<1>4. EnsuredInstallments \in Seq(Installment) /\ Len(EnsuredInstallments) <= MaxInstallments
  <2>1. CASE plan # NoPlan
    BY <1>2, <2>1 DEF EnsuredInstallments
  <2>2. CASE plan = NoPlan /\ amounts.received = 0
    <3>1. EnsuredInstallments = <<>>
      BY <2>2 DEF EnsuredInstallments
    <3>. QED
      BY <3>1, PaymentsAssumption
  <2>3. CASE plan = NoPlan /\ amounts.received > 0
    <3>1. EnsuredInstallments = <<first>>
      BY <1>1, <2>3 DEF EnsuredInstallments
    <3> HIDE DEF first
    <3>. QED
      BY <1>3, <2>3, <3>1, PaymentsAssumption
  <2>. QED
    BY <1>1, <2>1, <2>2, <2>3
<1> DEFINE old == IF plan = NoPlan THEN [plan EXCEPT !.bank = sr.provider] ELSE plan
           base == [old EXCEPT !.provider = sr.provider, !.total = amounts.total]
<1>5. base \in Plan /\ base.total = amounts.total
  <2>1. CASE plan = NoPlan
    <3>1. 0 \in Money
      BY PaymentsAssumption DEF Money
    <3>. QED
      BY <1>1, <2>1, <3>1 DEF Plan, NoPlan
  <2>2. CASE plan # NoPlan
    BY <1>1, <1>2, <2>2 DEF Plan
  <2>. QED
    BY <2>1, <2>2
<1>6. EnsuredPlan = Recalculated(base, EnsuredInstallments)
  BY DEF EnsuredPlan
<1> HIDE DEF base
<1>7. /\ EnsuredPlan \in Plan
      /\ EnsuredPlan.total = amounts.total
      /\ EnsuredPlan.remaining = EnsuredPlan.total - EnsuredPlan.confirmed
      /\ Capped(EnsuredPlan, EnsuredInstallments)
  BY <1>4, <1>5, <1>6, RecalculatedSound
<1>8. ASSUME plan = NoPlan PROVE amounts = Mirror(EnsuredPlan)
  <2>1. Confirmed(EnsuredInstallments) = amounts.received
    <3>1. CASE amounts.received = 0
      BY <1>8, <3>1, AmountEmpty DEF EnsuredInstallments, Confirmed
    <3>2. CASE amounts.received > 0
      <4>1. EnsuredInstallments = <<first>>
        BY <1>1, <1>8, <3>2 DEF EnsuredInstallments
      <4>. QED
        BY <1>3, <3>2, <4>1, AmountOne DEF Confirmed
    <3>. QED
      BY <1>1, <3>1, <3>2
  <2>2. amounts.received <= amounts.total
    BY <1>1 DEF MoneyInv, AmountsWhole
  <2>3. EnsuredPlan.confirmed = amounts.received
    BY <1>1, <1>7, <2>1, <2>2 DEF Capped
  <2>4. amounts = [total |-> amounts.total, received |-> amounts.received, remaining |-> amounts.remaining]
    BY <1>1 DEF RowAmounts
  <2>. QED
    BY <1>1, <1>7, <2>3, <2>4 DEF Mirror, Amounts, MoneyInv, AmountsWhole
<1>. QED
  BY <1>4, <1>7, <1>8

-----------------------------------------------------------------------------
(* The invariant, action by action. *)

\* What a step of the request leaves of the facts about the plan.
RowFacts ==
    /\ sr'.rtype = sr.rtype
    /\ plan # NoPlan /\ sr.rtype = "normal" => Executed'
    /\ sr.rtype = "normal" /\ sr.status = "cancelled" => sr'.status = "cancelled"

LEMMA RowFactsKept ==
  ASSUME PayInv, [Next]_vars, sr'.status # "deleted"
  PROVE  RowFacts
  BY RowStays DEF PayInv, MoneyInv, PlanKnown, RowFacts

\* What is left to show of a step that ends with a plan
LEMMA SoundPlan ==
  ASSUME RowFacts, sr'.status # "deleted", sr'.rtype = "normal" => Executed',
         plan' \in Plan, installments' \in Seq(Installment),
         Len(installments') <= MaxInstallments, Capped(plan', installments'),
         amounts' = Mirror(plan')
  PROVE  MoneyInv'
<1>1. /\ amounts' \in RowAmounts
      /\ amounts'.remaining = amounts'.total - amounts'.received
  BY MirrorType
<1>. QED
  BY <1>1, NoPlanApart
     DEF MoneyInv, PayTypeOK, AmountsWhole, ConfirmedIsSum, PlanKnown, MirrorsPlan, RowAmounts, Capped

\* A revised total leaves the plan whole, and the row its mirror.
LEMMA RevisedSound ==
  ASSUME PayInv, plan # NoPlan, NEW t \in Money, RevisePlan(t)
  PROVE  /\ plan' \in Plan /\ Capped(plan', installments) /\ amounts' = Mirror(plan')
         /\ plan'.total = t
<1>1. plan \in Plan /\ installments \in Seq(Installment)
  BY DEF PayInv, MoneyInv, PayTypeOK
<1>2. [plan EXCEPT !.total = t] \in Plan /\ [plan EXCEPT !.total = t].total = t
  BY <1>1, PaymentsAssumption DEF RevisePlan, Plan, Money
<1>. QED
  BY <1>1, <1>2, RecalculatedSound DEF RevisePlan

LEMMA SubmitSound ==
  ASSUME PayInv, NEW p \in Providers, SubmitAmounts(p)
  PROVE  MoneyInv'
<1>1. \E t \in Money : \E r \in 0..t : amounts' = Amounts(t, r)
  BY DEF SubmitAmounts
<1>2. amounts' \in RowAmounts /\ amounts'.remaining = amounts'.total - amounts'.received
  BY <1>1, AmountsType
<1>3. sr'.status = "awaiting_client"
  BY DEF SubmitAmounts, SubmitDetails, PayInv, StageInv, TypeOK, Request
<1>4. RowFacts
  <2>1. Next
    BY DEF SubmitAmounts, Next, ProviderStep
  <2>. QED
    BY <1>3, <2>1, RowFactsKept
<1>5. sr.status \in {"new", "provider_accepted"}
  BY DEF SubmitAmounts, SubmitDetails
<1>6. sr.rtype = "normal" => plan = NoPlan
  BY <1>5 DEF PayInv, MoneyInv, PlanKnown, Executed
<1>. QED
  BY <1>2, <1>3, <1>4, <1>6
     DEF SubmitAmounts, PayInv, MoneyInv, PayTypeOK, AmountsWhole, ConfirmedIsSum, PlanKnown,
         MirrorsPlan, RowAmounts, RowFacts

LEMMA UpdateSound ==
  ASSUME PayInv, NEW p \in Providers, UpdateAmounts(p)
  PROVE  MoneyInv'
<1>1. PICK required \in SUBSET Responses, given \in BOOLEAN :
        /\ ProgressUpdate(p, required, given)
        /\ \/ /\ given /\ plan = NoPlan
              /\ \E t \in Money : \E r \in 0..t : amounts' = Amounts(t, r)
              /\ UNCHANGED plan
           \/ /\ given /\ plan # NoPlan
              /\ \E t \in Money : RevisePlan(t)
           \/ /\ ~given
              /\ amounts' = IF plan = NoPlan THEN amounts ELSE Mirror(plan)
              /\ UNCHANGED plan
        /\ UNCHANGED installments
  BY DEF UpdateAmounts
<1>2. sr'.status = "awaiting_client"
  BY <1>1 DEF ProgressUpdate, PayInv, StageInv, TypeOK, Request
<1>3. RowFacts
  <2>1. Next
    BY <1>1 DEF Next, ProviderStep
  <2>. QED
    BY <1>2, <2>1, RowFactsKept
<1>4. CASE plan = NoPlan
  <2>1. plan' = NoPlan
    BY <1>1, <1>4
  <2>2. amounts' \in RowAmounts /\ amounts'.remaining = amounts'.total - amounts'.received
    <3>1. CASE \E t \in Money : \E r \in 0..t : amounts' = Amounts(t, r)
      BY <3>1, AmountsType
    <3>2. CASE amounts' = amounts
      BY <3>2 DEF PayInv, MoneyInv, PayTypeOK, RowAmounts, AmountsWhole
    <3>. QED
      BY <1>1, <1>4, <3>1, <3>2
  <2>3. installments' = installments
    BY <1>1
  <2>. QED
    BY <1>4, <2>1, <2>2, <2>3
       DEF PayInv, MoneyInv, PayTypeOK, AmountsWhole, ConfirmedIsSum, PlanKnown, MirrorsPlan, RowAmounts
<1>5. CASE plan # NoPlan
  <2>1. plan \in Plan /\ installments \in Seq(Installment) /\ Len(installments) <= MaxInstallments
        /\ Capped(plan, installments)
    BY <1>5 DEF PayInv, MoneyInv, PayTypeOK, ConfirmedIsSum, Capped
  <2>2. plan' \in Plan /\ Capped(plan', installments) /\ amounts' = Mirror(plan')
    <3>1. ASSUME NEW t \in Money, RevisePlan(t)
          PROVE  plan' \in Plan /\ Capped(plan', installments) /\ amounts' = Mirror(plan')
      BY <1>5, <3>1, RevisedSound
    <3>2. CASE amounts' = Mirror(plan) /\ UNCHANGED plan
      BY <2>1, <3>2
    <3>. QED
      BY <1>1, <1>5, <3>1, <3>2
  <2>3. sr'.rtype = "normal" => Executed'
    BY <1>3, <1>5 DEF RowFacts
  <2>. QED
    BY <1>1, <1>2, <1>3, <2>1, <2>2, <2>3, SoundPlan
<1>. QED
  BY <1>4, <1>5

LEMMA DropProviderSound ==
  ASSUME PayInv, NEW p \in Providers, DropProvider(p)
  PROVE  MoneyInv'
<1>1. sr \in Request
  BY DEF PayInv, StageInv, TypeOK
<1>2. sr'.status = sr.status
  BY <1>1 DEF DropProvider, DeleteProviderAccount, Request
<1>3. sr'.status # "deleted" => RowFacts
  <2>1. Next
    BY DEF DropProvider, Next, ProviderStep
  <2>. QED
    BY <2>1, RowFactsKept
<1>4. CASE plan' = NoPlan /\ installments' = <<>> /\ amounts' = amounts
  <2>1. <<>> \in Seq(Installment) /\ Len(<<>>) <= MaxInstallments
    BY PaymentsAssumption
  <2>. QED
    BY <1>4, <2>1
       DEF PayInv, MoneyInv, PayTypeOK, AmountsWhole, ConfirmedIsSum, PlanKnown, MirrorsPlan
<1>5. CASE UNCHANGED <<plan, installments, amounts>>
  BY <1>2, <1>3, <1>5
     DEF PayInv, MoneyInv, PayTypeOK, AmountsWhole, ConfirmedIsSum, PlanKnown, MirrorsPlan, RowFacts
<1>. QED
  BY <1>4, <1>5 DEF DropProvider

LEMMA DropRequestSound ==
  ASSUME PayInv, DropRequest
  PROVE  MoneyInv'
<1>1. <<>> \in Seq(Installment) /\ Len(<<>>) <= MaxInstallments
  BY PaymentsAssumption
<1>2. 0 \in Money /\ 0 \in 0..0
  BY PaymentsAssumption DEF Money
<1>3. NoAmounts \in RowAmounts /\ NoAmounts.remaining = NoAmounts.total - NoAmounts.received
  BY <1>2, AmountsType DEF NoAmounts
<1>. QED
  BY <1>1, <1>3
     DEF DropRequest, MoneyInv, PayTypeOK, AmountsWhole, ConfirmedIsSum, PlanKnown, MirrorsPlan, RowAmounts

\* A plan that is created or brought up to date, the row being in progress
LEMMA EnsureSound ==
  ASSUME PayInv, NEW banked \in BOOLEAN, EnsurePlan(banked),
         RowFacts, sr'.status # "deleted", Executed', sr.status # "cancelled"
  PROVE  MoneyInv'
<1>1. CASE Ensures(banked)
  <2>1. plan' = EnsuredPlan /\ installments' = EnsuredInstallments
        /\ amounts' = IF plan = NoPlan THEN amounts ELSE Mirror(EnsuredPlan)
    BY <1>1 DEF EnsurePlan
  <2>2. /\ EnsuredInstallments \in Seq(Installment)
        /\ Len(EnsuredInstallments) <= MaxInstallments
        /\ EnsuredPlan \in Plan /\ Capped(EnsuredPlan, EnsuredInstallments)
        /\ plan = NoPlan => amounts = Mirror(EnsuredPlan)
    BY <1>1, EnsuredSound DEF PayInv, StageInv
  <2>. QED
    BY <2>1, <2>2, SoundPlan
<1>2. CASE ~Ensures(banked)
  <2>1. UNCHANGED money
    BY <1>2 DEF EnsurePlan
  <2>. QED
    BY <2>1
       DEF money, PayInv, MoneyInv, PayTypeOK, AmountsWhole, ConfirmedIsSum, PlanKnown, MirrorsPlan, RowFacts
<1>. QED
  BY <1>1, <1>2

\* A step of the request that leaves its money alone
LEMMA MoneyStays ==
  ASSUME PayInv, [Next]_vars, UNCHANGED money, sr' = sr \/ sr'.status # "deleted"
  PROVE  MoneyInv'
<1>1. CASE sr'.status # "deleted"
  <2>1. RowFacts
    BY <1>1, RowFactsKept
  <2>. QED
    BY <1>1, <2>1
       DEF money, PayInv, MoneyInv, PayTypeOK, AmountsWhole, ConfirmedIsSum, PlanKnown, MirrorsPlan, RowFacts
<1>2. CASE sr'.status = "deleted"
  <2>1. plan' = NoPlan
    BY <1>2 DEF money, PayInv, MoneyInv, PlanKnown
  <2>. QED
    BY <2>1
       DEF money, PayInv, MoneyInv, PayTypeOK, AmountsWhole, ConfirmedIsSum, PlanKnown, MirrorsPlan
<1>. QED
  BY <1>1, <1>2

LEMMA ApproveSound ==
  ASSUME PayInv, ApproveWithPlan
  PROVE  MoneyInv'
<1>1. Next
  BY DEF ApproveWithPlan, Next, RequestStep, WorkerStep
<1>2. CASE ApproveInputs
  <2>1. /\ sr.status = "awaiting_client" /\ sr'.status = "in_progress" /\ sr' # sr
        /\ "in_progress" \in logged'
    BY <1>2 DEF ApproveInputs, LogStatus, PayInv, StageInv, TypeOK, Request
  <2>2. RowFacts
    BY <1>1, <2>1, RowFactsKept
  <2>3. PICK banked \in BOOLEAN : EnsurePlan(banked)
    BY <2>1 DEF ApproveWithPlan
  <2>4. Executed'
    BY <2>1 DEF Executed
  <2>. QED
    BY <2>1, <2>2, <2>3, <2>4, EnsureSound
<1>3. CASE ~ApproveInputs
  <2>1. sr' = sr
    BY <1>3 DEF ApproveWithPlan, PageApprove, DecisionApply
  <2>2. UNCHANGED money
    BY <2>1 DEF ApproveWithPlan
  <2>. QED
    BY <1>1, <2>1, <2>2, MoneyStays
<1>. QED
  BY <1>2, <1>3

LEMMA EndRoundSound ==
  ASSUME PayInv, EndRound
  PROVE  MoneyInv'
<1>1. Next
  BY DEF EndRound, Next, RequestStep, ProviderStep
<1>2. TypeOK
  BY DEF PayInv, StageInv
<1>3. sr'.status # "deleted" /\ (sr.rtype = "normal" => sr'.status = "cancelled")
  <2>1. CASE RelistToPool
    BY <1>2, <2>1, RelistType DEF RelistToPool, PoolTypes
  <2>2. CASE sr' = Cancelled
    BY <1>2, <2>2, CancelledType
  <2>3. ASSUME NEW p \in Providers, ProviderCancel(p)
        PROVE  sr'.status = "cancelled"
    BY <1>2, <2>3 DEF ProviderCancel, TypeOK, Request
  <2>. QED
    BY <2>1, <2>2, <2>3 DEF EndRound, ProviderReject, EngagedCancel, ClientCancel, Relist
<1>4. RowFacts
  BY <1>1, <1>3, RowFactsKept
<1>5. amounts' \in RowAmounts /\ amounts'.remaining = amounts'.total - amounts'.received
  <2>1. 0 \in Money /\ 0 \in 0..0
    BY PaymentsAssumption DEF Money
  <2>2. NoAmounts \in RowAmounts /\ NoAmounts.remaining = NoAmounts.total - NoAmounts.received
    BY <2>1, AmountsType DEF NoAmounts
  <2>. QED
    BY <2>2 DEF EndRound, PayInv, MoneyInv, PayTypeOK, AmountsWhole, RowAmounts
<1>. QED
  BY <1>3, <1>4, <1>5
     DEF EndRound, PayInv, MoneyInv, PayTypeOK, AmountsWhole, ConfirmedIsSum, PlanKnown,
         MirrorsPlan, RowFacts, RowAmounts

LEMMA OtherSound ==
  ASSUME PayInv, OtherStep
  PROVE  MoneyInv'
<1>1. Next
  BY DEF OtherStep, Next, RequestStep, WorkerStep, ProviderStep
<1>2. TypeOK /\ sr \in Request
  BY DEF PayInv, StageInv, TypeOK
<1>3. sr' = sr \/ sr'.status # "deleted"
  <2>1. ASSUME NEW p \in Providers,
               UrgentAccept(p) \/ AssignedAccept(p) \/ StaffAccept(p) \/ Complete(p) \/ AcceptOffer(p)
        PROVE  sr'.status # "deleted"
    BY <1>2, <2>1 DEF UrgentAccept, AssignedAccept, StaffAccept, Accepted, Complete, AcceptOffer, Request
  <2>2. ASSUME RejectInputs \/ StaffStart \/ StaffComplete
        PROVE  sr'.status # "deleted"
    BY <1>2, <2>2 DEF RejectInputs, ReturnStatus, StaffStart, StaffComplete, Request
  <2>3. ASSUME NEW w \in Workers, LegacyAcceptUpdate(w) \/ Reopen(w)
        PROVE  sr' = sr \/ sr'.status # "deleted"
    BY <1>2, <2>3 DEF LegacyAcceptUpdate, Accepted, Reopen, Request
  <2>4. ASSUME NEW w \in Workers, NEW p \in Providers, LegacyAcceptRead(w, p) \/ CreateOfferCheck(w, p)
        PROVE  sr' = sr
    BY <2>4 DEF LegacyAcceptRead, CreateOfferCheck
  <2>5. ASSUME NEW w \in Workers, NEW answer \in SUBSET Responses, DecisionCheck(w, answer)
        PROVE  sr' = sr
    BY <2>5 DEF DecisionCheck
  <2>6. ASSUME NEW w \in Workers,
               \/ LegacyAcceptLog(w) \/ CreateOfferInsert(w) \/ EditCheck(w) \/ EditSave(w)
               \/ Redispatch(w) \/ WorkerLost(w)
        PROVE  sr' = sr
    BY <2>6 DEF LegacyAcceptLog, CreateOfferInsert, EditCheck, EditSave, Redispatch, WorkerLost
  <2>. QED
    BY <2>1, <2>2, <2>3, <2>4, <2>5, <2>6 DEF OtherStep
<1>. QED
  BY <1>1, <1>3, MoneyStays DEF OtherStep

\* The row does not move while an installment is added, paid or decided.
LEMMA NotedFacts ==
  ASSUME PayInv, Noted
  PROVE  sr' = sr /\ logged' = logged \cup {sr.status} /\ (Executed => Executed')
  BY DEF Noted, LogStatus, Executed

LEMMA CreateSound ==
  ASSUME PayInv, NEW p \in Providers, NEW amount \in Money \ {0}, CreateInstallment(p, amount)
  PROVE  MoneyInv'
<1>1. /\ sr.status = "in_progress" /\ sr' = sr /\ Executed /\ Executed'
  BY NotedFacts
     DEF CreateInstallment, Noted, PayInv, StageInv, ExecutionLogged, Executed, LogStatus
<1>2. /\ EnsuredInstallments \in Seq(Installment)
      /\ Len(EnsuredInstallments) < MaxInstallments
      /\ EnsuredPlan \in Plan /\ Capped(EnsuredPlan, EnsuredInstallments)
      /\ plan = NoPlan => amounts = Mirror(EnsuredPlan)
  BY EnsuredSound DEF CreateInstallment, PayInv, StageInv
<1> DEFINE asked == [amount |-> amount, status |-> "pending_payment"]
<1>3. asked \in Installment /\ asked.status = "pending_payment"
  BY DEF Installment
<1>4. installments' = Append(EnsuredInstallments, asked)
  BY DEF CreateInstallment
<1> HIDE DEF asked
<1>5. /\ installments' \in Seq(Installment)
      /\ Len(installments') = Len(EnsuredInstallments) + 1
  BY <1>2, <1>3, <1>4
<1>6. Confirmed(installments') = Confirmed(EnsuredInstallments)
  <2>1. Confirmed(EnsuredInstallments) \in Nat
    BY <1>2, AmountNat DEF Confirmed
  <2>2. Confirmed(installments') =
          Confirmed(EnsuredInstallments) + (IF asked.status \in {"confirmed"} THEN asked.amount ELSE 0)
    BY <1>2, <1>3, <1>4, AmountAppend DEF Confirmed
  <2>. QED
    BY <1>3, <2>1, <2>2
<1>7. plan' = EnsuredPlan /\ amounts' = Mirror(EnsuredPlan)
  BY <1>2 DEF CreateInstallment
<1>8. Len(installments') <= MaxInstallments
  BY <1>2, <1>5, PaymentsAssumption
<1>9. Capped(plan', installments')
  BY <1>2, <1>6, <1>7 DEF Capped
<1>10. RowFacts /\ sr'.status # "deleted"
  BY <1>1 DEF RowFacts
<1>. QED
  BY <1>1, <1>2, <1>5, <1>7, <1>8, <1>9, <1>10, SoundPlan

\* A plan with an installment is a plan, and its row is there.
LEMMA InstallmentHeld ==
  ASSUME PayInv, NEW i \in DOMAIN installments
  PROVE  /\ plan # NoPlan /\ plan \in Plan /\ sr.status # "deleted"
         /\ installments \in Seq(Installment) /\ installments[i] \in Installment
         /\ Len(installments) <= MaxInstallments
         /\ Capped(plan, installments)
         /\ sr.rtype = "normal" => Executed
<1>1. installments # <<>>
  OBVIOUS
<1>2. plan # NoPlan /\ plan \in Plan /\ sr.status # "deleted" /\ (sr.rtype = "normal" => Executed)
  BY <1>1 DEF PayInv, MoneyInv, PayTypeOK, PlanKnown
<1>3. installments \in Seq(Installment) /\ Len(installments) <= MaxInstallments
  BY DEF PayInv, MoneyInv, PayTypeOK
<1>4. Capped(plan, installments)
  BY <1>2 DEF PayInv, MoneyInv, ConfirmedIsSum, Capped
<1>. QED
  BY <1>2, <1>3, <1>4

\* A new status of an installment that is not confirmed: what is confirmed grows
\* by its amount when that is the new status, and is the same otherwise.
LEMMA StatusMoves ==
  ASSUME PayInv, NEW i \in DOMAIN installments,
         NEW s \in {"receipt_uploaded", "confirmed", "rejected"},
         installments' = [installments EXCEPT ![i].status = s],
         installments[i].status # "confirmed"
  PROVE  /\ installments' \in Seq(Installment)
         /\ Len(installments') = Len(installments)
         /\ Confirmed(installments') =
              Confirmed(installments) + (IF s = "confirmed" THEN installments[i].amount ELSE 0)
<1>1. installments \in Seq(Installment) /\ installments[i].amount \in Nat
  <2>1. \A r \in Installment : r.amount \in Nat
    BY PaymentsAssumption DEF Installment, Money
  <2>. QED
    BY <2>1, InstallmentHeld
<1>2. Confirmed(installments) \in Nat
  BY <1>1, AmountNat DEF Confirmed
<1>3. /\ installments' \in Seq(Installment)
      /\ Len(installments') = Len(installments)
      /\ Confirmed(installments') =
           Confirmed(installments)
             - (IF installments[i].status \in {"confirmed"} THEN installments[i].amount ELSE 0)
             + (IF s \in {"confirmed"} THEN installments[i].amount ELSE 0)
  <2>1. installments' = Moved(installments, i, s)
    BY DEF Moved
  <2>2. s \in {"pending_payment", "receipt_uploaded", "confirmed", "rejected"}
    OBVIOUS
  <2>3. /\ Moved(installments, i, s) \in Seq(Installment)
        /\ Len(Moved(installments, i, s)) = Len(installments)
        /\ AmountIn(Moved(installments, i, s), {"confirmed"}) =
             AmountIn(installments, {"confirmed"})
               - (IF installments[i].status \in {"confirmed"} THEN installments[i].amount ELSE 0)
               + (IF s \in {"confirmed"} THEN installments[i].amount ELSE 0)
    BY <1>1, <2>2, AmountMoves
  <2>. QED
    BY <2>1, <2>3 DEF Confirmed
<1>. QED
  BY <1>1, <1>2, <1>3

LEMMA DecideSound ==
  ASSUME PayInv, NEW p \in Providers, NEW i \in DOMAIN installments, NEW approved \in BOOLEAN,
         DecideReceipt(p, i, approved)
  PROVE  MoneyInv'
<1> DEFINE s == IF approved THEN "confirmed" ELSE "rejected"
<1>1. /\ installments' = [installments EXCEPT ![i].status = s]
      /\ installments[i].status # "confirmed"
      /\ s \in {"receipt_uploaded", "confirmed", "rejected"}
  BY DEF DecideReceipt
<1>2. sr' = sr /\ RowFacts /\ sr'.status # "deleted" /\ (sr'.rtype = "normal" => Executed')
  BY InstallmentHeld, NotedFacts DEF DecideReceipt, Noted, RowFacts
<1>3. plan \in Plan /\ Len(installments) <= MaxInstallments /\ Capped(plan, installments)
  BY InstallmentHeld
<1>4. /\ installments' \in Seq(Installment)
      /\ Len(installments') = Len(installments)
      /\ Confirmed(installments') =
           Confirmed(installments) + (IF s = "confirmed" THEN installments[i].amount ELSE 0)
  BY <1>1, StatusMoves
<1>5. CASE approved
  <2>1. plan' = Recalculated(plan, installments') /\ amounts' = Mirror(plan')
    BY <1>5 DEF DecideReceipt
  <2>2. plan' \in Plan /\ Capped(plan', installments')
    BY <1>3, <1>4, <2>1, RecalculatedSound
  <2>. QED
    BY <1>2, <1>3, <1>4, <2>1, <2>2, SoundPlan
<1>6. CASE ~approved
  <2>1. plan' = plan /\ amounts' = amounts /\ Confirmed(installments') = Confirmed(installments)
    <3>1. Confirmed(installments) \in Nat
      BY InstallmentHeld, AmountNat DEF Confirmed
    <3>. QED
      BY <1>4, <1>6, <3>1 DEF DecideReceipt
  <2>. QED
    BY <1>2, <1>3, <1>4, <2>1
       DEF PayInv, MoneyInv, PayTypeOK, AmountsWhole, ConfirmedIsSum, PlanKnown, MirrorsPlan
<1>. QED
  BY <1>5, <1>6

LEMMA UploadSound ==
  ASSUME PayInv, NEW i \in DOMAIN installments, UploadReceipt(i)
  PROVE  MoneyInv'
<1>1. /\ installments' = [installments EXCEPT ![i].status = "receipt_uploaded"]
      /\ installments[i].status # "confirmed"
      /\ plan' = plan /\ amounts' = amounts
  BY DEF UploadReceipt
<1>2. sr' = sr /\ sr'.status # "deleted" /\ (sr'.rtype = "normal" => Executed')
  BY InstallmentHeld, NotedFacts DEF UploadReceipt, Noted
<1>3. Len(installments) <= MaxInstallments /\ Confirmed(installments) \in Nat /\ plan # NoPlan
  BY InstallmentHeld, AmountNat DEF Confirmed
<1>4. /\ installments' \in Seq(Installment)
      /\ Len(installments') = Len(installments)
      /\ Confirmed(installments') = Confirmed(installments)
  <2>1. /\ installments' \in Seq(Installment)
        /\ Len(installments') = Len(installments)
        /\ Confirmed(installments') = Confirmed(installments)
             + (IF "receipt_uploaded" = "confirmed" THEN installments[i].amount ELSE 0)
    BY <1>1, StatusMoves
  <2>. QED
    BY <1>3, <2>1
<1>. QED
  BY <1>1, <1>2, <1>3, <1>4
     DEF PayInv, MoneyInv, PayTypeOK, AmountsWhole, ConfirmedIsSum, PlanKnown, MirrorsPlan

-----------------------------------------------------------------------------

LEMMA PayInductive ==
  ASSUME PayInv, [PayNext]_payVars
  PROVE  PayInv'
<1>1. MoneyInv'
  <2>1. ASSUME NEW p \in Providers, SubmitAmounts(p) \/ UpdateAmounts(p) \/ DropProvider(p)
        PROVE  MoneyInv'
    BY <2>1, SubmitSound, UpdateSound, DropProviderSound
  <2>2. ASSUME NEW p \in Providers, NEW amount \in Money \ {0}, CreateInstallment(p, amount)
        PROVE  MoneyInv'
    BY <2>2, CreateSound
  <2>3. ASSUME NEW p \in Providers, NEW i \in DOMAIN installments, NEW a \in BOOLEAN, DecideReceipt(p, i, a)
        PROVE  MoneyInv'
    BY <2>3, DecideSound
  <2>4. ASSUME NEW i \in DOMAIN installments, UploadReceipt(i)
        PROVE  MoneyInv'
    BY <2>4, UploadSound
  <2>5. CASE ApproveWithPlan \/ EndRound \/ DropRequest \/ OtherStep
    BY <2>5, ApproveSound, EndRoundSound, DropRequestSound, OtherSound
  <2>6. CASE UNCHANGED payVars
    BY <2>6 DEF payVars, PayInv, MoneyInv, PayTypeOK, AmountsWhole, ConfirmedIsSum, PlanKnown,
                MirrorsPlan, Executed
  <2>. QED
    BY <2>1, <2>2, <2>3, <2>4, <2>5, <2>6 DEF PayNext
<1>2. StageInv'
  <2>1. ASSUME ~[Next]_vars PROVE sr.status # "deleted"
    <3>1. ASSUME NEW p \in Providers, NEW amount \in Money \ {0}, CreateInstallment(p, amount)
          PROVE  sr.status # "deleted"
      BY <3>1 DEF CreateInstallment
    <3>2. ASSUME NEW i \in DOMAIN installments PROVE sr.status # "deleted"
      BY <3>2, InstallmentHeld
    <3>3. ASSUME NEW p \in Providers, SubmitAmounts(p) \/ UpdateAmounts(p) \/ DropProvider(p)
          PROVE  Next
      BY <3>3 DEF SubmitAmounts, UpdateAmounts, DropProvider, Next, ProviderStep
    <3>4. CASE ApproveWithPlan \/ EndRound \/ DropRequest \/ OtherStep
      <4>1. Next
        BY <3>4 DEF ApproveWithPlan, EndRound, DropRequest, OtherStep, Next, RequestStep,
                    WorkerStep, ProviderStep
      <4>. QED
        BY <2>1, <4>1
    <3>5. CASE UNCHANGED payVars
      BY <2>1, <3>5 DEF payVars, vars
    <3>. QED
      BY <2>1, <3>1, <3>2, <3>3, <3>4, <3>5 DEF PayNext
  <2>. QED
    BY <2>1, RequestMoves, StageStays DEF PayInv
<1>. QED
  BY <1>1, <1>2 DEF PayInv

LEMMA PayInitial == PayInit => PayInv
<1> SUFFICES ASSUME PayInit PROVE PayInv
  OBVIOUS
<1>1. StageInv
  <2>1. Init /\ TypeOK
    BY InitType DEF PayInit
  <2>. QED
    BY <2>1
        DEF Init, NewRequest, StageInv, ExecutionLogged, AwaitingUndecided, SubmissionComplete
<1>2. 0 \in Money /\ 0 \in 0..0
  BY PaymentsAssumption DEF Money
<1>3. NoAmounts \in RowAmounts /\ NoAmounts.remaining = NoAmounts.total - NoAmounts.received
  BY <1>2, AmountsType DEF NoAmounts
<1>4. <<>> \in Seq(Installment) /\ Len(<<>>) <= MaxInstallments
  BY PaymentsAssumption
<1>. QED
  BY <1>1, <1>3, <1>4
     DEF PayInit, PayInv, MoneyInv, PayTypeOK, AmountsWhole, ConfirmedIsSum, PlanKnown,
         MirrorsPlan, RowAmounts

LEMMA PayInvariant == PaySpec => []PayInv
  BY PayInitial, PayInductive, PTL DEF PaySpec

\* The amounts, the plan and the installments keep their types: no amount is
\* ever negative or above the bound, whatever the order of the calls.
THEOREM PayTypeCorrect == PaySpec => []PayTypeOK
<1>1. PayInv => PayTypeOK
  BY DEF PayInv, MoneyInv
<1>. QED
  BY <1>1, PayInvariant, PTL

\* The confirmed amount of a plan is the capped sum of its confirmed
\* installments, for plans of any length.
THEOREM PlanAddsUp == PaySpec => []ConfirmedIsSum
<1>1. PayInv => ConfirmedIsSum
  BY DEF PayInv, MoneyInv
<1>. QED
  BY <1>1, PayInvariant, PTL

\* The row of a normal request shows the amounts of its plan.
THEOREM RowMirrors == PaySpec => []MirrorsPlan
<1>1. PayInv => MirrorsPlan
  BY DEF PayInv, MoneyInv
<1>. QED
  BY <1>1, PayInvariant, PTL

\* What the endpoints of the payments do is no step of the contract: they only
\* write a status to the log that is there already, or is none of execution.
LEMMA PayContractStep ==
  ASSUME PayInv, PayInv', [PayNext]_payVars
  PROVE  ContractStep
<1>1. CASE [Next]_vars
  BY <1>1, EffectImplements DEF PayInv, StageInv
<1>2. CASE Noted
  <2>1. sr' = sr /\ logged' = logged \cup {sr.status}
    BY <1>2 DEF Noted, LogStatus
  <2>2. "in_progress" \in logged' <=> "in_progress" \in logged
    BY <2>1 DEF PayInv, StageInv, ExecutionLogged
  <2>3. Phase' = Phase
    BY <2>1, <2>2 DEF Phase, ProgressStage
  <2>. QED
    BY <2>1, <2>3 DEF ContractStep, Contract!vars
<1>. QED
  BY <1>1, <1>2, RequestMoves

\* With its payments the request still implements the contract, which is what
\* dispatch is built on.
THEOREM PaymentsKeepContract == PaySpec => ImplementsContract
<1>1. PayInit => Contract!Init
  BY ContractStarts DEF PayInit
<1>2. PayInv /\ PayInv' /\ [PayNext]_payVars => [Contract!Next]_(Contract!vars)
  BY PayContractStep DEF ContractStep
<1>. QED
  BY <1>1, <1>2, PayInvariant, PTL DEF PaySpec, ImplementsContract, Contract!Spec

-----------------------------------------------------------------------------
(* What was confirmed stays. *)

LEMMA StandsStep ==
  ASSUME PayInv, [PayNext]_payVars, NEW i \in DOMAIN installments,
         installments[i].status = "confirmed"
  PROVE  plan' = NoPlan \/ installments'[i] = installments[i]
<1>1. plan # NoPlan /\ installments \in Seq(Installment)
  BY InstallmentHeld
<1>2. ASSUME NEW banked \in BOOLEAN, EnsurePlan(banked)
      PROVE  installments' = installments
  BY <1>1, <1>2 DEF EnsurePlan, EnsuredInstallments, money
<1>3. ASSUME NEW p \in Providers, SubmitAmounts(p) \/ UpdateAmounts(p) \/ DropProvider(p)
      PROVE  plan' = NoPlan \/ installments' = installments
  BY <1>3 DEF SubmitAmounts, UpdateAmounts, DropProvider
<1>4. ASSUME NEW p \in Providers, NEW amount \in Money \ {0}, CreateInstallment(p, amount)
      PROVE  installments'[i] = installments[i]
  <2>1. installments' = Append(installments, [amount |-> amount, status |-> "pending_payment"])
    BY <1>1, <1>4 DEF CreateInstallment, EnsuredInstallments
  <2>. QED
    BY <1>1, <2>1
<1>5. ASSUME NEW j \in DOMAIN installments,
             \/ UploadReceipt(j)
             \/ \E p \in Providers, a \in BOOLEAN : DecideReceipt(p, j, a)
      PROVE  installments'[i] = installments[i]
  <2>1. /\ j # i
        /\ \E s : installments' = [installments EXCEPT ![j].status = s]
    BY <1>5 DEF UploadReceipt, DecideReceipt
  <2>. QED
    BY <1>1, <2>1
<1>6. CASE ApproveWithPlan
  BY <1>2, <1>6 DEF ApproveWithPlan, money
<1>7. CASE EndRound \/ DropRequest \/ OtherStep \/ UNCHANGED payVars
  BY <1>7 DEF EndRound, DropRequest, OtherStep, money, payVars
<1>. QED
  BY <1>3, <1>4, <1>5, <1>6, <1>7 DEF PayNext

\* A confirmed payment stands until its plan goes with an account or with the
\* request, through updates, cancellations and reopenings.
THEOREM PaymentsStand == PaySpec => ConfirmedStands
<1>1. PayInv /\ [PayNext]_payVars =>
        [ \A i \in DOMAIN installments :
            installments[i].status = "confirmed" =>
                plan' = NoPlan \/ installments'[i] = installments[i] ]_payVars
  BY StandsStep
<1>. QED
  BY <1>1, PayInvariant, PTL DEF PaySpec, ConfirmedStands

-----------------------------------------------------------------------------
(* What is asked for and paid stays within the total of a normal request as *)
(* long as no receipt is rejected: a rejected one is no longer counted, and *)
(* its client may send it again after the rest was promised elsewhere.      *)

Outstanding(list) == Confirmed(list) + Pending(list)

NoneRejected == \A i \in DOMAIN installments : installments[i].status # "rejected"

Bounded == sr.rtype = "normal" => Committed

CommitInv == NoneRejected /\ Bounded

LEMMA OutstandingNat ==
  ASSUME NEW list \in Seq(Installment)
  PROVE  Confirmed(list) \in Nat /\ Pending(list) \in Nat
  BY AmountNat DEF Confirmed, Pending

\* Within the total, what the plan calls confirmed is the sum itself.
LEMMA ExactlyConfirmed ==
  ASSUME NEW pl \in Plan, NEW list \in Seq(Installment), Capped(pl, list),
         Outstanding(list) <= pl.total
  PROVE  pl.confirmed = Confirmed(list)
<1>1. pl.total \in Nat
  BY PaymentsAssumption DEF Plan, Money
<1>. QED
  BY <1>1, OutstandingNat DEF Capped, Outstanding

\* An ensured plan holds what it held, or the amount the row began with.
LEMMA EnsuredBounded ==
  ASSUME PayInv, CommitInv, NEW banked \in BOOLEAN, Ensures(banked), sr.status # "cancelled"
  PROVE  /\ \A i \in DOMAIN EnsuredInstallments : EnsuredInstallments[i].status # "rejected"
         /\ sr.rtype = "normal" => Outstanding(EnsuredInstallments) <= EnsuredPlan.total
<1>1. /\ EnsuredInstallments \in Seq(Installment)
      /\ EnsuredPlan \in Plan /\ EnsuredPlan.total = amounts.total
      /\ Capped(EnsuredPlan, EnsuredInstallments)
      /\ plan = NoPlan => amounts = Mirror(EnsuredPlan)
  BY EnsuredSound DEF PayInv, StageInv
<1>2. CASE plan # NoPlan
  <2>1. EnsuredInstallments = installments
    BY <1>2 DEF EnsuredInstallments
  <2>2. sr.rtype = "normal" => amounts.total = plan.total /\ Outstanding(installments) <= plan.total
    BY <1>2 DEF PayInv, MoneyInv, MirrorsPlan, Mirror, Amounts, CommitInv, Bounded, Committed, Outstanding
  <2>. QED
    BY <1>1, <2>1, <2>2 DEF CommitInv, NoneRejected
<1>3. CASE plan = NoPlan
  <2>1. /\ amounts.total \in Nat /\ amounts.received \in Nat /\ amounts.received \in Money
        /\ amounts.received <= amounts.total
    <3>1. amounts \in RowAmounts /\ amounts.remaining = amounts.total - amounts.received
      BY DEF PayInv, MoneyInv, PayTypeOK, AmountsWhole, RowAmounts
    <3>. QED
      BY <3>1, PaymentsAssumption DEF RowAmounts, Money
  <2>2. CASE amounts.received = 0
    <3>1. EnsuredInstallments = <<>>
      BY <1>3, <2>2 DEF EnsuredInstallments
    <3>2. Outstanding(EnsuredInstallments) = 0
      BY <3>1, AmountEmpty DEF Outstanding, Confirmed, Pending
    <3>. QED
      BY <1>1, <2>1, <3>1, <3>2
  <2>3. CASE amounts.received > 0
    <3> DEFINE first == [amount |-> amounts.received, status |-> "confirmed"]
    <3>1. EnsuredInstallments = <<first>> /\ first \in Installment
      BY <1>3, <2>1, <2>3 DEF EnsuredInstallments, Installment
    <3>2. first.status = "confirmed" /\ first.amount = amounts.received
      OBVIOUS
    <3> HIDE DEF first
    <3>3. Confirmed(<<first>>) = amounts.received
      BY <3>1, <3>2, AmountOne DEF Confirmed
    <3>4. Pending(<<first>>) = 0
      BY <3>1, <3>2, AmountOne DEF Pending
    <3>5. Outstanding(EnsuredInstallments) <= EnsuredPlan.total
      BY <1>1, <2>1, <3>1, <3>3, <3>4 DEF Outstanding
    <3>6. \A i \in DOMAIN EnsuredInstallments : EnsuredInstallments[i].status # "rejected"
      BY <3>1, <3>2
    <3>. QED
      BY <3>5, <3>6
  <2>. QED
    BY <2>1, <2>2, <2>3
<1>. QED
  BY <1>2, <1>3

\* A plan untouched but for the row's side of it stays within its total.
LEMMA PlanStaysBounded ==
  ASSUME PayInv, CommitInv, UNCHANGED <<plan, installments>>, sr'.rtype = sr.rtype
  PROVE  CommitInv'
  BY DEF CommitInv, NoneRejected, Bounded, Committed, Outstanding

LEMMA CreateBounded ==
  ASSUME PayInv, CommitInv, NEW p \in Providers, NEW amount \in Money \ {0},
         CreateInstallment(p, amount)
  PROVE  CommitInv'
<1>1. Ensures(TRUE) /\ sr.status # "cancelled" /\ sr' = sr
  BY DEF CreateInstallment
<1>2. /\ EnsuredInstallments \in Seq(Installment)
      /\ EnsuredPlan \in Plan /\ Capped(EnsuredPlan, EnsuredInstallments)
      /\ EnsuredPlan.remaining = EnsuredPlan.total - EnsuredPlan.confirmed
  BY <1>1, EnsuredSound DEF PayInv, StageInv
<1>3. /\ \A i \in DOMAIN EnsuredInstallments : EnsuredInstallments[i].status # "rejected"
      /\ sr.rtype = "normal" => Outstanding(EnsuredInstallments) <= EnsuredPlan.total
  BY <1>1, EnsuredBounded
<1> DEFINE asked == [amount |-> amount, status |-> "pending_payment"]
<1>4. asked \in Installment /\ asked.status = "pending_payment" /\ asked.amount = amount
  BY DEF Installment
<1>5. installments' = Append(EnsuredInstallments, asked) /\ plan' = EnsuredPlan
  BY DEF CreateInstallment
<1> HIDE DEF asked
<1>6. NoneRejected'
  BY <1>2, <1>3, <1>4, <1>5 DEF NoneRejected
<1>7. /\ Confirmed(EnsuredInstallments) \in Nat /\ Pending(EnsuredInstallments) \in Nat
      /\ amount \in Nat /\ EnsuredPlan.total \in Nat
  BY <1>2, OutstandingNat, PaymentsAssumption DEF Plan, Money
<1>8. Confirmed(installments') = Confirmed(EnsuredInstallments)
  <2>1. Confirmed(installments') =
          Confirmed(EnsuredInstallments) + (IF asked.status \in {"confirmed"} THEN asked.amount ELSE 0)
    BY <1>2, <1>4, <1>5, AmountAppend DEF Confirmed
  <2>. QED
    BY <1>4, <1>7, <2>1
<1>9. Pending(installments') = Pending(EnsuredInstallments) + amount
  <2>1. Pending(installments') = Pending(EnsuredInstallments)
          + (IF asked.status \in {"pending_payment", "receipt_uploaded"} THEN asked.amount ELSE 0)
    BY <1>2, <1>4, <1>5, AmountAppend DEF Pending
  <2>. QED
    BY <1>4, <2>1
<1>10. ASSUME sr.rtype = "normal" PROVE Committed'
  <2>1. EnsuredPlan.confirmed = Confirmed(EnsuredInstallments)
    BY <1>2, <1>3, <1>10, ExactlyConfirmed
  <2>2. amount <= EnsuredPlan.remaining - Pending(EnsuredInstallments)
    BY DEF CreateInstallment
  <2>3. Confirmed(EnsuredInstallments) + (Pending(EnsuredInstallments) + amount) <= EnsuredPlan.total
    BY <1>2, <1>7, <2>1, <2>2
  <2>. QED
    BY <1>5, <1>8, <1>9, <2>3 DEF Committed
<1>. QED
  BY <1>1, <1>6, <1>10 DEF CommitInv, Bounded

\* Sending a receipt, or confirming it, moves an amount within the sum.
LEMMA ReceiptBounded ==
  ASSUME PayInv, CommitInv, NEW i \in DOMAIN installments, NEW s \in {"receipt_uploaded", "confirmed"},
         installments[i].status \in {"pending_payment", "receipt_uploaded"},
         installments' = [installments EXCEPT ![i].status = s],
         sr' = sr, plan'.total = plan.total
  PROVE  CommitInv'
<1>1. installments \in Seq(Installment) /\ plan # NoPlan
  BY InstallmentHeld
<1>2. installments[i].amount \in Nat
  <2>1. \A r \in Installment : r.amount \in Nat
    BY PaymentsAssumption DEF Installment, Money
  <2>. QED
    BY <2>1, InstallmentHeld
<1>3. NoneRejected'
  BY <1>1 DEF CommitInv, NoneRejected
<1>4. installments' = Moved(installments, i, s)
  BY DEF Moved
<1>5. s \in {"pending_payment", "receipt_uploaded", "confirmed", "rejected"}
  OBVIOUS
<1>6. Confirmed(installments) \in Nat /\ Pending(installments) \in Nat
  BY <1>1, OutstandingNat
<1>7. /\ Confirmed(installments') = Confirmed(installments)
           - (IF installments[i].status \in {"confirmed"} THEN installments[i].amount ELSE 0)
           + (IF s \in {"confirmed"} THEN installments[i].amount ELSE 0)
      /\ Pending(installments') = Pending(installments)
           - (IF installments[i].status \in {"pending_payment", "receipt_uploaded"}
              THEN installments[i].amount ELSE 0)
           + (IF s \in {"pending_payment", "receipt_uploaded"} THEN installments[i].amount ELSE 0)
  <2>1. \A statuses : AmountIn(Moved(installments, i, s), statuses) =
          AmountIn(installments, statuses)
            - (IF installments[i].status \in statuses THEN installments[i].amount ELSE 0)
            + (IF s \in statuses THEN installments[i].amount ELSE 0)
    BY <1>1, <1>5, AmountMoves
  <2>. QED
    BY <1>4, <2>1 DEF Confirmed, Pending
<1>8. Confirmed(installments') + Pending(installments') = Confirmed(installments) + Pending(installments)
  <2>1. CASE s = "confirmed"
    BY <1>2, <1>6, <1>7, <2>1
  <2>2. CASE s = "receipt_uploaded"
    BY <1>2, <1>6, <1>7, <2>2
  <2>. QED
    BY <2>1, <2>2
<1>. QED
  BY <1>1, <1>3, <1>8 DEF CommitInv, Bounded, Committed

LEMMA CommitInductive ==
  ASSUME ~ReceiptsRejected, PayInv, CommitInv, [PayNext]_payVars
  PROVE  CommitInv'
<1>1. sr'.rtype = sr.rtype
  BY RequestMoves, TypeConstant DEF PayInv, StageInv, Noted
<1>2. ASSUME NEW p \in Providers, SubmitAmounts(p)
      PROVE  CommitInv'
  BY <1>1, <1>2, PlanStaysBounded DEF SubmitAmounts
<1>3. ASSUME NEW p \in Providers, UpdateAmounts(p)
      PROVE  CommitInv'
  <2>1. CASE UNCHANGED <<plan, installments>>
    BY <1>1, <2>1, PlanStaysBounded
  <2>2. ASSUME plan # NoPlan, NEW t \in Money, RevisePlan(t), installments' = installments
        PROVE  CommitInv'
    <3>1. plan'.total = t
      BY <2>2, RevisedSound
    <3>2. /\ plan \in Plan /\ installments \in Seq(Installment) /\ Capped(plan, installments)
      BY <2>2 DEF PayInv, MoneyInv, PayTypeOK, ConfirmedIsSum, Capped
    <3>3. ASSUME sr.rtype = "normal" PROVE Outstanding(installments) <= t
      <4>1. plan.confirmed = Confirmed(installments)
        BY <2>2, <3>2, <3>3, ExactlyConfirmed DEF CommitInv, Bounded, Committed, Outstanding
      <4>. QED
        BY <2>2, <4>1 DEF RevisePlan, Outstanding
    <3>. QED
      BY <1>1, <2>2, <3>1, <3>3 DEF CommitInv, NoneRejected, Bounded, Committed, Outstanding
  <2>. QED
    BY <1>3, <2>1, <2>2 DEF UpdateAmounts
<1>4. ASSUME plan' = NoPlan, installments' = <<>>
      PROVE  CommitInv'
  BY <1>4 DEF CommitInv, NoneRejected, Bounded, Committed
<1>5. ASSUME NEW p \in Providers, DropProvider(p)
      PROVE  CommitInv'
  BY <1>1, <1>4, <1>5, PlanStaysBounded DEF DropProvider
<1>6. ASSUME NEW i \in DOMAIN installments, UploadReceipt(i)
      PROVE  CommitInv'
  <2>1. installments[i].status \in {"pending_payment", "receipt_uploaded"}
    BY <1>6 DEF UploadReceipt, CommitInv, NoneRejected
  <2>. QED
    BY <1>6, <2>1, ReceiptBounded DEF UploadReceipt
<1>7. ASSUME NEW p \in Providers, NEW i \in DOMAIN installments, DecideReceipt(p, i, TRUE)
      PROVE  CommitInv'
  <2>1. plan'.total = plan.total
    BY <1>7 DEF DecideReceipt, Recalculated
  <2>. QED
    BY <1>7, <2>1, ReceiptBounded DEF DecideReceipt
<1>8. CASE ApproveWithPlan
  <2>1. CASE UNCHANGED money
    BY <1>1, <2>1, PlanStaysBounded DEF money
  <2>2. CASE ~UNCHANGED money
    <3>1. sr' # sr /\ \E banked \in BOOLEAN : EnsurePlan(banked)
      BY <1>8, <2>2 DEF ApproveWithPlan
    <3>2. sr.status = "awaiting_client"
      BY <1>8, <3>1 DEF ApproveWithPlan, PageApprove, DecisionApply, ApproveInputs
    <3>3. PICK banked \in BOOLEAN :
            Ensures(banked) /\ plan' = EnsuredPlan /\ installments' = EnsuredInstallments
      BY <2>2, <3>1 DEF EnsurePlan
    <3>. QED
      BY <1>1, <3>2, <3>3, EnsuredBounded
         DEF CommitInv, NoneRejected, Bounded, Committed, Outstanding
  <2>. QED
    BY <2>1, <2>2
<1>9. CASE EndRound \/ OtherStep \/ UNCHANGED payVars
  BY <1>1, <1>9, PlanStaysBounded DEF EndRound, OtherStep, money, payVars
<1>10. CASE DropRequest
  BY <1>4, <1>10 DEF DropRequest
<1>. QED
  BY <1>2, <1>3, <1>5, <1>6, <1>7, <1>8, <1>9, <1>10, CreateBounded DEF PayNext

\* What is confirmed and what is asked for never exceed the total of a normal
\* request whose provider rejects no receipt.
THEOREM NothingOvercommitted ==
  ASSUME ~ReceiptsRejected
  PROVE  PaySpec => [](sr.rtype = "normal" => Committed)
<1>1. PayInit => CommitInv
  BY DEF PayInit, CommitInv, NoneRejected, Bounded, Committed
<1>2. PayInv /\ CommitInv /\ [PayNext]_payVars => CommitInv'
  BY CommitInductive
<1>3. CommitInv => (sr.rtype = "normal" => Committed)
  BY DEF CommitInv, Bounded
<1>. QED
  BY <1>1, <1>2, <1>3, PayInvariant, PTL DEF PaySpec
================================================================================
