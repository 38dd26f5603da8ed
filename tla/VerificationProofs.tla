-------------------------- MODULE VerificationProofs --------------------------
(***************************************************************************)
(* A badge rests on an approved request and its payment, there is one, and *)
(* the profile follows.  The invariant adds that the requests are numbered *)
(* without a gap, so that a new one takes the place of none, and that the  *)
(* form and the job hold requests that exist.                              *)
(***************************************************************************)
EXTENDS Verification, FiniteSetTheorems, TLAPS

VRow ==
    [status : VerificationStatus \cup {"none"}, decision : {"none", "yes", "no"},
     lapsed : BOOLEAN, inv : {"none", "unpaid", "paid"}, free : BOOLEAN]

JobRow ==
    [step : {"idle", "listed", "marked", "cleared", "read"}, ids : SUBSET RequestIds, mark : BOOLEAN]

\* The rows are numbered from 1, and those that are not there are empty
Numbered ==
    /\ \E n \in 0..MaxRequests : Requested = 1..n
    /\ \A i \in RequestIds \ Requested : requests[i] = NoRequest

\* The form and the job hold requests that exist
HeldRequested == form \in Requested \cup {0} /\ job.ids \subseteq Requested

\* OneBadge without a count
BadgesAlike == \A i, j \in badges : i = j

VerificationInv ==
    /\ VerificationTypeOK /\ Numbered /\ HeldRequested
    /\ BadgeBacked /\ ActivePaid /\ BadgesAlike

-----------------------------------------------------------------------------
(* Types *)

LEMMA VerificationTyped ==
  VerificationTypeOK <=>
    /\ requests \in [RequestIds -> VRow]
    /\ badges \subseteq RequestIds /\ deaf \subseteq RequestIds
    /\ form \in 0..MaxRequests /\ verified \in BOOLEAN
    /\ applicants \in 0..MaxRequests /\ kills \in 0..MaxKills
    /\ job \in JobRow
BY DEF VerificationTypeOK, VRow, JobRow

LEMMA RowTyped ==
  ASSUME NEW row \in VRow
  PROVE  /\ NewRequest \in VRow /\ NoRequest \in VRow
         /\ ActivatedRow(row) \in VRow /\ RevokedRow(row) \in VRow /\ InReview(row) \in VRow
BY DEF VRow, NewRequest, NoRequest, ActivatedRow, RevokedRow, InReview, VerificationStatus,
       Editable, Blocking

\* Applications are counted beside the requests
LEMMA RoomCounted ==
  ASSUME VerificationTypeOK, Numbered, RoomForOne
  PROVE  applicants + 1 \in 0..MaxRequests
<1>1. PICK n \in 0..MaxRequests : Requested = 1..n
  BY DEF Numbered
<1>2. Cardinality(Requested) = n
  BY <1>1, FS_Interval, VerificationAssumption
<1>. QED
  BY <1>2, VerificationAssumption DEF RoomForOne, VerificationTypeOK

\* The next number is that of no request
LEMMA NextIsFree ==
  ASSUME Numbered
  PROVE  /\ NextRequest \notin Requested
         /\ NextRequest \in RequestIds => 
              Requested \cup {NextRequest} = 1..NextRequest /\ NextRequest \in 0..MaxRequests
<1>1. PICK n \in 0..MaxRequests : Requested = 1..n
  BY DEF Numbered
<1>2. Cardinality(Requested) = n
  BY <1>1, FS_Interval, VerificationAssumption
<1>. QED
  BY <1>1, <1>2, VerificationAssumption DEF NextRequest, RequestIds

LEMMA VerificationTypeKept ==
  ASSUME VerificationTypeOK, Numbered, [VerificationNext]_verificationVars
  PROVE  VerificationTypeOK'
<1> USE VerificationAssumption DEF VerificationTypeOK, RequestIds
<1>t. requests \in [RequestIds -> VRow] /\ job \in JobRow
  BY VerificationTyped
<1>n. NewRequest \in VRow /\ IdleJob \in JobRow
  BY <1>t, RowTyped DEF JobRow, IdleJob, VRow, NewRequest, VerificationStatus, Editable, Blocking
<1>s. ASSUME NEW rows \in [RequestIds -> VRow], NEW active \in SUBSET RequestIds,
             Synced(rows, active)
      PROVE  /\ requests' \in [RequestIds -> VRow]
             /\ badges' \subseteq RequestIds /\ verified' \in BOOLEAN
  BY <1>s DEF Synced, Shown
<1>k. ASSUME NEW rows \in [RequestIds -> VRow], NEW i \in RequestIds, Save(rows, i)
      PROVE  /\ requests' \in [RequestIds -> VRow]
             /\ badges' \subseteq RequestIds /\ verified' \in BOOLEAN
  BY <1>k, <1>s DEF Save, Kept
<1> SUFFICES
      /\ requests' \in [RequestIds -> VRow]
      /\ badges' \subseteq RequestIds /\ deaf' \subseteq RequestIds
      /\ form' \in 0..MaxRequests /\ verified' \in BOOLEAN
      /\ applicants' \in 0..MaxRequests /\ kills' \in 0..MaxKills
      /\ job' \in JobRow
  BY DEF VerificationTypeOK, VRow, JobRow
<1> DEFINE Goal ==
      /\ requests' \in [RequestIds -> VRow]
      /\ badges' \subseteq RequestIds /\ deaf' \subseteq RequestIds
      /\ form' \in 0..MaxRequests /\ verified' \in BOOLEAN
      /\ applicants' \in 0..MaxRequests /\ kills' \in 0..MaxKills
      /\ job' \in JobRow
<1>1. CASE Apply
  BY <1>1, <1>t, RoomCounted DEF Apply
<1>2. CASE Create
  <2> DEFINE rows == [requests EXCEPT ![NextRequest] = NewRequest]
  <2>1. rows \in [RequestIds -> VRow]
    BY <1>t, <1>n
  <2>2. Synced(rows, badges)
    BY <1>2 DEF Create
  <2> HIDE DEF rows
  <2>3. requests' \in [RequestIds -> VRow] /\ badges' \subseteq RequestIds /\ verified' \in BOOLEAN
    BY <2>1, <2>2, <1>s
  <2>. QED
    BY <1>2, <1>t, <2>3 DEF Create
<1>3. CASE RunJob
  <2>1. ASSUME NEW from \in {"idle", "listed", "marked", "cleared", "read"},
               NEW to \in {"idle", "listed", "marked", "cleared", "read"},
               NEW ids \in SUBSET RequestIds, NEW mark \in BOOLEAN, JobStep(from, to, ids, mark)
        PROVE  job' \in JobRow /\ UNCHANGED <<applicants, form, kills, deaf>>
    BY <2>1, <1>n DEF JobStep, JobRow
  <2>2. job.ids \in SUBSET RequestIds /\ job.mark \in BOOLEAN
    BY <1>t DEF JobRow
  <2>3. CASE ListDue
    <3>1. Due \in SUBSET RequestIds
      BY DEF Due, Requested
    <3>2. JobStep("idle", "listed", Due, FALSE)
      BY <2>3 DEF ListDue
    <3>3. job' \in JobRow /\ UNCHANGED <<applicants, form, kills, deaf>>
      BY <2>1, <3>1, <3>2
    <3>. QED
      BY <2>3, <3>3, <1>t DEF ListDue
  <2>4. CASE MarkExpired
    <3>1. job' \in JobRow /\ UNCHANGED <<applicants, form, kills, deaf>>
      BY <2>1, <2>2, <2>4 DEF MarkExpired
    <3>2. \A i \in RequestIds : [requests[i] EXCEPT !.status = "expired"] \in VRow
      BY <1>t DEF VRow, VerificationStatus
    <3>3. requests' \in [RequestIds -> VRow] /\ UNCHANGED <<badges, verified>>
      BY <2>4, <3>2, <1>t DEF MarkExpired
    <3>. QED
      BY <3>1, <3>3, <1>t
  <2>5. CASE ClearBadges
    <3>1. job' \in JobRow /\ UNCHANGED <<applicants, form, kills, deaf>>
      BY <2>1, <2>5 DEF ClearBadges
    <3>. QED
      BY <2>5, <3>1, <1>t DEF ClearBadges, Cleared
  <2>6. CASE ReadBadges
    <3>1. job' \in JobRow /\ UNCHANGED <<applicants, form, kills, deaf>>
      BY <2>1, <2>6 DEF ReadBadges, Shown
    <3>. QED
      BY <2>6, <3>1, <1>t DEF ReadBadges
  <2>7. CASE WriteMark
    <3>1. job' \in JobRow /\ UNCHANGED <<applicants, form, kills, deaf>>
      BY <2>1, <2>7 DEF WriteMark
    <3>. QED
      BY <2>7, <3>1, <2>2, <1>t DEF WriteMark
  <2>. QED
    BY <1>3, <2>3, <2>4, <2>5, <2>6, <2>7 DEF RunJob
<1>4. CASE Kill
  BY <1>4, <1>t, <1>n DEF Kill
<1>5. ASSUME NEW i \in RequestIds, Renew(i) PROVE Goal
  <2> DEFINE rows == [requests EXCEPT ![NextRequest] = NewRequest]
  <2>1. rows \in [RequestIds -> VRow]
    BY <1>t, <1>n
  <2>2. Synced(rows, badges)
    BY <1>5 DEF Renew
  <2> HIDE DEF rows
  <2>3. requests' \in [RequestIds -> VRow] /\ badges' \subseteq RequestIds /\ verified' \in BOOLEAN
    BY <2>1, <2>2, <1>s
  <2>. QED
    BY <1>5, <1>t, <2>3 DEF Renew, OthersUnchanged
<1>6. ASSUME NEW i \in RequestIds, Upload(i) PROVE Goal
  <2> DEFINE rows == [requests EXCEPT ![i] = InReview(@)]
  <2>1. rows \in [RequestIds -> VRow]
    BY <1>t, RowTyped
  <2>2. Save(rows, i)
    BY <1>6 DEF Upload
  <2> HIDE DEF rows
  <2>3. requests' \in [RequestIds -> VRow] /\ badges' \subseteq RequestIds /\ verified' \in BOOLEAN
    BY <2>1, <2>2, <1>k
  <2>. QED
    BY <1>6, <1>t, <2>3 DEF Upload, OthersUnchanged
<1>7. ASSUME NEW i \in RequestIds, OpenForm(i) PROVE Goal
  BY <1>7, <1>t DEF OpenForm
<1>8. ASSUME NEW i \in RequestIds, Deactivate(i) PROVE Goal
  BY <1>8, <1>t, <1>s DEF Deactivate, OthersUnchanged
<1>9. ASSUME NEW i \in RequestIds, Lapse(i) PROVE Goal
  <2>1. [requests EXCEPT ![i].lapsed = TRUE] \in [RequestIds -> VRow]
    BY <1>t DEF VRow
  <2>. QED
    BY <1>9, <1>t, <2>1 DEF Lapse, OthersUnchanged
<1>10. ASSUME NEW i \in RequestIds, NEW d \in {"yes", "no"}, Decide(i, d) PROVE Goal
  <2>1. InReview(requests[i]) \in VRow
    BY <1>t, RowTyped
  <2>2. [InReview(requests[i]) EXCEPT !.decision = d] \in VRow
    BY <2>1, <1>10 DEF VRow
  <2>3. [requests EXCEPT ![i] = [InReview(@) EXCEPT !.decision = d]] \in [RequestIds -> VRow]
    BY <1>t, <2>2
  <2> DEFINE rows == [requests EXCEPT ![i] = [InReview(@) EXCEPT !.decision = d]]
  <2>4. /\ OthersUnchanged
        /\ (requests' = rows /\ UNCHANGED <<badges, verified>>) \/ Save(rows, i)
    BY <1>10 DEF Decide
  <2>5. rows \in [RequestIds -> VRow]
    BY <2>3
  <2> HIDE DEF rows
  <2>6. requests' \in [RequestIds -> VRow] /\ badges' \subseteq RequestIds /\ verified' \in BOOLEAN
    <3>1. CASE requests' = rows /\ UNCHANGED <<badges, verified>>
      BY <3>1, <2>5
    <3>2. CASE Save(rows, i)
      BY <3>2, <2>5, <1>k
    <3>. QED
      BY <2>4, <3>1, <3>2
  <2>. QED
    BY <1>t, <2>4, <2>6 DEF OthersUnchanged
<1>11. ASSUME NEW i \in RequestIds, NEW s \in {"new", "in_review"}, SaveForm(i, s) PROVE Goal
  <2> DEFINE rows == [requests EXCEPT ![i].status = s]
  <2>1. rows \in [RequestIds -> VRow]
    BY <1>t, <1>11 DEF VRow, VerificationStatus, Editable
  <2>2. Save(rows, i)
    BY <1>11 DEF SaveForm
  <2> HIDE DEF rows
  <2>3. requests' \in [RequestIds -> VRow] /\ badges' \subseteq RequestIds /\ verified' \in BOOLEAN
    BY <2>1, <2>2, <1>k
  <2>. QED
    BY <1>11, <1>t, <2>3 DEF SaveForm
<1>12. ASSUME NEW i \in RequestIds, NEW free \in BOOLEAN, Finalize(i, free) PROVE Goal
  <2> DEFINE approved == [requests[i] EXCEPT !.status = "approved"]
             rejected == [requests[i] EXCEPT !.status = "rejected"]
             billed == [approved EXCEPT !.status = "pending_payment", !.inv = "unpaid"]
             given == [ActivatedRow(approved) EXCEPT !.inv = "paid", !.free = TRUE]
  <2>1. approved \in VRow /\ rejected \in VRow /\ billed \in VRow /\ given \in VRow
    BY <1>t DEF VRow, ActivatedRow, VerificationStatus, Editable, Blocking
  <2>2. OthersUnchanged
    BY <1>12 DEF Finalize
  <2>3. \/ Save([requests EXCEPT ![i] = approved], i)
        \/ Save([requests EXCEPT ![i] = rejected], i)
        \/ Save([requests EXCEPT ![i] = billed], i)
        \/ Synced([requests EXCEPT ![i] = given], {i})
    BY <1>12 DEF Finalize, Badged
  <2> HIDE DEF approved, rejected, billed, given
  <2>4. \A row \in VRow : [requests EXCEPT ![i] = row] \in [RequestIds -> VRow]
    BY <1>t
  <2>5. requests' \in [RequestIds -> VRow] /\ badges' \subseteq RequestIds /\ verified' \in BOOLEAN
    BY <2>1, <2>3, <2>4, <1>k, <1>s
  <2>. QED
    BY <1>t, <2>2, <2>5 DEF OthersUnchanged
<1>13. ASSUME NEW i \in RequestIds, NEW s \in {"unpaid", "paid"}, Pay(i, s) PROVE Goal
  <2> DEFINE paid == [requests EXCEPT ![i].inv = s]
             revoked == [paid EXCEPT ![i] = RevokedRow(@)]
             activated == [paid EXCEPT ![i] = ActivatedRow(@)]
  <2>1. paid \in [RequestIds -> VRow] /\ paid[i] \in VRow
    BY <1>t, <1>13 DEF VRow
  <2>2. revoked \in [RequestIds -> VRow] /\ activated \in [RequestIds -> VRow]
    BY <2>1, RowTyped
  <2>3. \/ Save(revoked, i)
        \/ Synced(activated, {i})
        \/ requests' = paid /\ UNCHANGED <<badges, verified>>
    BY <1>13 DEF Pay, Badged
  <2> HIDE DEF paid, revoked, activated
  <2>4. requests' \in [RequestIds -> VRow] /\ badges' \subseteq RequestIds /\ verified' \in BOOLEAN
    BY <2>1, <2>2, <2>3, <1>k, <1>s
  <2>. QED
    BY <1>13, <1>t, <2>4 DEF Pay
<1>14. ASSUME NEW i \in RequestIds, PayUnheard(i) PROVE Goal
  <2> DEFINE rows == [requests EXCEPT ![i].inv = "unpaid"]
  <2>1. rows \in [RequestIds -> VRow]
    BY <1>t DEF VRow
  <2>2. Synced(rows, badges \ {i})
    BY <1>14 DEF PayUnheard
  <2> HIDE DEF rows
  <2>3. requests' \in [RequestIds -> VRow] /\ badges' \subseteq RequestIds /\ verified' \in BOOLEAN
    BY <2>1, <2>2, <1>s
  <2>. QED
    BY <1>14, <1>t, <2>3 DEF PayUnheard
<1>15. ASSUME NEW i \in RequestIds, ActivationUnheard(i) PROVE Goal
  <2>1. [requests EXCEPT ![i].inv = "paid"] \in [RequestIds -> VRow]
    BY <1>t DEF VRow
  <2>. QED
    BY <1>15, <1>t, <2>1 DEF ActivationUnheard
<1>16. CASE UNCHANGED verificationVars
  BY <1>16, <1>t DEF verificationVars
<1>. QED
  BY <1>1, <1>2, <1>3, <1>4, <1>5, <1>6, <1>7, <1>8, <1>9, <1>10, <1>11, <1>12, <1>13, <1>14,
     <1>15, <1>16 DEF VerificationNext

-----------------------------------------------------------------------------
(* What a step may do to the rows and the badges *)

\* Nobody else comes or goes
LEMMA SameRequests ==
  ASSUME Numbered,
         \A r \in RequestIds : requests'[r].status = "none" <=> requests[r].status = "none",
         \A r \in RequestIds \ Requested : requests'[r] = requests[r]
  PROVE  Requested' = Requested /\ Numbered'
<1>1. Requested' = Requested
  BY DEF Requested, RequestIds
<1>. QED
  BY <1>1 DEF Numbered, RequestIds

\* A badge has a request
LEMMA BadgesRequested ==
  ASSUME Numbered, BadgeBacked, badges \subseteq RequestIds
  PROVE  badges \subseteq Requested
<1>1. NoRequest.inv = "none"
  BY DEF NoRequest, NewRequest
<1>. QED
  BY <1>1 DEF Numbered, BadgeBacked

\* The form and the job stay with requests that exist
HoldersKept == form' \in {form, 0} /\ UNCHANGED <<job, kills>>

\* A row that the receiver of saves has looked at
LEMMA SavedKeeps ==
  ASSUME VerificationInv, VerificationTypeOK', HoldersKept,
         NEW i \in Requested, NEW row \in VRow, row.status # "none",
         row.status = "active" => row.inv = "paid" \/ i \in deaf',
         deaf \ {i} \subseteq deaf',
         Save([requests EXCEPT ![i] = row], i)
  PROVE  VerificationInv'
<1> USE DEF VerificationInv, HoldersKept
<1>1. i \in RequestIds /\ requests[i].status # "none"
  BY DEF Requested
<1>2. \A r \in RequestIds : requests'[r] = IF r = i THEN row ELSE requests[r]
  BY <1>1 DEF VerificationTypeOK, Save, Synced
<1>3. badges' = Kept([requests EXCEPT ![i] = row], badges, i)
  BY DEF Save, Synced
<1>4. badges' \subseteq badges /\ (i \in badges' => row.status = "active" /\ row.inv = "paid")
  BY <1>1, <1>3 DEF Kept, VerificationTypeOK
<1>5. Requested' = Requested /\ Numbered'
  <2>1. \A r \in RequestIds : requests'[r].status = "none" <=> requests[r].status = "none"
    BY <1>1, <1>2
  <2>2. \A r \in RequestIds \ Requested : requests'[r] = requests[r]
    BY <1>2
  <2>. QED
    BY <2>1, <2>2, SameRequests
<1>6. HeldRequested'
  BY <1>5 DEF HeldRequested
<1>7. BadgeBacked'
  BY <1>2, <1>4 DEF BadgeBacked, VerificationTypeOK
<1>8. ActivePaid'
  <2>1. ASSUME NEW r \in Requested, r \notin deaf', requests'[r].status = "active"
        PROVE  requests'[r].inv = "paid"
    <3>1. CASE r = i
      BY <1>1, <1>2, <2>1, <3>1
    <3>2. CASE r # i
      BY <1>2, <2>1, <3>2 DEF ActivePaid, Requested
    <3>. QED
      BY <3>1, <3>2
  <2>. QED
    BY <1>5, <2>1 DEF ActivePaid
<1>9. BadgesAlike'
  BY <1>4 DEF BadgesAlike
<1>. QED
  BY <1>5, <1>6, <1>7, <1>8, <1>9

\* A row that is written while the badges stay
LEMMA NotedKeeps ==
  ASSUME VerificationInv, VerificationTypeOK', HoldersKept,
         NEW i \in Requested, NEW row \in VRow, row.status = requests[i].status,
         row.inv = "paid" \/ (row.inv = requests[i].inv /\ deaf' = deaf),
         deaf \ {i} \subseteq deaf',
         requests' = [requests EXCEPT ![i] = row], badges' = badges
  PROVE  VerificationInv'
<1> USE DEF VerificationInv, HoldersKept
<1>1. i \in RequestIds /\ requests[i].status # "none"
  BY DEF Requested
<1>2. \A r \in RequestIds : requests'[r] = IF r = i THEN row ELSE requests[r]
  BY <1>1 DEF VerificationTypeOK
<1>5. Requested' = Requested /\ Numbered'
  <2>1. \A r \in RequestIds : requests'[r].status = "none" <=> requests[r].status = "none"
    BY <1>1, <1>2
  <2>2. \A r \in RequestIds \ Requested : requests'[r] = requests[r]
    BY <1>2
  <2>. QED
    BY <2>1, <2>2, SameRequests
<1>6. HeldRequested'
  BY <1>5 DEF HeldRequested
<1>7. BadgeBacked'
  BY <1>2 DEF BadgeBacked, VerificationTypeOK
<1>8. ActivePaid'
  <2>1. ASSUME NEW r \in Requested, r \notin deaf', requests'[r].status = "active"
        PROVE  requests'[r].inv = "paid"
    <3>1. CASE r = i
      BY <1>1, <1>2, <2>1, <3>1 DEF ActivePaid
    <3>2. CASE r # i
      BY <1>2, <2>1, <3>2 DEF ActivePaid, Requested
    <3>. QED
      BY <3>1, <3>2
  <2>. QED
    BY <1>5, <2>1 DEF ActivePaid
<1>9. BadgesAlike'
  BY DEF BadgesAlike
<1>. QED
  BY <1>5, <1>6, <1>7, <1>8, <1>9

\* A request that is activated, with the badges of no others
LEMMA GivenKeeps ==
  ASSUME VerificationInv, VerificationTypeOK', HoldersKept,
         NEW i \in Requested,
         requests'[i].status = "active" /\ requests'[i].inv = "paid",
         \A r \in RequestIds \ {i} : requests'[r] = requests[r],
         badges' = {i}, deaf \ {i} \subseteq deaf'
  PROVE  VerificationInv'
<1> USE DEF VerificationInv, HoldersKept
<1>5. Requested' = Requested /\ Numbered'
  <2>1. \A r \in RequestIds : requests'[r].status = "none" <=> requests[r].status = "none"
    BY DEF Requested
  <2>. QED
    BY <2>1, SameRequests
<1>6. HeldRequested'
  BY <1>5 DEF HeldRequested
<1>7. BadgeBacked'
  BY DEF BadgeBacked
<1>8. ActivePaid'
  BY <1>5 DEF ActivePaid, Requested
<1>9. BadgesAlike'
  BY DEF BadgesAlike
<1>. QED
  BY <1>5, <1>6, <1>7, <1>8, <1>9

\* A new request
LEMMA AddedKeeps ==
  ASSUME VerificationInv, VerificationTypeOK', HoldersKept, UNCHANGED deaf,
         requests' = [requests EXCEPT ![NextRequest] = NewRequest], badges' = badges
  PROVE  VerificationInv'
<1> USE DEF VerificationInv, HoldersKept
<1>1. CASE NextRequest \notin RequestIds
  <2>1. requests' = requests
    BY <1>1 DEF VerificationTypeOK
  <2>. QED
    BY <2>1, SameRequests DEF HeldRequested, BadgeBacked, ActivePaid, BadgesAlike
<1>2. CASE NextRequest \in RequestIds
  <2>1. NewRequest.status = "new"
    BY DEF NewRequest
  <2>2. \A r \in RequestIds : requests'[r] = IF r = NextRequest THEN NewRequest ELSE requests[r]
    BY <1>2 DEF VerificationTypeOK
  <2>3. Requested' = Requested \cup {NextRequest}
    BY <1>2, <2>1, <2>2 DEF Requested, RequestIds
  <2>4. NextRequest \notin badges
    BY NextIsFree, BadgesRequested DEF VerificationTypeOK
  <2>5. Numbered'
    BY <1>2, <2>2, <2>3, NextIsFree DEF Numbered, RequestIds
  <2>6. HeldRequested'
    BY <2>3 DEF HeldRequested
  <2>7. BadgeBacked'
    BY <2>2, <2>4 DEF BadgeBacked, VerificationTypeOK
  <2>8. ActivePaid'
    BY <2>1, <2>2, <2>3 DEF ActivePaid, Requested
  <2>9. BadgesAlike'
    BY DEF BadgesAlike
  <2>. QED
    BY <2>5, <2>6, <2>7, <2>8, <2>9
<1>. QED
  BY <1>1, <1>2

\* Only badges go
LEMMA RemovedKeeps ==
  ASSUME VerificationInv, VerificationTypeOK', HoldersKept, UNCHANGED <<requests, deaf>>,
         badges' \subseteq badges
  PROVE  VerificationInv'
<1> USE DEF VerificationInv, HoldersKept
<1>1. Requested' = Requested /\ Numbered'
  BY SameRequests
<1>. QED
  BY <1>1 DEF HeldRequested, BadgeBacked, ActivePaid, BadgesAlike

-----------------------------------------------------------------------------
(* The job and the process that dies *)

LEMMA JobKeeps ==
  ASSUME VerificationInv, VerificationTypeOK', RunJob \/ Kill
  PROVE  VerificationInv'
<1> USE DEF VerificationInv, HeldRequested
<1>t. requests \in [RequestIds -> VRow] /\ job \in JobRow /\ kills \in Nat
  BY VerificationTyped, VerificationAssumption
<1>1. ASSUME UNCHANGED <<requests, badges, form, deaf>>, job'.ids \subseteq Requested,
             kills' = kills \/ kills' > 0,
             \A i \in RequestIds : job.step = "marked" /\ i \in job.ids /\ kills' = kills =>
                 job'.step = "marked" /\ i \in job'.ids,
             kills' >= kills
      PROVE  VerificationInv'
  <2>1. Requested' = Requested /\ Numbered'
    BY <1>1, SameRequests
  <2>2. kills' \in Nat
    BY VerificationAssumption DEF VerificationTypeOK
  <2>3. BadgeBacked'
    BY <1>1, <1>t, <2>2 DEF BadgeBacked, VerificationTypeOK
  <2>. QED
    BY <1>1, <2>1, <2>3 DEF ActivePaid, BadgesAlike
<1>2. CASE ListDue
  <2>1. job' = [step |-> "listed", ids |-> Due, mark |-> FALSE] /\ job.step = "idle"
    BY <1>2 DEF ListDue, JobStep
  <2>2. Due \subseteq Requested
    BY DEF Due
  <2>. QED
    BY <1>1, <1>t, <1>2, <2>1, <2>2 DEF ListDue, JobStep
<1>3. CASE MarkExpired
  <2>1. /\ job.step = "listed" /\ job' = [step |-> "marked", ids |-> job.ids, mark |-> FALSE]
        /\ UNCHANGED <<form, kills, deaf, badges>>
    BY <1>3 DEF MarkExpired, JobStep
  <2>2. \A i \in RequestIds :
          requests'[i] = IF i \in job.ids THEN [requests[i] EXCEPT !.status = "expired"] ELSE requests[i]
    BY <1>3 DEF MarkExpired
  <2>3. \A i \in RequestIds :
          /\ requests'[i].inv = requests[i].inv
          /\ requests'[i].status = IF i \in job.ids THEN "expired" ELSE requests[i].status
    BY <1>t, <2>2 DEF VRow
  <2>4. Requested' = Requested /\ Numbered'
    BY <2>2, <2>3, SameRequests DEF Requested
  <2>5. BadgeBacked'
    BY <2>1, <2>3 DEF BadgeBacked, VerificationTypeOK
  <2>6. ActivePaid'
    BY <2>1, <2>3, <2>4 DEF ActivePaid, Requested
  <2>. QED
    BY <2>1, <2>4, <2>5, <2>6 DEF BadgesAlike
<1>4. CASE ClearBadges
  <2>1. /\ job.step = "marked" /\ job' = [step |-> "cleared", ids |-> {}, mark |-> FALSE]
        /\ UNCHANGED <<form, kills, deaf, requests>>
        /\ badges' = badges \ job.ids
    BY <1>4 DEF ClearBadges, JobStep, Cleared
  <2>2. Requested' = Requested /\ Numbered'
    BY <2>1, SameRequests
  <2>3. BadgeBacked'
    BY <2>1 DEF BadgeBacked, VerificationTypeOK
  <2>. QED
    BY <2>1, <2>2, <2>3 DEF ActivePaid, BadgesAlike
<1>5. CASE ReadBadges
  <2>1. job' = [step |-> "read", ids |-> {}, mark |-> Shown(requests, badges)] /\ job.step = "cleared"
    BY <1>5 DEF ReadBadges, JobStep
  <2>. QED
    BY <1>1, <1>t, <1>5, <2>1 DEF ReadBadges, JobStep
<1>6. CASE WriteMark
  <2>1. job' = IdleJob /\ job.step = "read"
    BY <1>6 DEF WriteMark, JobStep
  <2>. QED
    BY <1>1, <1>t, <1>6, <2>1 DEF WriteMark, JobStep, IdleJob
<1>7. CASE Kill
  BY <1>1, <1>t, <1>7 DEF Kill, IdleJob
<1>. QED
  BY <1>2, <1>3, <1>4, <1>5, <1>6, <1>7 DEF RunJob

-----------------------------------------------------------------------------
(* Every step *)

LEMMA VerificationInductive ==
  ASSUME VerificationInv, [VerificationNext]_verificationVars
  PROVE  VerificationInv'
<1> USE DEF VerificationInv, HoldersKept
<1>0. VerificationTypeOK'
  BY VerificationTypeKept
<1>t. requests \in [RequestIds -> VRow] /\ badges \subseteq RequestIds
  BY VerificationTyped
<1>r. \A i \in Requested : i \in RequestIds /\ requests[i] \in VRow /\ requests[i].status # "none"
  BY <1>t DEF Requested
<1>1. CASE Apply
  BY <1>0, <1>1, RemovedKeeps DEF Apply
<1>2. CASE Create
  BY <1>0, <1>2, AddedKeeps DEF Create, Synced
<1>3. CASE RunJob \/ Kill
  BY <1>0, <1>3, JobKeeps
<1>4. ASSUME NEW i \in RequestIds, Renew(i) PROVE VerificationInv'
  BY <1>0, <1>4, AddedKeeps DEF Renew, Synced, OthersUnchanged
<1>5. ASSUME NEW i \in RequestIds, Upload(i) PROVE VerificationInv'
  <2> DEFINE row == InReview(requests[i])
  <2>1. i \in Requested /\ OthersUnchanged /\ Save([requests EXCEPT ![i] = row], i)
    BY <1>5 DEF Upload
  <2>2. row \in VRow /\ row.status = "in_review"
    BY <1>5, <1>r, <2>1, RowTyped DEF Upload, InReview, VRow
  <2> HIDE DEF row
  <2>. QED
    BY <1>0, <2>1, <2>2, SavedKeeps DEF OthersUnchanged
<1>6. ASSUME NEW i \in RequestIds, OpenForm(i) PROVE VerificationInv'
  <2>1. Requested' = Requested /\ Numbered'
    BY <1>6, SameRequests DEF OpenForm
  <2>. QED
    BY <1>0, <1>6, <2>1 DEF OpenForm, HeldRequested, BadgeBacked, ActivePaid, BadgesAlike
<1>7. ASSUME NEW i \in RequestIds, Deactivate(i) PROVE VerificationInv'
  BY <1>0, <1>7, RemovedKeeps DEF Deactivate, Synced, OthersUnchanged
<1>8. ASSUME NEW i \in RequestIds, Lapse(i) PROVE VerificationInv'
  <2> DEFINE row == [requests[i] EXCEPT !.lapsed = TRUE]
  <2>1. i \in Requested /\ OthersUnchanged
    BY <1>8 DEF Lapse
  <2>2. requests' = [requests EXCEPT ![i] = row] /\ badges' = badges
    BY <1>8 DEF Lapse
  <2>3. row \in VRow /\ row.status = requests[i].status /\ row.inv = requests[i].inv
    BY <1>t DEF VRow
  <2> HIDE DEF row
  <2>. QED
    BY <1>0, <2>1, <2>2, <2>3, NotedKeeps DEF OthersUnchanged
<1>9. ASSUME NEW i \in RequestIds, NEW d \in {"yes", "no"}, Decide(i, d) PROVE VerificationInv'
  <2> DEFINE row == [InReview(requests[i]) EXCEPT !.decision = d]
  <2>1. i \in Requested /\ OthersUnchanged
    BY <1>9 DEF Decide
  <2>2. /\ row \in VRow /\ row.inv = requests[i].inv
        /\ row.status \in {requests[i].status, "in_review"}
    <3>1. InReview(requests[i]) \in VRow
      BY <1>t, RowTyped
    <3>2. /\ InReview(requests[i]).inv = requests[i].inv
          /\ InReview(requests[i]).status \in {requests[i].status, "in_review"}
      BY <1>t DEF InReview, VRow
    <3>. QED
      BY <3>1, <3>2, <1>9 DEF VRow
  <2>3. \/ /\ row.status = requests[i].status
           /\ requests' = [requests EXCEPT ![i] = row] /\ badges' = badges
        \/ row.status # requests[i].status /\ Save([requests EXCEPT ![i] = row], i)
    BY <1>9, <1>t DEF Decide
  <2> HIDE DEF row
  <2>4. CASE row.status = requests[i].status /\ requests' = [requests EXCEPT ![i] = row] /\ badges' = badges
    BY <1>0, <2>1, <2>2, <2>4, NotedKeeps DEF OthersUnchanged
  <2>5. CASE row.status # requests[i].status /\ Save([requests EXCEPT ![i] = row], i)
    BY <1>0, <2>1, <2>2, <2>5, SavedKeeps DEF OthersUnchanged
  <2>. QED
    BY <2>3, <2>4, <2>5
<1>10. ASSUME NEW i \in RequestIds, NEW s \in {"new", "in_review"}, SaveForm(i, s)
       PROVE  VerificationInv'
  <2> DEFINE row == [requests[i] EXCEPT !.status = s]
  <2>1. /\ i \in Requested /\ Save([requests EXCEPT ![i] = row], i)
        /\ form' = 0 /\ UNCHANGED <<job, kills, deaf>>
    BY <1>10, VerificationAssumption DEF SaveForm, HeldRequested, RequestIds
  <2>2. row \in VRow /\ row.status = s
    BY <1>t, <1>10 DEF VRow, VerificationStatus, Editable
  <2> HIDE DEF row
  <2>. QED
    BY <1>0, <1>10, <2>1, <2>2, SavedKeeps
<1>11. ASSUME NEW i \in RequestIds, NEW free \in BOOLEAN, Finalize(i, free) PROVE VerificationInv'
  <2> DEFINE approved == [requests[i] EXCEPT !.status = "approved"]
             rejected == [requests[i] EXCEPT !.status = "rejected"]
             billed == [approved EXCEPT !.status = "pending_payment", !.inv = "unpaid"]
             given == [ActivatedRow(approved) EXCEPT !.inv = "paid", !.free = TRUE]
  <2>1. i \in Requested /\ OthersUnchanged
    BY <1>11 DEF Finalize
  <2>2. \/ Save([requests EXCEPT ![i] = approved], i)
        \/ Save([requests EXCEPT ![i] = rejected], i)
        \/ Save([requests EXCEPT ![i] = billed], i)
        \/ Synced([requests EXCEPT ![i] = given], {i})
    BY <1>11 DEF Finalize, Badged
  <2>3. /\ approved \in VRow /\ approved.status = "approved"
        /\ rejected \in VRow /\ rejected.status = "rejected"
        /\ billed \in VRow /\ billed.status = "pending_payment"
        /\ given \in VRow /\ given.status = "active" /\ given.inv = "paid"
    BY <1>t DEF VRow, ActivatedRow, VerificationStatus, Editable, Blocking
  <2> HIDE DEF approved, rejected, billed, given
  <2>4. ASSUME NEW row \in {approved, rejected, billed}, Save([requests EXCEPT ![i] = row], i)
        PROVE  VerificationInv'
    BY <1>0, <2>1, <2>3, <2>4, SavedKeeps DEF OthersUnchanged
  <2>5. CASE Synced([requests EXCEPT ![i] = given], {i})
    <3>1. requests' = [requests EXCEPT ![i] = given] /\ badges' = {i}
      BY <2>5 DEF Synced
    <3>2. /\ requests'[i].status = "active" /\ requests'[i].inv = "paid"
          /\ \A r \in RequestIds \ {i} : requests'[r] = requests[r]
      BY <1>t, <2>3, <3>1
    <3>. QED
      BY <1>0, <2>1, <3>1, <3>2, GivenKeeps DEF OthersUnchanged
  <2>. QED
    BY <2>2, <2>4, <2>5
<1>12. ASSUME NEW i \in RequestIds, NEW s \in {"unpaid", "paid"}, Pay(i, s) PROVE VerificationInv'
  <2> DEFINE noted == [requests[i] EXCEPT !.inv = s]
             revoked == RevokedRow(noted)
             activated == ActivatedRow(noted)
  <2>1. /\ deaf' = deaf \ {i} /\ UNCHANGED <<applicants, form, job, kills>>
        /\ requests[i].inv # "none" /\ ~requests[i].free
    BY <1>12 DEF Pay, Billed
  <2>2. i \in Requested
    BY <2>1 DEF Numbered, NoRequest, NewRequest
  <2>3. \/ Save([requests EXCEPT ![i] = revoked], i)
        \/ s = "paid" /\ Synced([requests EXCEPT ![i] = activated], {i})
        \/ s = "paid" /\ requests' = [requests EXCEPT ![i] = noted] /\ badges' = badges
    <3> DEFINE paid == [requests EXCEPT ![i].inv = s]
    <3>1. paid = [requests EXCEPT ![i] = noted] /\ paid[i] = noted
      BY <1>t
    <3>2. /\ [paid EXCEPT ![i] = RevokedRow(@)] = [requests EXCEPT ![i] = revoked]
          /\ [paid EXCEPT ![i] = ActivatedRow(@)] = [requests EXCEPT ![i] = activated]
      BY <1>t, <3>1
    <3>3. \/ Save([paid EXCEPT ![i] = RevokedRow(@)], i)
          \/ s = "paid" /\ Synced([paid EXCEPT ![i] = ActivatedRow(@)], {i})
          \/ s = "paid" /\ requests' = paid /\ badges' = badges
      BY <1>12 DEF Pay, Badged
    <3> HIDE DEF paid, noted, revoked, activated
    <3>. QED
      BY <3>1, <3>2, <3>3
  <2>4. /\ noted \in VRow /\ noted.status = requests[i].status /\ noted.inv = s
        /\ ~noted.free
    BY <1>12, <1>t, <2>1 DEF VRow
  <2>5. /\ revoked \in VRow /\ revoked.status = "pending_payment"
        /\ activated \in VRow /\ activated.status = "active" /\ activated.inv = s
    <3> HIDE DEF noted
    <3>1. revoked \in VRow /\ activated \in VRow
      BY <2>4, RowTyped
    <3>2. revoked.status = "pending_payment"
      BY <2>4 DEF VRow, RevokedRow
    <3>3. activated.status = "active" /\ activated.inv = s
      BY <2>4 DEF VRow, ActivatedRow
    <3>. QED
      BY <3>1, <3>2, <3>3
  <2> HIDE DEF noted, revoked, activated
  <2>6. CASE Save([requests EXCEPT ![i] = revoked], i)
    BY <1>0, <2>1, <2>2, <2>5, <2>6, SavedKeeps
  <2>7. CASE s = "paid" /\ Synced([requests EXCEPT ![i] = activated], {i})
    <3>1. requests' = [requests EXCEPT ![i] = activated] /\ badges' = {i}
      BY <2>7 DEF Synced
    <3>2. /\ requests'[i].status = "active" /\ requests'[i].inv = "paid"
          /\ \A r \in RequestIds \ {i} : requests'[r] = requests[r]
      BY <1>t, <2>5, <2>7, <3>1
    <3>. QED
      BY <1>0, <2>1, <2>2, <3>1, <3>2, GivenKeeps
  <2>8. CASE s = "paid" /\ requests' = [requests EXCEPT ![i] = noted] /\ badges' = badges
    BY <1>0, <2>1, <2>2, <2>4, <2>8, NotedKeeps
  <2>. QED
    BY <2>3, <2>6, <2>7, <2>8
<1>13. ASSUME NEW i \in RequestIds, PayUnheard(i) PROVE VerificationInv'
  <2> DEFINE row == [requests[i] EXCEPT !.inv = "unpaid"]
  <2>1. /\ deaf' = deaf \cup {i} /\ UNCHANGED <<form, job, kills>>
        /\ i \in badges /\ badges' = badges \ {i} /\ requests' = [requests EXCEPT ![i] = row]
    BY <1>13 DEF PayUnheard, Synced
  <2>2. i \in Requested
    BY <2>1, BadgesRequested DEF VerificationTypeOK
  <2>3. row.status = requests[i].status
    BY <1>t DEF VRow
  <2>4. \A r \in RequestIds : requests'[r] = IF r = i THEN row ELSE requests[r]
    BY <1>t, <2>1
  <2> HIDE DEF row
  <2>5. Requested' = Requested /\ Numbered'
    BY <2>2, <2>3, <2>4, SameRequests
  <2>6. BadgeBacked'
    BY <2>1, <2>4 DEF BadgeBacked, VerificationTypeOK
  <2>7. ActivePaid'
    BY <2>1, <2>4, <2>5 DEF ActivePaid, Requested
  <2>. QED
    BY <1>0, <2>1, <2>5, <2>6, <2>7 DEF HeldRequested, BadgesAlike
<1>14. ASSUME NEW i \in RequestIds, ActivationUnheard(i) PROVE VerificationInv'
  <2> DEFINE row == [requests[i] EXCEPT !.inv = "paid"]
  <2>1. /\ deaf' = deaf \cup {i} /\ UNCHANGED <<form, job, kills, badges>>
        /\ requests[i].inv # "none" /\ requests' = [requests EXCEPT ![i] = row]
    BY <1>14 DEF ActivationUnheard, Billed
  <2>2. i \in Requested
    BY <2>1 DEF Numbered, NoRequest, NewRequest
  <2>3. row \in VRow /\ row.status = requests[i].status /\ row.inv = "paid"
    BY <1>t DEF VRow
  <2> HIDE DEF row
  <2>. QED
    BY <1>0, <2>1, <2>2, <2>3, NotedKeeps
<1>15. CASE UNCHANGED verificationVars
  BY <1>0, <1>15, RemovedKeeps DEF verificationVars
<1>. QED
  BY <1>1, <1>2, <1>3, <1>4, <1>5, <1>6, <1>7, <1>8, <1>9, <1>10, <1>11, <1>12, <1>13, <1>14,
     <1>15 DEF VerificationNext

LEMMA VerificationStarts == VerificationInit => VerificationInv
<1> SUFFICES ASSUME VerificationInit PROVE VerificationInv
  OBVIOUS
<1>1. NoRequest \in VRow /\ IdleJob \in JobRow /\ NoRequest.status = "none" /\ IdleJob.ids = {}
  BY DEF NoRequest, NewRequest, IdleJob, VRow, JobRow, VerificationStatus, Editable, Blocking
<1>2. VerificationTypeOK
  <2>1. requests \in [RequestIds -> VRow]
    BY <1>1 DEF VerificationInit
  <2>2. badges \subseteq RequestIds /\ deaf \subseteq RequestIds
    BY DEF VerificationInit
  <2>3. verified \in BOOLEAN
    BY DEF VerificationInit
  <2>4. form \in 0..MaxRequests /\ applicants \in 0..MaxRequests /\ kills \in 0..MaxKills
    BY VerificationAssumption DEF VerificationInit, VerificationAssumption
  <2>5. job \in JobRow
    BY <1>1 DEF VerificationInit
  <2>. QED
    BY <2>1, <2>2, <2>3, <2>4, <2>5, VerificationTyped
<1>3. Requested = {}
  BY <1>1 DEF VerificationInit, Requested
<1>4. Numbered
  BY <1>3, VerificationAssumption DEF VerificationInit, Numbered
<1>. QED
  BY <1>1, <1>2, <1>3, <1>4
  DEF VerificationInit, VerificationInv, HeldRequested, BadgeBacked, ActivePaid, BadgesAlike

LEMMA VerificationInvariant == VerificationSpec => []VerificationInv
<1>1. VerificationInit => VerificationInv
  BY VerificationStarts
<1>2. VerificationInv /\ [VerificationNext]_verificationVars => VerificationInv'
  BY VerificationInductive
<1>. QED
  BY <1>1, <1>2, PTL DEF VerificationSpec

-----------------------------------------------------------------------------
(* Theorems *)

\* A badge that a profile carries rests on an approved request with its
\* payment in force, for any number of requests and of jobs that are killed.
THEOREM BadgesBacked == VerificationSpec => [](VerificationTypeOK /\ BadgeBacked)
BY VerificationInvariant, PTL DEF VerificationInv

LEMMA OneBadgeCounted == BadgesAlike => OneBadge
<1> SUFFICES ASSUME BadgesAlike PROVE Cardinality(badges) <= 1
  BY DEF OneBadge
<1>1. CASE badges = {}
  BY <1>1, FS_EmptySet
<1>2. ASSUME NEW b \in badges PROVE Cardinality(badges) <= 1
  <2>1. badges = {b}
    BY <1>2 DEF BadgesAlike
  <2>2. Cardinality(badges) = 1
    BY <2>1, FS_Singleton
  <2>. QED
    BY <2>2
<1>. QED
  BY <1>1, <1>2

\* A request is active only with its payment, unless a receiver was not
\* heard, and there is one badge.
THEOREM ActiveOnceCorrect == VerificationSpec => []ActiveOnce
<1>1. VerificationInv => ActiveOnce
  BY OneBadgeCounted DEF VerificationInv, ActiveOnce
<1>. QED
  BY <1>1, VerificationInvariant, PTL

\* The rows, the badges and the mark keep their types.
THEOREM VerificationTypeCorrect == VerificationSpec => []VerificationTypeOK
BY VerificationInvariant, PTL DEF VerificationInv

-----------------------------------------------------------------------------
(* Steps *)

MarkStep == badges' # badges /\ job' = job => (verified' <=> Shown(requests', badges'))

NotLostStep ==
    badges # {} /\ badges' = {} /\ requests' # requests => \E i \in badges : requests'[i] # requests[i]

\* What is done to one request takes no badge but its own
LEMMA OneRowSteps ==
  ASSUME VerificationTypeOK, NEW i \in RequestIds, NEW row, requests' = [requests EXCEPT ![i] = row],
         badges' \in {badges, badges \ {i}}
  PROVE  NotLostStep
<1> SUFFICES ASSUME badges # {}, badges' = {}, requests' # requests PROVE i \in badges /\ requests'[i] # requests[i]
  BY DEF NotLostStep
<1>1. i \in badges
  OBVIOUS
<1>2. requests'[i] # requests[i]
  <2> SUFFICES ASSUME requests'[i] = requests[i] PROVE requests' = requests
    OBVIOUS
  <2>. QED
    BY DEF VerificationTypeOK
<1>. QED
  BY <1>1, <1>2

LEMMA SyncedSteps ==
  ASSUME NEW rows, NEW active, Synced(rows, active)
  PROVE  MarkStep /\ requests' = rows /\ badges' = active
  BY DEF Synced, MarkStep

LEMMA SaveSteps ==
  ASSUME VerificationTypeOK, NEW i \in RequestIds, NEW row, Save([requests EXCEPT ![i] = row], i)
  PROVE  MarkStep /\ NotLostStep
<1>1. Synced([requests EXCEPT ![i] = row], Kept([requests EXCEPT ![i] = row], badges, i))
  BY DEF Save
<1>2. /\ MarkStep /\ requests' = [requests EXCEPT ![i] = row]
      /\ badges' = Kept([requests EXCEPT ![i] = row], badges, i)
  BY <1>1, SyncedSteps
<1>3. badges' \in {badges, badges \ {i}}
  BY <1>2 DEF Kept
<1>. QED
  BY <1>2, <1>3, OneRowSteps

\* A new badge, or the badges as they were
LEMMA GivenSteps ==
  ASSUME NEW rows, NEW active, Synced(rows, active), active # {} \/ active = badges
  PROVE  MarkStep /\ NotLostStep
  BY SyncedSteps DEF NotLostStep

LEMMA BadgeStep ==
  ASSUME VerificationTypeOK, [VerificationNext]_verificationVars
  PROVE  MarkStep /\ NotLostStep
<1>1. CASE UNCHANGED badges
  BY <1>1 DEF MarkStep, NotLostStep
<1>2. CASE RunJob
  BY <1>2 DEF RunJob, ListDue, MarkExpired, ClearBadges, ReadBadges, WriteMark, JobStep, IdleJob,
              MarkStep, NotLostStep
<1>3. CASE Create
  BY <1>3, GivenSteps DEF Create
<1>4. ASSUME NEW i \in RequestIds, Renew(i) PROVE MarkStep /\ NotLostStep
  BY <1>4, GivenSteps DEF Renew
<1>5. ASSUME NEW i \in RequestIds, Upload(i) PROVE MarkStep /\ NotLostStep
  BY <1>5, SaveSteps DEF Upload
<1>6. ASSUME NEW i \in RequestIds, Deactivate(i) PROVE MarkStep /\ NotLostStep
  BY <1>6, SyncedSteps DEF Deactivate, NotLostStep
<1>7. ASSUME NEW i \in RequestIds, NEW d \in {"yes", "no"}, Decide(i, d) PROVE MarkStep /\ NotLostStep
  BY <1>1, <1>7, SaveSteps DEF Decide
<1>8. ASSUME NEW i \in RequestIds, NEW s \in {"new", "in_review"}, SaveForm(i, s)
      PROVE  MarkStep /\ NotLostStep
  <2>1. Save([requests EXCEPT ![i] = [requests[i] EXCEPT !.status = s]], i)
    BY <1>8 DEF SaveForm
  <2>. QED
    BY <2>1, SaveSteps
<1>9. ASSUME NEW i \in RequestIds, NEW free \in BOOLEAN, Finalize(i, free) PROVE MarkStep /\ NotLostStep
  <2>1. \/ \E row : Save([requests EXCEPT ![i] = row], i)
        \/ \E rows : Synced(rows, Badged(badges, i))
    BY <1>9 DEF Finalize
  <2>2. Badged(badges, i) # {}
    BY DEF Badged
  <2>. QED
    BY <2>1, <2>2, SaveSteps, GivenSteps
<1>10. ASSUME NEW i \in RequestIds, NEW s \in {"unpaid", "paid"}, Pay(i, s) PROVE MarkStep /\ NotLostStep
  <2> DEFINE paid == [requests EXCEPT ![i].inv = s]
  <2>1. CASE s # "paid"
    <3>1. Save([paid EXCEPT ![i] = RevokedRow(@)], i)
      BY <1>10, <2>1 DEF Pay
    <3>2. PICK row : row = RevokedRow(paid[i])
      OBVIOUS
    <3>3. [paid EXCEPT ![i] = row] = [requests EXCEPT ![i] = row]
      BY DEF VerificationTypeOK
    <3>. QED
      BY <3>1, <3>2, <3>3, SaveSteps
  <2>2. CASE s = "paid" /\ Activates(paid, i)
    <3>1. \E rows : Synced(rows, Badged(badges, i))
      BY <1>10, <2>2 DEF Pay
    <3>2. Badged(badges, i) # {}
      BY DEF Badged
    <3>. QED
      BY <3>1, <3>2, GivenSteps
  <2>3. CASE s = "paid" /\ ~Activates(paid, i)
    BY <1>1, <1>10, <2>3 DEF Pay
  <2>. QED
    BY <2>1, <2>2, <2>3
<1>11. ASSUME NEW i \in RequestIds, PayUnheard(i) PROVE MarkStep /\ NotLostStep
  <2>1. Synced([requests EXCEPT ![i] = [requests[i] EXCEPT !.inv = "unpaid"]], badges \ {i})
    BY <1>11 DEF PayUnheard
  <2>. QED
    BY <2>1, SyncedSteps, OneRowSteps
<1>12. ASSUME NEW i \in RequestIds, ActivationUnheard(i) PROVE MarkStep /\ NotLostStep
  BY <1>1, <1>12 DEF ActivationUnheard
<1>13. CASE Apply \/ Kill \/ \E i \in RequestIds : OpenForm(i) \/ Lapse(i)
  BY <1>1, <1>13 DEF Apply, Kill, OpenForm, Lapse
<1>14. CASE UNCHANGED verificationVars
  BY <1>1, <1>14 DEF verificationVars
<1>. QED
  BY <1>2, <1>3, <1>4, <1>5, <1>6, <1>7, <1>8, <1>9, <1>10, <1>11, <1>12, <1>13, <1>14
     DEF VerificationNext

\* Whoever changes the badges brings the mark on the profile in line, but for
\* the job, which does so later; and what happens to other requests never
\* takes the last badge away.
THEOREM BadgesStepwise == VerificationSpec => BadgeSteps
<1>1. VerificationInv => VerificationTypeOK
  BY DEF VerificationInv
<1>2. VerificationTypeOK /\ [VerificationNext]_verificationVars => MarkStep /\ NotLostStep
  BY BadgeStep
<1>. QED
  BY <1>1, <1>2, VerificationInvariant, PTL
     DEF VerificationSpec, BadgeSteps, MarkSynced, BadgeNotLost, MarkStep, NotLostStep
================================================================================
