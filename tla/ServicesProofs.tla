----------------------------- MODULE ServicesProofs -----------------------------
(***************************************************************************)
(* The services around a request: what clients, providers and staff see    *)
(* is what it is, and no step takes back what stands.  Each service has a  *)
(* section as in MoneyProofs; the last section puts them together: a       *)
(* behaviour of the services is one of each of them, so what is proved of  *)
(* each holds of all.                                                      *)
(***************************************************************************)
EXTENDS MCServices, MoneyProofs, FiniteSetTheorems, WellFoundedInduction

\* A set of naturals that is not empty has a least member.
LEMMA LeastOf ==
  ASSUME NEW T \in SUBSET Nat, T # {}
  PROVE  \E m \in T : \A k \in T : m <= k
<1> DEFINE R == {ss \in Nat \X Nat : ss[1] < ss[2]}
<1>1. IsWellFoundedOn(R, Nat)
  BY NatLessThanWellFounded DEF OpToRel
<1>2. PICK m \in T : \A k \in T : <<k, m>> \notin R
  <2> HIDE DEF R
  <2>. QED
    BY <1>1, WFMin, Zenon
<1>3. ASSUME NEW k \in T PROVE m <= k
  <2>1. k \in Nat /\ m \in Nat /\ ~(k < m)
    BY <1>2
  <2>. QED
    BY <2>1
<1>. QED
  BY <1>3

\* A bounded one has a greatest.
LEMMA GreatestOf ==
  ASSUME NEW n \in Nat, NEW S \in SUBSET (0..n), S # {}
  PROVE  \E m \in S : \A k \in S : k <= m
<1> DEFINE T == {n - i : i \in S}
<1>1. n \in Nat /\ \A i \in S : i \in Nat /\ i <= n
  OBVIOUS
<1>a. \A i \in S : n - i \in Nat
  BY <1>1
<1>b. T \subseteq Nat
  BY <1>a, Zenon
<1>c. T # {}
  OBVIOUS
<1>2. T \in SUBSET Nat /\ T # {}
  BY <1>b, <1>c
<1>3. PICK m \in T : \A k \in T : m <= k
  <2> HIDE DEF T
  <2>. QED BY <1>2, LeastOf
<1>4. PICK i \in S : m = n - i
  BY <1>3
<1>5. ASSUME NEW j \in S PROVE j <= i
  <2>1. m <= n - j
    BY <1>3
  <2>. QED
    BY <1>1, <1>4, <2>1
<1>. QED
  BY <1>5

-----------------------------------------------------------------------------
(* Excellence: the awards *)

AwardRow ==
    [exists : BOOLEAN, active : BOOLEAN, lapsed : BOOLEAN, revoked : BOOLEAN,
     cand : {0} \cup Cycles]

CloserRow ==
    [step : {"idle", "read", "saved", "unsynced"}, award : {0} \cup Awards,
     cand : {0} \cup Cycles, approved : BOOLEAN]

OneActive ==
    /\ \A a, b \in Awards : awards[a].active /\ awards[b].active => a = b
    /\ \A a \in Awards : awards[a].active => awards[a].cand \in Cycles

\* What a closer relies on, unless an approval came or it took an award that
\* was over
CloserTrue(k) ==
    /\ closers[k].step = "read" => \A b \in Awards : awards[b].active => b = closers[k].award
    /\ closers[k].step = "saved" => \A b \in Awards : ~awards[b].active

ClosersTrue == renewedSince \/ staleRevoked \/ \A k \in Closers : CloserTrue(k)

\* The job has read an award that had lapsed
JobTrue ==
    renewedSince \/
    (closers["job"].step = "read" =>
        /\ closers["job"].award \in Awards
        /\ awards[closers["job"].award].lapsed)

ReadsAward == \A k \in Closers : closers[k].step = "read" => closers[k].award \in Awards

ExcellenceInv ==
    ExcellenceTypeOK /\ OneActive /\ ReadsAward /\ ClosersTrue /\ JobTrue /\ AwardBacked

-----------------------------------------------------------------------------
LEMMA ExcellenceTyped ==
  ASSUME ExcellenceTypeOK
  PROVE  /\ awards \in [Awards -> AwardRow] /\ closers \in [Closers -> CloserRow]
         /\ Nothing \in CloserRow
BY DEF ExcellenceTypeOK, AwardRow, CloserRow, Nothing

\* A step that leaves the awards and the closers, and no approved candidate
LEMMA AwardsAlone ==
  ASSUME ExcellenceInv, ExcellenceTypeOK',
         UNCHANGED <<awards, closers, renewedSince, staleRevoked>>,
         \A c \in Cycles : candidates[c] = "approved" => candidates'[c] = "approved"
  PROVE  ExcellenceInv'
<1>1. OneActive' /\ ReadsAward' /\ ClosersTrue' /\ JobTrue'
  BY DEF ExcellenceInv, OneActive, ReadsAward, ClosersTrue, CloserTrue, JobTrue
<1>2. AwardBacked'
  BY DEF ExcellenceInv, OneActive, AwardBacked, InForce
<1>. QED
  BY <1>1, <1>2 DEF ExcellenceInv

\* A closer that comes to an end
LEMMA CloserLets ==
  ASSUME ExcellenceInv, ExcellenceTypeOK', NEW k \in Closers,
         closers'[k].step \in {"idle", "unsynced"},
         \A j \in Closers \ {k} : closers'[j] = closers[j],
         UNCHANGED <<candidates, awards, renewedSince, staleRevoked>>
  PROVE  ExcellenceInv'
<1>1. OneActive' /\ AwardBacked'
  BY DEF ExcellenceInv, OneActive, AwardBacked, InForce
<1>2. ReadsAward' /\ ClosersTrue' /\ JobTrue'
  BY DEF ExcellenceInv, ReadsAward, ClosersTrue, CloserTrue, JobTrue, Closers
<1>. QED
  BY <1>1, <1>2 DEF ExcellenceInv

LEMMA ApproveKept ==
  ASSUME ExcellenceInv, NEW c \in Cycles, Approve(c)
  PROVE  ExcellenceInv'
<1>1. PICK a \in Awards :
        /\ \/ awards[a].active
           \/ ~\E b \in Awards : awards[b].active
        /\ awards' = [awards EXCEPT ![a] =
             [exists |-> TRUE, active |-> TRUE, lapsed |-> FALSE, revoked |-> FALSE, cand |-> c]]
  BY DEF Approve
<1>2. /\ candidates' = [candidates EXCEPT ![c] = "approved"]
      /\ closers' = closers /\ staleRevoked' = staleRevoked
      /\ UNCHANGED <<cycle, rebuilding>>
  BY DEF Approve
<1>3. renewedSince' = (renewedSince \/ \E k \in Closers : closers[k] # Nothing)
  BY DEF Approve
<1>4. /\ awards \in [Awards -> AwardRow]
      /\ candidates \in [Cycles -> {"none", "pending", "approved", "revoked", "expired"}]
      /\ awards'[a].active /\ awards'[a].cand = c
      /\ \A b \in Awards \ {a} : awards'[b] = awards[b] /\ ~awards[b].active
  BY <1>1, ExcellenceTyped DEF ExcellenceInv, OneActive, ExcellenceTypeOK
<1>5. OneActive'
  BY <1>4 DEF ExcellenceInv, OneActive
<1>6. renewedSince' \/ \A k \in Closers : closers[k].step = "idle"
  <2> SUFFICES ASSUME NEW k \in Closers, closers[k].step # "idle"
               PROVE  renewedSince'
    OBVIOUS
  <2>1. closers[k] # Nothing
    <3>1. Nothing.step = "idle"
      BY DEF Nothing
    <3>. QED
      BY <3>1
  <2>2. \E j \in Closers : closers[j] # Nothing
    BY <2>1
  <2>. QED
    BY <1>3, <2>2, Zenon
<1>7. ReadsAward' /\ ClosersTrue' /\ JobTrue'
  BY <1>2, <1>6 DEF ExcellenceInv, ReadsAward, ClosersTrue, CloserTrue, JobTrue, Closers
<1>8. AwardBacked'
  BY <1>2, <1>4 DEF AwardBacked, InForce
<1>9. ExcellenceTypeOK'
  <2>1. [exists |-> TRUE, active |-> TRUE, lapsed |-> FALSE, revoked |-> FALSE, cand |-> c] \in AwardRow
    BY DEF AwardRow
  <2>2. awards' \in [Awards -> AwardRow]
    BY <1>1, <1>4, <2>1
  <2>3. badgeCache' \in BOOLEAN
    BY DEF Approve, ExcellenceInv, ExcellenceTypeOK
  <2>4. renewedSince' \in BOOLEAN
    BY <1>3 DEF ExcellenceInv, ExcellenceTypeOK
  <2>. QED
    BY <1>2, <1>4, <2>2, <2>3, <2>4 DEF ExcellenceInv, ExcellenceTypeOK, AwardRow
<1>. QED
  BY <1>5, <1>7, <1>8, <1>9 DEF ExcellenceInv

LEMMA LapseKept ==
  ASSUME ExcellenceInv, NEW a \in Awards, Lapse(a)
  PROVE  ExcellenceInv'
<1>1. /\ awards' = [awards EXCEPT ![a].lapsed = TRUE] /\ awards \in [Awards -> AwardRow]
      /\ UNCHANGED <<candidates, cycle, badgeCache, closers, rebuilding, renewedSince, staleRevoked>>
  BY ExcellenceTyped DEF Lapse, ExcellenceInv
<1>2. [awards[a] EXCEPT !.lapsed = TRUE] \in AwardRow
  BY <1>1 DEF AwardRow
<1>3. awards' \in [Awards -> AwardRow]
  BY <1>1, <1>2
<1>4. \A b \in Awards :
        /\ awards'[b].active = awards[b].active /\ awards'[b].cand = awards[b].cand
        /\ awards'[b].revoked = awards[b].revoked
        /\ awards[b].lapsed => awards'[b].lapsed
  BY <1>1 DEF AwardRow
<1>5. ExcellenceTypeOK'
  BY <1>1, <1>3 DEF ExcellenceInv, ExcellenceTypeOK, AwardRow
<1>6. OneActive' /\ ReadsAward' /\ ClosersTrue' /\ JobTrue'
  BY <1>1, <1>4 DEF ExcellenceInv, OneActive, ReadsAward, ClosersTrue, CloserTrue, JobTrue
<1>7. AwardBacked'
  BY <1>1, <1>4 DEF ExcellenceInv, AwardBacked, InForce
<1>. QED
  BY <1>5, <1>6, <1>7 DEF ExcellenceInv

LEMMA ReadKept ==
  ASSUME ExcellenceInv, NEW k \in Closers, NEW a \in Awards, ReadAward(k, a)
  PROVE  ExcellenceInv'
<1> DEFINE row == [step |-> "read", award |-> a, cand |-> awards[a].cand,
                   approved |-> k = "job" /\ candidates[awards[a].cand] = "approved"]
<1>1. /\ closers' = [closers EXCEPT ![k] = row] /\ closers \in [Closers -> CloserRow]
      /\ awards \in [Awards -> AwardRow]
      /\ UNCHANGED <<candidates, cycle, awards, badgeCache, rebuilding, renewedSince>>
  BY ExcellenceTyped DEF ReadAward, ExcellenceInv
<1>2. /\ k = "job" => awards[a].active /\ awards[a].lapsed
      /\ staleRevoked' = (staleRevoked \/ (k = "staff" /\ ~awards[a].active))
  BY DEF ReadAward, ToExpire
<1>3. row \in CloserRow
  BY <1>1 DEF CloserRow, AwardRow
<1>4. closers' \in [Closers -> CloserRow] /\ closers'[k] = row
      /\ \A j \in Closers \ {k} : closers'[j] = closers[j]
  BY <1>1, <1>3
<1>5. ExcellenceTypeOK'
  BY <1>1, <1>2, <1>4 DEF ExcellenceInv, ExcellenceTypeOK, CloserRow
<1>6. OneActive' /\ ReadsAward' /\ JobTrue'
  BY <1>1, <1>2, <1>4 DEF ExcellenceInv, OneActive, ReadsAward, JobTrue, Closers
<1>7. ClosersTrue'
  <2>1. staleRevoked' \/ awards[a].active
    BY <1>2 DEF Closers
  <2>2. staleRevoked' \/ \A b \in Awards : awards[b].active => b = a
    BY <2>1 DEF ExcellenceInv, OneActive
  <2>3. staleRevoked => staleRevoked'
    BY <1>2
  <2>. QED
    BY <1>1, <1>4, <2>2, <2>3 DEF ExcellenceInv, ClosersTrue, CloserTrue
<1>8. AwardBacked'
  BY <1>1, <1>2 DEF ExcellenceInv, AwardBacked, InForce
<1>. QED
  BY <1>5, <1>6, <1>7, <1>8 DEF ExcellenceInv

LEMMA SaveKept ==
  ASSUME ExcellenceInv, NEW k \in Closers, SaveAward(k)
  PROVE  ExcellenceInv'
<1>1. PICK a \in Awards : a = closers[k].award
  BY DEF SaveAward, ExcellenceInv, ReadsAward
<1>2. /\ awards' = [awards EXCEPT ![a].active = FALSE, ![a].revoked = TRUE]
      /\ closers' = [closers EXCEPT ![k].step = "saved", ![k].award = 0]
      /\ closers[k].step = "read"
      /\ awards \in [Awards -> AwardRow] /\ closers \in [Closers -> CloserRow]
      /\ UNCHANGED <<candidates, cycle, badgeCache, rebuilding, renewedSince, staleRevoked>>
  BY <1>1, ExcellenceTyped DEF SaveAward, ExcellenceInv
<1>3. [awards[a] EXCEPT !.active = FALSE, !.revoked = TRUE] \in AwardRow
  BY <1>2 DEF AwardRow
<1>4. [closers[k] EXCEPT !.step = "saved", !.award = 0] \in CloserRow
  BY <1>2 DEF CloserRow
<1>5. /\ awards' \in [Awards -> AwardRow] /\ ~awards'[a].active
      /\ awards'[a].lapsed = awards[a].lapsed
      /\ \A b \in Awards \ {a} : awards'[b] = awards[b]
  BY <1>2, <1>3 DEF AwardRow
<1>6. /\ closers' \in [Closers -> CloserRow] /\ closers'[k].step = "saved"
      /\ \A j \in Closers \ {k} : closers'[j] = closers[j]
  BY <1>2, <1>4 DEF CloserRow
<1>7. ExcellenceTypeOK'
  BY <1>2, <1>5, <1>6 DEF ExcellenceInv, ExcellenceTypeOK, AwardRow, CloserRow
<1>8. OneActive' /\ ReadsAward' /\ JobTrue'
  BY <1>2, <1>5, <1>6 DEF ExcellenceInv, OneActive, ReadsAward, JobTrue, Closers
<1>9. ClosersTrue'
  <2>1. renewedSince \/ staleRevoked \/ \A b \in Awards : ~awards'[b].active
    BY <1>1, <1>2, <1>5 DEF ExcellenceInv, ClosersTrue, CloserTrue
  <2>. QED
    BY <1>2, <2>1 DEF ClosersTrue, CloserTrue
<1>10. AwardBacked'
  BY <1>2, <1>5 DEF ExcellenceInv, AwardBacked, InForce
<1>. QED
  BY <1>7, <1>8, <1>9, <1>10 DEF ExcellenceInv

LEMMA CandidateKept ==
  ASSUME ExcellenceInv, NEW k \in Closers, SaveCandidate(k)
  PROVE  ExcellenceInv'
<1>1. /\ closers[k].step = "saved"
      /\ closers' = [closers EXCEPT ![k] = [Nothing EXCEPT !.step = "unsynced"]]
      /\ closers \in [Closers -> CloserRow] /\ Nothing \in CloserRow
      /\ candidates \in [Cycles -> {"none", "pending", "approved", "revoked", "expired"}]
      /\ UNCHANGED <<cycle, awards, badgeCache, rebuilding, renewedSince, staleRevoked>>
  BY ExcellenceTyped DEF SaveCandidate, ExcellenceInv, ExcellenceTypeOK
<1>2. candidates' \in [Cycles -> {"none", "pending", "approved", "revoked", "expired"}]
  BY <1>1 DEF SaveCandidate, Closers
<1>3. [Nothing EXCEPT !.step = "unsynced"] \in CloserRow
  BY <1>1 DEF CloserRow, Nothing
<1>4. /\ closers' \in [Closers -> CloserRow] /\ closers'[k].step = "unsynced"
      /\ \A j \in Closers \ {k} : closers'[j] = closers[j]
  BY <1>1, <1>3 DEF Nothing
<1>5. ExcellenceTypeOK'
  BY <1>1, <1>2, <1>4 DEF ExcellenceInv, ExcellenceTypeOK, CloserRow
<1>6. OneActive' /\ ReadsAward' /\ ClosersTrue' /\ JobTrue'
  BY <1>1, <1>4
     DEF ExcellenceInv, OneActive, ReadsAward, ClosersTrue, CloserTrue, JobTrue, Closers
<1>7. AwardBacked'
  <2>1. renewedSince \/ staleRevoked \/ \A b \in Awards : ~awards[b].active
    BY <1>1 DEF ExcellenceInv, ClosersTrue, CloserTrue
  <2>. QED
    BY <1>1, <2>1 DEF AwardBacked, InForce
<1>. QED
  BY <1>5, <1>6, <1>7 DEF ExcellenceInv

-----------------------------------------------------------------------------
LEMMA ExcellenceInductive == ExcellenceInv /\ [ExcellenceNext]_excellenceVars => ExcellenceInv'
<1> SUFFICES ASSUME ExcellenceInv, [ExcellenceNext]_excellenceVars PROVE ExcellenceInv'
  OBVIOUS
<1>0. ExcellenceTypeOK
  BY DEF ExcellenceInv
<1>1. CASE NextCycle
  <2>1. ExcellenceTypeOK'
    BY <1>0, <1>1, ExcellenceAssumption DEF NextCycle, ExcellenceTypeOK, Cycles
  <2>. QED
    BY <1>1, <2>1, AwardsAlone DEF NextCycle
<1>2. CASE ReadBadge \/ WriteBadge
  <2>1. ExcellenceTypeOK'
    BY <1>0, <1>2 DEF ReadBadge, WriteBadge, Written, ExcellenceTypeOK
  <2>. QED
    BY <1>2, <2>1, AwardsAlone DEF ReadBadge, WriteBadge
<1>3. ASSUME NEW eligible \in BOOLEAN, RefreshCandidates(eligible) PROVE ExcellenceInv'
  <2>1. /\ Refreshed(candidates[cycle], eligible) \in {"none", "pending", "approved", "revoked", "expired"}
        /\ candidates[cycle] = "approved" => Refreshed(candidates[cycle], eligible) = "approved"
    BY <1>0 DEF Refreshed, ExcellenceTypeOK
  <2>2. /\ candidates' = [candidates EXCEPT ![cycle] = Refreshed(candidates[cycle], eligible)]
        /\ UNCHANGED <<cycle, awards, badgeCache, closers, rebuilding, renewedSince, staleRevoked>>
    BY <1>3 DEF RefreshCandidates
  <2>3. ExcellenceTypeOK' /\ \A c \in Cycles : candidates[c] = "approved" => candidates'[c] = "approved"
    BY <1>0, <2>1, <2>2 DEF ExcellenceTypeOK
  <2>. QED
    BY <2>2, <2>3, AwardsAlone
<1>4. ASSUME NEW c \in Cycles, Approve(c) PROVE ExcellenceInv'
  BY <1>4, ApproveKept
<1>5. ASSUME NEW a \in Awards, Lapse(a) PROVE ExcellenceInv'
  BY <1>5, LapseKept
<1>6. ASSUME NEW a \in Awards, NEW k \in Closers, ReadAward(k, a) PROVE ExcellenceInv'
  BY <1>6, ReadKept
<1>7. ASSUME NEW k \in Closers, SaveAward(k) PROVE ExcellenceInv'
  BY <1>7, SaveKept
<1>8. ASSUME NEW k \in Closers, SaveCandidate(k) PROVE ExcellenceInv'
  BY <1>8, CandidateKept
<1>9. ASSUME NEW k \in Closers, SyncBadge(k) \/ DieClosing(k) PROVE ExcellenceInv'
  <2>1. /\ closers' = [closers EXCEPT ![k] = Nothing] /\ badgeCache' \in BOOLEAN
        /\ UNCHANGED <<candidates, cycle, awards, rebuilding, renewedSince, staleRevoked>>
    BY <1>0, <1>9 DEF SyncBadge, DieClosing, Deserved, ExcellenceTypeOK
  <2>2. closers \in [Closers -> CloserRow] /\ Nothing \in CloserRow /\ Nothing.step = "idle"
    BY <1>0, ExcellenceTyped DEF Nothing
  <2>3. /\ closers' \in [Closers -> CloserRow] /\ closers'[k] = Nothing
        /\ \A j \in Closers \ {k} : closers'[j] = closers[j]
    BY <2>1, <2>2
  <2>4. ExcellenceTypeOK'
    BY <1>0, <2>1, <2>3 DEF ExcellenceTypeOK, CloserRow
  <2>. QED
    BY <2>1, <2>2, <2>3, <2>4, CloserLets
<1>10. CASE UNCHANGED excellenceVars
  <2>1. ExcellenceTypeOK' /\ UNCHANGED <<candidates, awards, closers, renewedSince, staleRevoked>>
    BY <1>0, <1>10 DEF excellenceVars, ExcellenceTypeOK
  <2>. QED
    BY <2>1, AwardsAlone
<1>. QED
  BY <1>1, <1>2, <1>3, <1>4, <1>5, <1>6, <1>7, <1>8, <1>9, <1>10 DEF ExcellenceNext

LEMMA ExcellenceStarts == ExcellenceInit => ExcellenceInv
<1> SUFFICES ASSUME ExcellenceInit PROVE ExcellenceInv
  OBVIOUS
<1>1. ExcellenceTypeOK
  <2>1. NoAwardRow \in AwardRow /\ Nothing \in CloserRow
    BY DEF NoAwardRow, AwardRow, Nothing, CloserRow
  <2>2. awards \in [Awards -> AwardRow] /\ closers \in [Closers -> CloserRow]
    BY <2>1 DEF ExcellenceInit
  <2>3. 1 \in Cycles
    BY ExcellenceAssumption DEF Cycles
  <2>4. candidates \in [Cycles -> {"none", "pending", "approved", "revoked", "expired"}]
    BY DEF ExcellenceInit
  <2>. QED
    BY <2>2, <2>3, <2>4 DEF ExcellenceInit, ExcellenceTypeOK, AwardRow, CloserRow
<1>2. \A a \in Awards : ~awards[a].active
  BY DEF ExcellenceInit, NoAwardRow
<1>3. \A k \in Closers : closers[k].step = "idle"
  BY DEF ExcellenceInit, Nothing
<1>. QED
  BY <1>1, <1>2, <1>3
     DEF ExcellenceInv, OneActive, ReadsAward, ClosersTrue, CloserTrue, JobTrue, AwardBacked, InForce,
         Closers

\* The award in force is of an approved candidate, for any number of cycles
\* and awards, through renewals, jobs and closers that die.
THEOREM AwardsBacked == ExcellenceSpec => [](ExcellenceTypeOK /\ AwardBacked)
<1>1. ExcellenceInv => ExcellenceTypeOK /\ AwardBacked
  BY DEF ExcellenceInv
<1>. QED
  BY <1>1, ExcellenceStarts, ExcellenceInductive, PTL DEF ExcellenceSpec

\* Nothing but a revocation by the staff ends an award that is in force: the
\* job has read one that had lapsed, and an approval since is told apart.
THEOREM AwardsStand == ExcellenceSpec => AwardStands
<1> DEFINE Stands ==
      renewedSince \/ \A a \in Awards : InForce(a) /\ ~awards'[a].active =>
          closers["staff"].step = "read" /\ closers["staff"].award = a
<1>1. ExcellenceInv /\ [ExcellenceNext]_excellenceVars => Stands
  <2> SUFFICES ASSUME ExcellenceInv, [ExcellenceNext]_excellenceVars, ~renewedSince,
                      NEW a \in Awards, InForce(a), ~awards'[a].active
               PROVE  closers["staff"].step = "read" /\ closers["staff"].award = a
    OBVIOUS
  <2>0. awards \in [Awards -> AwardRow]
    BY ExcellenceTyped DEF ExcellenceInv
  <2>1. ASSUME NEW c \in Cycles, Approve(c) PROVE FALSE
    BY <2>0, <2>1 DEF Approve, InForce, ExcellenceInv, OneActive
  <2>2. ASSUME NEW b \in Awards, Lapse(b) PROVE FALSE
    BY <2>0, <2>2 DEF Lapse, InForce, AwardRow
  <2>3. ASSUME NEW k \in Closers, SaveAward(k) PROVE k = "staff" /\ closers[k].award = a
    <3>1. closers[k].award \in Awards /\ closers[k].step = "read"
      BY <2>3 DEF SaveAward, ExcellenceInv, ReadsAward
    <3>2. closers[k].award = a
      BY <2>0, <2>3, <3>1 DEF SaveAward, InForce, AwardRow
    <3>3. k # "job"
      BY <3>1, <3>2 DEF ExcellenceInv, JobTrue, InForce
    <3>. QED
      BY <3>2, <3>3 DEF Closers
  <2>4. awards' # awards
    BY DEF InForce
  <2>5. \/ \E c \in Cycles : Approve(c)
        \/ \E b \in Awards : Lapse(b)
        \/ \E k \in Closers : SaveAward(k)
    BY <2>4 DEF ExcellenceNext, excellenceVars, NextCycle, ReadBadge, WriteBadge, RefreshCandidates,
                ReadAward, SaveCandidate, SyncBadge, DieClosing
  <2>. QED
    BY <2>1, <2>2, <2>3, <2>5 DEF SaveAward
<1>. QED
  BY <1>1, ExcellenceStarts, ExcellenceInductive, PTL DEF ExcellenceSpec, AwardStands

-----------------------------------------------------------------------------
(* Reviews: the rating and its mirror *)

EditorRow ==
    [step : {"idle", "opened", "saved", "read", "rated"},
     of : SUBSET ReviewIds, status : Statuses \cup {"none", "gone"},
     want : Statuses \cup {"none"}, seen : SUBSET ReviewIds]

\* An aggregate that was read and not written is still that of the reviews
ReadStillTrue ==
    ratingPassed \/ ratingLost \/
    \A e \in Editors : EditorAt(e, "read") => editors[e].seen = Counted

Holds(e, r) == r \in editors[e].of

\* Who works on a review works on no other, and it is or was there
HeldExists ==
    \A e \in Editors : \A r \in ReviewIds : Holds(e, r) =>
        /\ reviews[r] # "none"
        /\ \A q \in ReviewIds : Holds(e, q) => q = r

HeldByOne ==
    mirrorPassed \/
    \A e, f \in Editors : \A r \in ReviewIds : Holds(e, r) /\ Holds(f, r) => e = f

\* A moderator has chosen a status
WantGiven == \A e \in Editors : EditorAt(e, "opened") => editors[e].want \in Statuses

\* The copy of a process is the row, unless the row is gone
CopyTrue ==
    mirrorPassed \/
    \A e \in Editors : \A r \in ReviewIds :
        Holds(e, r) /\ reviews[r] \in Statuses => editors[e].status = reviews[r]

\* The mirror is true of a review that nobody has changed and not mirrored
MirrorTrue ==
    mirrorPassed \/ mirrorLost \/
    \A r \in ReviewIds :
        reviews[r] \in Statuses /\ (\A e \in Editors : Holds(e, r) => EditorAt(e, "opened")) =>
            (reviewMirror[r] = "closed" <=> reviews[r] # "approved")

MirrorInv == WantGiven /\ HeldExists /\ HeldByOne /\ CopyTrue /\ MirrorTrue

ReviewsInv == ReviewsTypeOK /\ RatingTrue /\ ReadStillTrue /\ MirrorInv

-----------------------------------------------------------------------------
LEMMA ReviewsTypeKept == ReviewsTypeOK /\ [ReviewsNext]_reviewVars => ReviewsTypeOK'
<1> SUFFICES ASSUME ReviewsTypeOK, [ReviewsNext]_reviewVars PROVE ReviewsTypeOK'
  OBVIOUS
<1> USE DEF ReviewsTypeOK, EditorAt
<1>0. NotEditing \in EditorRow
  BY DEF NotEditing, EditorRow
<1>1. ASSUME NEW e \in Editors, NEW r \in ReviewIds, NEW status \in Statuses \cup {"none", "gone"},
             Saved(e, r, status)
      PROVE  /\ reviews' \in [ReviewIds -> Statuses \cup {"none", "gone"}]
             /\ ratingPassed' \in BOOLEAN
  BY <1>1 DEF Saved
<1>2. ASSUME NEW e \in Editors, NEW row \in EditorRow, editors' = [editors EXCEPT ![e] = row]
      PROVE  editors' \in [Editors -> EditorRow]
  BY <1>2 DEF EditorRow
<1>11. ASSUME NEW e \in Editors, NEW r \in ReviewIds, CreateReview(e, r) PROVE ReviewsTypeOK'
  <2>1. NewStatus \in Statuses \cup {"none", "gone"}
    BY DEF NewStatus, Statuses
  <2>2. [NotEditing EXCEPT !.step = "saved", !.of = {r}, !.status = NewStatus] \in EditorRow
    BY <1>0, <2>1 DEF EditorRow, NotEditing
  <2>. QED
    BY <1>1, <1>2, <1>11, <2>1, <2>2 DEF CreateReview, EditorRow
<1>12. ASSUME NEW e \in Editors, NEW r \in ReviewIds, DeleteReview(e, r) PROVE ReviewsTypeOK'
  <2>1. [NotEditing EXCEPT !.step = "saved"] \in EditorRow
    BY <1>0 DEF EditorRow, NotEditing
  <2>. QED
    BY <1>1, <1>2, <1>12, <2>1 DEF DeleteReview, EditorRow
<1>13. ASSUME NEW e \in Editors, NEW r \in ReviewIds, NEW want \in Statuses, OpenReview(e, r, want)
      PROVE  ReviewsTypeOK'
  <2>1. [NotEditing EXCEPT !.step = "opened", !.of = {r}, !.status = reviews[r], !.want = want] \in EditorRow
    BY <1>0 DEF EditorRow, NotEditing
  <2>. QED
    BY <1>2, <1>13, <2>1 DEF OpenReview, EditorRow
<1>3. ASSUME NEW e \in Editors, NEW r \in ReviewIds, ModerateReview(e, r) PROVE ReviewsTypeOK'
  <2> DEFINE want == editors[e].want
             row == [NotEditing EXCEPT !.step = "saved", !.of = {r}, !.status = want]
             status == IF want = editors[e].status THEN reviews[r] ELSE want
  <2>1. want \in Statuses \cup {"none", "gone"} /\ reviews[r] \in Statuses \cup {"none", "gone"}
    OBVIOUS
  <2>2. row \in EditorRow
    BY <1>0, <2>1 DEF EditorRow, NotEditing
  <2>3. status \in Statuses \cup {"none", "gone"}
    BY <2>1
  <2>4. CASE reviews[r] = "gone"
    BY <1>0, <1>2, <1>3, <2>4 DEF ModerateReview, EditorRow
  <2>5. CASE reviews[r] # "gone"
    <3>1. Saved(e, r, status) /\ editors' = [editors EXCEPT ![e] = row]
      BY <1>3, <2>5 DEF ModerateReview
    <3>2. reviews' \in [ReviewIds -> Statuses \cup {"none", "gone"}] /\ ratingPassed' \in BOOLEAN
      BY <1>1, <2>3, <3>1
    <3>3. editors' \in [Editors -> EditorRow]
      BY <1>2, <2>2, <3>1
    <3>. QED
      BY <1>3, <3>2, <3>3 DEF ModerateReview, EditorRow
  <2>. QED
    BY <2>4, <2>5
<1>4. ASSUME NEW e \in Editors, ReadAggregate(e) PROVE ReviewsTypeOK'
  <2> DEFINE row == [editors[e] EXCEPT !.step = "read", !.seen = Counted]
  <2>1. Counted \subseteq ReviewIds
    BY DEF Counted
  <2>2. row \in EditorRow
    BY <2>1 DEF EditorRow
  <2>3. editors' = [editors EXCEPT ![e] = row]
    BY <1>4 DEF ReadAggregate
  <2>4. editors' \in [Editors -> EditorRow]
    BY <1>2, <2>2, <2>3
  <2>. QED
    BY <1>4, <2>4 DEF ReadAggregate, EditorRow
<1>5. ASSUME NEW e \in Editors, AfterRating(e)
      PROVE  editors' \in [Editors -> EditorRow]
  <2> DEFINE row == [editors[e] EXCEPT !.step = "rated", !.seen = {}]
  <2>1. row \in EditorRow
    BY DEF EditorRow
  <2>2. editors' = [editors EXCEPT ![e] = NotEditing] \/ editors' = [editors EXCEPT ![e] = row]
    BY <1>5 DEF AfterRating
  <2>. QED
    BY <1>0, <1>2, <2>1, <2>2
<1>6. ASSUME NEW e \in Editors, WriteRating(e) \/ FailRating(e) PROVE ReviewsTypeOK'
  BY <1>5, <1>6 DEF WriteRating, FailRating, RatedBy, EditorRow
<1>7. ASSUME NEW e \in Editors, DieEditing(e) PROVE ReviewsTypeOK'
  BY <1>0, <1>7 DEF DieEditing, EditorRow
<1>8. ASSUME NEW e \in Editors, NEW r \in ReviewIds, MirrorReview(e, r) PROVE ReviewsTypeOK'
  BY <1>0, <1>8 DEF MirrorReview, Mirrored, EditorRow
<1>9. CASE UNCHANGED reviewVars
  BY <1>9 DEF reviewVars
<1>. QED
  BY <1>3, <1>4, <1>6, <1>7, <1>8, <1>9, <1>11, <1>12, <1>13 DEF ReviewsNext

\* What every action keeps of the rating
LEMMA RatingKept ==
  ASSUME ReviewsTypeOK, RatingTrue, ReadStillTrue, [ReviewsNext]_reviewVars
  PROVE  RatingTrue' /\ ReadStillTrue'
<1> DEFINE Goal == RatingTrue /\ ReadStillTrue
<1> SUFFICES Goal'
  OBVIOUS
<1> USE DEF ReviewsTypeOK, RatingTrue, ReadStillTrue, NoRatingUnderWay, EditorAt, NotEditing
<1>1. ASSUME NEW e \in Editors, NEW r \in ReviewIds, NEW status, Saved(e, r, status),
             editors[e].step # "read",
             \A f \in Editors \ {e} : editors'[f] = editors[f],
             editors'[e].step = "saved", ratingLost' = ratingLost
      PROVE  Goal'
  <2>1. ratingPassed' \/ \A f \in Editors : editors'[f].step # "read"
    BY <1>1 DEF Saved
  <2>. QED
    BY <1>1, <2>1
<1>2. ASSUME NEW e \in Editors, NEW r \in ReviewIds, CreateReview(e, r) PROVE Goal'
  BY <1>1, <1>2 DEF CreateReview
<1>3. ASSUME NEW e \in Editors, NEW r \in ReviewIds, DeleteReview(e, r) PROVE Goal'
  BY <1>1, <1>3 DEF DeleteReview
<1>4. ASSUME NEW e \in Editors, NEW r \in ReviewIds, NEW want \in Statuses, OpenReview(e, r, want)
      PROVE  Goal'
  BY <1>4 DEF OpenReview, Counted
<1>5. ASSUME NEW e \in Editors, NEW r \in ReviewIds, ModerateReview(e, r) PROVE Goal'
  <2>1. CASE reviews[r] = "gone"
    BY <1>5, <2>1 DEF ModerateReview, Counted
  <2>2. CASE reviews[r] # "gone"
    BY <1>1, <1>5, <2>2 DEF ModerateReview
  <2>. QED
    BY <2>1, <2>2
<1>6. ASSUME NEW e \in Editors, ReadAggregate(e) PROVE Goal'
  BY <1>6 DEF ReadAggregate, Counted
<1>7. ASSUME NEW e \in Editors, AfterRating(e)
      PROVE  /\ \A f \in Editors \ {e} : editors'[f] = editors[f]
             /\ editors'[e].step \in {"idle", "rated"}
  BY <1>7 DEF AfterRating
<1>8. ASSUME NEW e \in Editors, WriteRating(e) PROVE Goal'
  BY <1>7, <1>8 DEF WriteRating, RatedBy, Counted
<1>9. ASSUME NEW e \in Editors, FailRating(e) PROVE Goal'
  BY <1>9 DEF FailRating
<1>10. ASSUME NEW e \in Editors, DieEditing(e) PROVE Goal'
  BY <1>10 DEF DieEditing, Counted
<1>11. ASSUME NEW e \in Editors, NEW r \in ReviewIds, MirrorReview(e, r) PROVE Goal'
  BY <1>11 DEF MirrorReview, Counted
<1>12. CASE UNCHANGED reviewVars
  BY <1>12 DEF reviewVars, Counted
<1>. QED
  BY <1>2, <1>3, <1>4, <1>5, <1>6, <1>8, <1>9, <1>10, <1>11, <1>12 DEF ReviewsNext

\* What every action keeps of the mirror: opening a review, changing it,
\* and letting it go
LEMMA MirrorKept ==
  ASSUME ReviewsTypeOK, MirrorInv, [ReviewsNext]_reviewVars
  PROVE  MirrorInv'
<1> USE DEF ReviewsTypeOK, EditorAt, NotEditing
<1>1. ASSUME NEW e \in Editors, NEW r \in ReviewIds, CreateReview(e, r) PROVE MirrorInv'
  <2>1. /\ reviews[r] = "none" /\ reviews' = [reviews EXCEPT ![r] = "approved"]
        /\ editors[e].of = {} /\ editors'[e].of = {r} /\ editors'[e].step = "saved"
        /\ editors'[e].status = "approved"
        /\ \A f \in Editors \ {e} : editors'[f] = editors[f]
        /\ UNCHANGED <<reviewMirror, mirrorPassed, mirrorLost>>
    BY <1>1 DEF CreateReview, Saved, NewStatus
  <2>2. \A f \in Editors : ~Holds(f, r)
    BY <2>1 DEF MirrorInv, HeldExists
  <2>3. \A f \in Editors : \A q \in ReviewIds : (Holds(f, q))' <=> Holds(f, q) \/ (f = e /\ q = r)
    BY <2>1 DEF Holds
  <2>4. WantGiven'
    BY <2>1 DEF MirrorInv, WantGiven
  <2>8. \A q \in ReviewIds : ~Holds(e, q)
    BY <2>1 DEF Holds
  <2>5. HeldExists' /\ HeldByOne'
    BY <2>1, <2>2, <2>3, <2>8 DEF MirrorInv, HeldExists, HeldByOne
  <2>6. CopyTrue'
    <3> SUFFICES ASSUME ~mirrorPassed, NEW f \in Editors, NEW q \in ReviewIds, (Holds(f, q))',
                        reviews'[q] \in Statuses
                 PROVE  editors'[f].status = reviews'[q]
      BY <2>1 DEF CopyTrue
    <3>1. CASE f = e /\ q = r
      BY <2>1, <3>1
    <3>2. CASE f # e /\ q # r
      BY <2>1, <2>3, <3>2 DEF MirrorInv, CopyTrue
    <3>3. Holds(f, q) => f # e /\ q # r
      BY <2>1, <2>2 DEF Holds
    <3>. QED
      BY <2>3, <3>1, <3>2, <3>3
  <2>7. MirrorTrue'
    BY <2>1, <2>2, <2>3 DEF MirrorInv, MirrorTrue
  <2>. QED
    BY <2>4, <2>5, <2>6, <2>7 DEF MirrorInv
<1>2. ASSUME NEW e \in Editors, NEW r \in ReviewIds, DeleteReview(e, r) PROVE MirrorInv'
  <2>1. /\ reviews' = [reviews EXCEPT ![r] = "gone"]
        /\ editors[e].of = {} /\ editors'[e].of = {} /\ editors'[e].step = "saved"
        /\ \A f \in Editors \ {e} : editors'[f] = editors[f]
        /\ UNCHANGED <<reviewMirror, mirrorPassed, mirrorLost>>
    BY <1>2 DEF DeleteReview, Saved
  <2>2. "gone" \notin Statuses
    BY DEF Statuses
  <2>3. \A f \in Editors : \A q \in ReviewIds : (Holds(f, q))' <=> Holds(f, q)
    BY <2>1 DEF Holds
  <2>4. \A f \in Editors : \A q \in ReviewIds : Holds(f, q) => f # e
    BY <2>1 DEF Holds
  <2>5. WantGiven' /\ HeldExists' /\ HeldByOne'
    BY <2>1, <2>3, <2>4 DEF MirrorInv, WantGiven, HeldExists, HeldByOne
  <2>6. CopyTrue'
    BY <2>1, <2>2, <2>3, <2>4 DEF MirrorInv, CopyTrue
  <2>7. MirrorTrue'
    <3> SUFFICES ASSUME ~mirrorPassed, ~mirrorLost, NEW q \in ReviewIds, reviews'[q] \in Statuses,
                        \A f \in Editors : (Holds(f, q))' => editors'[f].step = "opened"
                 PROVE  reviewMirror[q] = "closed" <=> reviews'[q] # "approved"
      BY <2>1 DEF MirrorTrue
    <3>1. q # r
      BY <2>1, <2>2
    <3>2. \A f \in Editors : Holds(f, q) => editors[f].step = "opened"
      BY <2>1, <2>3, <2>4
    <3>. QED
      BY <2>1, <3>1, <3>2 DEF MirrorInv, MirrorTrue
  <2>. QED
    BY <2>5, <2>6, <2>7 DEF MirrorInv
<1>3. ASSUME NEW e \in Editors, NEW r \in ReviewIds, NEW want \in Statuses, OpenReview(e, r, want)
      PROVE  MirrorInv'
  <2>1. /\ reviews[r] \in Statuses /\ reviews' = reviews
        /\ editors[e].of = {} /\ editors'[e].of = {r} /\ editors'[e].step = "opened"
        /\ editors'[e].status = reviews[r] /\ editors'[e].want = want
        /\ \A f \in Editors \ {e} : editors'[f] = editors[f]
        /\ UNCHANGED <<reviewMirror, mirrorLost>>
    BY <1>3 DEF OpenReview
  <2>6. mirrorPassed' = (mirrorPassed \/ \E f \in Editors : Holds(f, r))
    BY <1>3, Zenon DEF OpenReview, Holds
  <2>7. mirrorPassed' \/ (~mirrorPassed /\ \A f \in Editors : ~Holds(f, r))
    BY <2>6
  <2>2. \A f \in Editors : \A q \in ReviewIds : (Holds(f, q))' <=> Holds(f, q) \/ (f = e /\ q = r)
    BY <2>1 DEF Holds
  <2>3. WantGiven' /\ HeldExists'
    BY <2>1, <2>2 DEF MirrorInv, WantGiven, HeldExists, Statuses, Holds
  <2>4. HeldByOne'
    BY <2>2, <2>7 DEF MirrorInv, HeldByOne
  <2>5. CopyTrue'
    <3> SUFFICES ASSUME ~mirrorPassed, NEW f \in Editors, NEW q \in ReviewIds, (Holds(f, q))',
                        reviews'[q] \in Statuses
                 PROVE  editors'[f].status = reviews'[q]
      BY <2>7 DEF CopyTrue
    <3>1. CASE f = e
      BY <2>1, <3>1 DEF Holds
    <3>2. CASE f # e
      BY <2>1, <2>2, <3>2 DEF MirrorInv, CopyTrue
    <3>. QED
      BY <3>1, <3>2
  <2>8. MirrorTrue'
    <3> SUFFICES ASSUME ~mirrorPassed, ~mirrorLost, NEW q \in ReviewIds, reviews[q] \in Statuses,
                        \A f \in Editors : (Holds(f, q))' => editors'[f].step = "opened"
                 PROVE  reviewMirror[q] = "closed" <=> reviews[q] # "approved"
      BY <2>1, <2>7 DEF MirrorTrue
    <3>1. \A f \in Editors : Holds(f, q) => editors[f].step = "opened"
      BY <2>1, <2>2 DEF Holds
    <3>. QED
      BY <3>1 DEF MirrorInv, MirrorTrue
  <2>. QED
    BY <2>3, <2>4, <2>5, <2>8 DEF MirrorInv
<1>4. ASSUME NEW e \in Editors, NEW r \in ReviewIds, ModerateReview(e, r) PROVE MirrorInv'
  <2>0. /\ editors[e].step = "opened" /\ Holds(e, r) /\ editors[e].want \in Statuses
        /\ reviews[r] # "none"
    BY <1>4 DEF ModerateReview, Holds, MirrorInv, WantGiven, HeldExists
  <2>1. CASE reviews[r] = "gone"
    <3>1. /\ reviews' = reviews /\ editors'[e].of = {} /\ editors'[e].step = "idle"
          /\ \A f \in Editors \ {e} : editors'[f] = editors[f]
          /\ UNCHANGED <<reviewMirror, mirrorPassed, mirrorLost>>
      BY <1>4, <2>1 DEF ModerateReview
    <3>2. \A f \in Editors : \A q \in ReviewIds : (Holds(f, q))' <=> Holds(f, q) /\ f # e
      BY <3>1 DEF Holds
    <3>3. WantGiven' /\ HeldExists' /\ HeldByOne' /\ CopyTrue'
      BY <3>1, <3>2 DEF MirrorInv, WantGiven, HeldExists, HeldByOne, CopyTrue
    <3>4. MirrorTrue'
      BY <2>0, <3>1, <3>2 DEF MirrorInv, MirrorTrue
    <3>. QED
      BY <3>3, <3>4 DEF MirrorInv
  <2>2. CASE reviews[r] # "gone"
    <3> DEFINE want == editors[e].want
               status == IF want = editors[e].status THEN reviews[r] ELSE want
    <3>1. /\ reviews' = [reviews EXCEPT ![r] = status]
          /\ editors'[e].of = {r} /\ editors'[e].step = "saved" /\ editors'[e].status = want
          /\ \A f \in Editors \ {e} : editors'[f] = editors[f]
          /\ UNCHANGED <<reviewMirror, mirrorPassed, mirrorLost>>
      BY <1>4, <2>2 DEF ModerateReview, Saved
    <3>2. status \in Statuses /\ (mirrorPassed \/ status = want)
      BY <2>0, <2>2 DEF MirrorInv, CopyTrue
    <3>3. \A f \in Editors : \A q \in ReviewIds : (Holds(f, q))' => Holds(f, q)
      BY <2>0, <3>1 DEF Holds
    <3>4. (Holds(e, r))'
      BY <3>1 DEF Holds
    <3>5. WantGiven' /\ HeldExists' /\ HeldByOne'
      BY <3>1, <3>2, <3>3 DEF MirrorInv, WantGiven, HeldExists, HeldByOne, Statuses
    <3>6. CopyTrue'
      <4> SUFFICES ASSUME ~mirrorPassed, NEW f \in Editors, NEW q \in ReviewIds, (Holds(f, q))',
                          reviews'[q] \in Statuses
                   PROVE  editors'[f].status = reviews'[q]
        BY <3>1 DEF CopyTrue
      <4>1. CASE f = e
        BY <3>1, <3>2, <4>1 DEF Holds
      <4>2. CASE f # e
        <5>1. q # r
          BY <2>0, <3>3, <4>2 DEF MirrorInv, HeldByOne
        <5>. QED
          BY <3>1, <3>3, <4>2, <5>1 DEF MirrorInv, CopyTrue
      <4>. QED
        BY <4>1, <4>2
    <3>7. MirrorTrue'
      <4> SUFFICES ASSUME ~mirrorPassed, ~mirrorLost, NEW q \in ReviewIds, reviews'[q] \in Statuses,
                          \A f \in Editors : (Holds(f, q))' => editors'[f].step = "opened"
                   PROVE  reviewMirror'[q] = "closed" <=> reviews'[q] # "approved"
        BY <3>1 DEF MirrorTrue
      <4>1. q # r
        BY <3>1, <3>4
      <4>2. \A f \in Editors : Holds(f, q) => editors[f].step = "opened"
        BY <2>0, <3>1, <4>1 DEF Holds
      <4>. QED
        BY <3>1, <4>1, <4>2 DEF MirrorInv, MirrorTrue
    <3>. QED
      BY <3>5, <3>6, <3>7 DEF MirrorInv
  <2>. QED
    BY <2>1, <2>2
\* A step of the rating: the process goes on with the same review and copy
<1>5. ASSUME NEW e \in Editors,
             editors[e].step \in {"saved", "read"},
             editors'[e].of = editors[e].of, editors'[e].step # "opened",
             editors[e].of # {} => editors'[e].status = editors[e].status,
             \A f \in Editors \ {e} : editors'[f] = editors[f],
             UNCHANGED <<reviews, reviewMirror, mirrorPassed, mirrorLost>>
      PROVE  MirrorInv'
  BY <1>5 DEF MirrorInv, WantGiven, HeldExists, HeldByOne, CopyTrue, MirrorTrue, Holds
<1>6. ASSUME NEW e \in Editors, ReadAggregate(e) PROVE MirrorInv'
  BY <1>5, <1>6 DEF ReadAggregate
<1>7. ASSUME NEW e \in Editors, WriteRating(e) \/ FailRating(e) PROVE MirrorInv'
  <2>1. /\ editors[e].step \in {"saved", "read"}
        /\ UNCHANGED <<reviews, reviewMirror, mirrorPassed, mirrorLost>> /\ AfterRating(e)
    BY <1>7 DEF WriteRating, FailRating
  <2>2. /\ \A f \in Editors \ {e} : editors'[f] = editors[f]
        /\ editors'[e] = IF editors[e].of = {} THEN NotEditing
                         ELSE [editors[e] EXCEPT !.step = "rated", !.seen = {}]
    BY <2>1 DEF AfterRating
  <2>3. CASE editors[e].of = {}
    <3>1. editors'[e].of = editors[e].of /\ editors'[e].step # "opened"
      BY <2>2, <2>3
    <3>. QED
      BY <1>5, <2>1, <2>2, <2>3, <3>1
  <2>4. CASE editors[e].of # {}
    BY <1>5, <2>1, <2>2, <2>4
  <2>. QED
    BY <2>3, <2>4
<1>8. ASSUME NEW e \in Editors, DieEditing(e) PROVE MirrorInv'
  <2>1. /\ editors'[e].of = {} /\ editors'[e].step = "idle"
        /\ \A f \in Editors \ {e} : editors'[f] = editors[f]
        /\ mirrorLost' <=> mirrorLost \/ (editors[e].step # "opened" /\ editors[e].of # {})
        /\ UNCHANGED <<reviews, reviewMirror, mirrorPassed>>
    BY <1>8 DEF DieEditing
  <2>2. \A f \in Editors : \A q \in ReviewIds : (Holds(f, q))' <=> Holds(f, q) /\ f # e
    BY <2>1 DEF Holds
  <2>3. WantGiven' /\ HeldExists' /\ HeldByOne' /\ CopyTrue'
    BY <2>1, <2>2 DEF MirrorInv, WantGiven, HeldExists, HeldByOne, CopyTrue
  <2>4. MirrorTrue'
    <3>1. mirrorLost' \/ \A q \in ReviewIds : Holds(e, q) => editors[e].step = "opened"
      BY <2>1 DEF Holds
    <3>. QED
      BY <2>1, <2>2, <3>1 DEF MirrorInv, MirrorTrue
  <2>. QED
    BY <2>3, <2>4 DEF MirrorInv
<1>9. ASSUME NEW e \in Editors, NEW r \in ReviewIds, MirrorReview(e, r) PROVE MirrorInv'
  <2>1. /\ editors[e].step = "rated" /\ Holds(e, r)
        /\ reviewMirror' = [reviewMirror EXCEPT ![r] = Mirrored(editors[e].status)]
        /\ editors'[e].of = {} /\ editors'[e].step = "idle"
        /\ \A f \in Editors \ {e} : editors'[f] = editors[f]
        /\ UNCHANGED <<reviews, mirrorPassed, mirrorLost>>
    BY <1>9 DEF MirrorReview, Holds
  <2>2. \A f \in Editors : \A q \in ReviewIds : (Holds(f, q))' <=> Holds(f, q) /\ f # e
    BY <2>1 DEF Holds
  <2>3. WantGiven' /\ HeldExists' /\ HeldByOne' /\ CopyTrue'
    BY <2>1, <2>2 DEF MirrorInv, WantGiven, HeldExists, HeldByOne, CopyTrue
  <2>4. MirrorTrue'
    <3> SUFFICES ASSUME ~mirrorPassed, ~mirrorLost, NEW q \in ReviewIds, reviews'[q] \in Statuses,
                        \A f \in Editors : (Holds(f, q))' => editors'[f].step = "opened"
                 PROVE  reviewMirror'[q] = "closed" <=> reviews'[q] # "approved"
      BY <2>1 DEF MirrorTrue
    <3>1. CASE q = r
      <4>1. editors[e].status = reviews[r]
        BY <2>1, <3>1 DEF MirrorInv, CopyTrue
      <4>. QED
        BY <2>1, <3>1, <4>1 DEF Mirrored, Statuses
    <3>2. CASE q # r
      <4>1. \A f \in Editors : Holds(f, q) => editors[f].step = "opened"
        <5>1. ~Holds(e, q)
          BY <2>1, <3>2 DEF MirrorInv, HeldExists
        <5>. QED
          BY <2>1, <2>2, <5>1
      <4>. QED
        BY <2>1, <3>2, <4>1 DEF MirrorInv, MirrorTrue
    <3>. QED
      BY <3>1, <3>2
  <2>. QED
    BY <2>3, <2>4 DEF MirrorInv
<1>10. CASE UNCHANGED reviewVars
  BY <1>10 DEF reviewVars, MirrorInv, WantGiven, HeldExists, HeldByOne, CopyTrue, MirrorTrue, Holds
<1>. QED
  BY <1>1, <1>2, <1>3, <1>4, <1>6, <1>7, <1>8, <1>9, <1>10 DEF ReviewsNext

\* The rating is that of the approved reviews and the mirror tells which of
\* them show, for any number of reviews and processes, unless two of them
\* crossed or one was lost on the way.
THEOREM ReviewsCorrect == ReviewsSpec => [](ReviewsTypeOK /\ ReviewsSound)
<1>1. ReviewsInit => ReviewsInv
  <2> SUFFICES ASSUME ReviewsInit PROVE ReviewsInv
    OBVIOUS
  <2>1. ReviewsTypeOK
    BY DEF ReviewsInit, ReviewsTypeOK, NotEditing
  <2>2. RatingTrue /\ ReadStillTrue
    BY DEF ReviewsInit, RatingTrue, ReadStillTrue, Counted, EditorAt, NotEditing
  <2>3. MirrorInv
    BY DEF ReviewsInit, MirrorInv, WantGiven, HeldExists, HeldByOne, CopyTrue, MirrorTrue, Holds,
           EditorAt, NotEditing, Statuses
  <2>. QED
    BY <2>1, <2>2, <2>3 DEF ReviewsInv
<1>2. ReviewsInv /\ [ReviewsNext]_reviewVars => ReviewsInv'
  BY ReviewsTypeKept, RatingKept, MirrorKept DEF ReviewsInv
<1>3. ReviewsInv => ReviewsTypeOK /\ ReviewsSound
  <2> SUFFICES ASSUME ReviewsInv PROVE ReviewMirrored
    BY DEF ReviewsInv, ReviewsSound
  <2>. QED
    BY DEF ReviewsInv, MirrorInv, MirrorTrue, ReviewMirrored, Holds
<1>. QED
  BY <1>1, <1>2, <1>3, PTL DEF ReviewsSpec

-----------------------------------------------------------------------------
(* Support: the ticket, its log, its mirror and its case *)

DeskRow ==
    [step : {"idle", "assigning", "opened", "saved", "logged", "mirrored", "followed"},
     to : TicketStates, copy : Tickets, case : Cases]

PastSave == {"saved", "logged", "mirrored", "followed"}

\* The status an assignment leaves
StatusAssigned == IF ticket.status = "new" THEN "in_progress" ELSE ticket.status

\* What a request has read of the ticket is still so.
CopyTrueOf(d) ==
    /\ DeskAt(d, "assigning") => desks[d].copy.status = StatusAssigned
    /\ DeskAt(d, "opened") => desks[d].copy = ticket /\ desks[d].to \in TicketNext[ticket.status]
    /\ desks[d].step \in PastSave => desks[d].copy = ticket /\ desks[d].to = ticket.status

\* How far the log and the mirror have come
CarriedOut(d) ==
    /\ desks[d].step \in {"logged", "mirrored", "followed"} => ticketLog = ticket.status
    /\ desks[d].step \in {"mirrored", "followed"} => ticketMirror = ticket

CopiesTrue == ticketPassed \/ \A d \in Desks : CopyTrueOf(d)

TicketCarried ==
    ticketPassed \/ ticketLost \/
      /\ \A d \in Desks : CarriedOut(d)
      /\ (\A d \in Desks : desks[d].step \notin PastSave) =>
           ticketMirror = ticket /\ ticketLog = ticket.status

CaseCopiesTrue ==
    casePassed \/
      \A d \in Desks : desks[d].step \in {"assigning", "followed"} => desks[d].case = case

DeskInv == DeskTypeOK /\ CopiesTrue /\ TicketCarried /\ CaseCopiesTrue

DeskSteps ==
    /\ ticket.status = "closed" /\ ticket'.status # "closed" => ticketPassed'
    /\ (ticket' # ticket \/ desks' # desks) /\ case.status \in {"escalated", "decided"} =>
         case'.status = case.status \/ casePassed

LEMMA DeskTyped ==
  DeskTypeOK <=>
    /\ ticket \in Tickets /\ ticketMirror \in Tickets /\ ticketLog \in TicketStates
    /\ case \in Cases /\ desks \in [Desks -> DeskRow]
    /\ ticketPassed \in BOOLEAN /\ ticketLost \in BOOLEAN /\ casePassed \in BOOLEAN
  BY DEF DeskTypeOK, DeskRow

LEMMA DeskTypedNext ==
  DeskTypeOK' <=>
    /\ ticket' \in Tickets /\ ticketMirror' \in Tickets /\ ticketLog' \in TicketStates
    /\ case' \in Cases /\ desks' \in [Desks -> DeskRow]
    /\ ticketPassed' \in BOOLEAN /\ ticketLost' \in BOOLEAN /\ casePassed' \in BOOLEAN
  BY DEF DeskTypeOK, DeskRow

LEMMA TicketStatesAre ==
  /\ TicketStates = {"new", "in_progress", "returned", "closed"}
  /\ TicketNext["closed"] = {}
  /\ \A s \in TicketStates : TicketNext[s] \subseteq TicketStates
  BY DEF TicketStates, TicketNext

LEMMA NoDeskTyped == NoDesk \in DeskRow /\ NoDesk.step = "idle"
  BY TicketStatesAre DEF NoDesk, NewTicket, DeskRow, Tickets, Cases, Assignees

LEMMA DeskBecomes ==
  ASSUME desks \in [Desks -> DeskRow], NEW d \in Desks, NEW row \in DeskRow,
         desks' = [desks EXCEPT ![d] = row]
  PROVE  /\ desks' \in [Desks -> DeskRow] /\ desks'[d] = row
         /\ \A f \in Desks : f # d => desks'[f] = desks[f]
  OBVIOUS

\* The case that follows keeps its type, and a decision.
LEMMA FollowedCase ==
  ASSUME NEW c \in Cases, NEW t \in Tickets, case \in Cases
  PROVE  /\ CaseAfter(c, t) \in Cases
         /\ c = case /\ case.status \in {"escalated", "decided"} =>
              CaseAfter(c, t).status = case.status
<1> DEFINE s == IF c.assignee # t.assignee /\ c.status = "new" THEN "under_review" ELSE c.status
           assigned == [status |-> s, assignee |-> t.assignee]
           wanted == [new |-> "new", in_progress |-> "under_review", returned |-> "escalated"]
<1>1. assigned \in Cases /\ assigned.status = s
  BY DEF Cases, Tickets
<1>2. t.status # "closed" => wanted[t.status] \in {"new", "under_review", "escalated"}
  BY TicketStatesAre DEF Tickets
<1>3. /\ Followed(c, t) \in Cases
      /\ assigned.status \in {"escalated", "decided"} => Followed(c, t).status = assigned.status
  <2>1. CASE assigned.status \in {"escalated", "decided"} \/ t.status = "closed"
    BY <1>1, <2>1 DEF Followed
  <2>2. CASE ~(assigned.status \in {"escalated", "decided"} \/ t.status = "closed")
    <3>1. Followed(c, t) = [assigned EXCEPT !.status = wanted[t.status]]
      BY <2>2 DEF Followed
    <3>. QED
      BY <1>1, <1>2, <2>2, <3>1 DEF Cases
  <2>. QED
    BY <2>1, <2>2
<1>4. c.status \in {"escalated", "decided"} => Followed(c, t).status = c.status
  BY <1>1, <1>3
<1> HIDE DEF assigned, wanted, s
<1>. QED
  BY <1>3, <1>4 DEF CaseAfter, Cases

\* A step that leaves the ticket alone: what the others have read stays true.
LEMMA TicketKept ==
  ASSUME DeskInv, NEW d \in Desks, NEW row \in DeskRow, desks' = [desks EXCEPT ![d] = row],
         UNCHANGED <<ticket, ticketPassed>>,
         ~ticketPassed => CopyTrueOf(d)'
  PROVE  CopiesTrue'
<1>1. desks \in [Desks -> DeskRow]
  BY DeskTyped DEF DeskInv
<1>2. desks'[d] = row /\ \A f \in Desks : f # d => desks'[f] = desks[f]
  BY <1>1, DeskBecomes
<1>3. ASSUME ~ticketPassed, NEW f \in Desks PROVE CopyTrueOf(f)'
  <2>1. CASE f = d
    BY <1>3, <2>1
  <2>2. CASE f # d
    BY <1>2, <1>3, <2>2 DEF DeskInv, CopiesTrue, CopyTrueOf, DeskAt, StatusAssigned
  <2>. QED
    BY <2>1, <2>2
<1>. QED
  BY <1>3 DEF CopiesTrue

\* The case is left alone, or written and its readers passed.
LEMMA CaseKept ==
  ASSUME DeskInv, NEW d \in Desks, NEW row \in DeskRow, desks' = [desks EXCEPT ![d] = row],
         UNCHANGED <<case, casePassed>> \/ CaseWritten(Desks \ {d}),
         casePassed' \/ row.step \notin {"assigning", "followed"} \/ row.case = case'
  PROVE  CaseCopiesTrue' /\ casePassed' \in BOOLEAN
<1>1. desks \in [Desks -> DeskRow] /\ casePassed \in BOOLEAN
  BY DeskTyped DEF DeskInv
<1>2. desks'[d] = row /\ \A f \in Desks : f # d => desks'[f] = desks[f]
  BY <1>1, DeskBecomes
<1>3. ASSUME ~casePassed', NEW f \in Desks, desks'[f].step \in {"assigning", "followed"}
      PROVE  desks'[f].case = case'
  <2>1. CASE f = d
    BY <1>2, <1>3, <2>1
  <2>2. CASE f # d
    BY <1>2, <1>3, <2>2 DEF DeskInv, CaseCopiesTrue, CaseWritten
  <2>. QED
    BY <2>1, <2>2
<1>. QED
  BY <1>1, <1>3 DEF CaseCopiesTrue, CaseWritten

\* Who has the ticket to himself when he writes it
LEMMA TicketAlone ==
  ASSUME NEW d \in Desks, ticketPassed \in BOOLEAN, TicketWritten(d)
  PROVE  /\ ticketPassed' \in BOOLEAN
         /\ ~ticketPassed' => ~ticketPassed /\ \A f \in Desks : f # d => desks[f] = NoDesk
  BY DEF TicketWritten

LEMMA StartAssignKept ==
  ASSUME DeskInv, NEW d \in Desks, NEW who \in Assignees, StartAssign(d, who)
  PROVE  DeskInv' /\ DeskSteps
<1> DEFINE copy == [status |-> StatusAssigned,
                    assignee |-> IF who = Unassigned THEN ticket.assignee ELSE who]
           row == [NoDesk EXCEPT !.step = "assigning", !.case = case, !.copy = copy]
<1>1. ticket \in Tickets /\ case \in Cases /\ desks \in [Desks -> DeskRow]
  BY DeskTyped DEF DeskInv
<1>2. /\ desks' = [desks EXCEPT ![d] = row] /\ desks[d] = NoDesk
      /\ UNCHANGED <<ticket, ticketLog, ticketMirror, case, ticketPassed, ticketLost, casePassed>>
  BY DEF StartAssign, StatusAssigned
<1>3. copy \in Tickets /\ copy.status = StatusAssigned
  BY <1>1, TicketStatesAre DEF StatusAssigned, Tickets, Assignees
<1> HIDE DEF copy
<1>4. row \in DeskRow /\ row.step = "assigning" /\ row.case = case /\ row.copy = copy
  BY <1>1, <1>3, NoDeskTyped DEF DeskRow
<1> HIDE DEF row
<1>5. /\ desks' \in [Desks -> DeskRow] /\ desks'[d] = row
      /\ \A f \in Desks : f # d => desks'[f] = desks[f]
  BY <1>1, <1>2, <1>4, DeskBecomes
<1>6. DeskTypeOK'
  BY <1>2, <1>5, DeskTyped, DeskTypedNext DEF DeskInv
<1>7. CopyTrueOf(d)'
  BY <1>2, <1>3, <1>4, <1>5 DEF CopyTrueOf, DeskAt, StatusAssigned, PastSave
<1>8. CopiesTrue'
  BY <1>2, <1>4, <1>7, TicketKept
<1>9. CaseCopiesTrue'
  BY <1>2, <1>4, CaseKept
<1>10. TicketCarried'
  <2>1. \A f \in Desks : CarriedOut(f) => CarriedOut(f)'
    BY <1>2, <1>4, <1>5 DEF CarriedOut
  <2>2. (\A f \in Desks : desks'[f].step \notin PastSave) => \A f \in Desks : desks[f].step \notin PastSave
    BY <1>2, <1>5, NoDeskTyped DEF PastSave
  <2>. QED
    BY <1>2, <2>1, <2>2 DEF DeskInv, TicketCarried
<1>. QED
  BY <1>2, <1>6, <1>8, <1>9, <1>10 DEF DeskInv, DeskSteps

LEMMA OpenTicketKept ==
  ASSUME DeskInv, NEW d \in Desks, NEW to \in TicketStates, OpenTicket(d, to)
  PROVE  DeskInv' /\ DeskSteps
<1> DEFINE row == [NoDesk EXCEPT !.step = "opened", !.to = to, !.copy = ticket]
<1>1. ticket \in Tickets /\ case \in Cases /\ desks \in [Desks -> DeskRow]
  BY DeskTyped DEF DeskInv
<1>2. /\ desks' = [desks EXCEPT ![d] = row] /\ desks[d] = NoDesk /\ to \in TicketNext[ticket.status]
      /\ UNCHANGED <<ticket, ticketLog, ticketMirror, case, ticketPassed, ticketLost, casePassed>>
  BY DEF OpenTicket
<1>3. row \in DeskRow /\ row.step = "opened" /\ row.to = to /\ row.copy = ticket
  BY <1>1, NoDeskTyped DEF DeskRow
<1> HIDE DEF row
<1>4. /\ desks' \in [Desks -> DeskRow] /\ desks'[d] = row
      /\ \A f \in Desks : f # d => desks'[f] = desks[f]
  BY <1>1, <1>2, <1>3, DeskBecomes
<1>5. DeskTypeOK'
  BY <1>2, <1>4, DeskTyped, DeskTypedNext DEF DeskInv
<1>6. CopyTrueOf(d)'
  BY <1>2, <1>3, <1>4 DEF CopyTrueOf, DeskAt, PastSave
<1>7. CopiesTrue'
  BY <1>2, <1>3, <1>6, TicketKept
<1>8. CaseCopiesTrue'
  BY <1>2, <1>3, CaseKept
<1>9. TicketCarried'
  <2>1. \A f \in Desks : CarriedOut(f) => CarriedOut(f)'
    BY <1>2, <1>3, <1>4 DEF CarriedOut
  <2>2. (\A f \in Desks : desks'[f].step \notin PastSave) => \A f \in Desks : desks[f].step \notin PastSave
    BY <1>2, <1>4, NoDeskTyped DEF PastSave
  <2>. QED
    BY <1>2, <2>1, <2>2 DEF DeskInv, TicketCarried
<1>. QED
  BY <1>2, <1>5, <1>7, <1>8, <1>9 DEF DeskInv, DeskSteps

\* The assignment is written at once: with nobody else at the ticket, its log
\* and its mirror are complete after it as before it.
LEMMA CommitAssignKept ==
  ASSUME DeskInv, NEW d \in Desks, CommitAssign(d)
  PROVE  DeskInv' /\ DeskSteps
<1> DEFINE mine == desks[d].copy
<1>1. /\ ticket \in Tickets /\ case \in Cases /\ desks \in [Desks -> DeskRow]
      /\ ticketLog \in TicketStates /\ ticketPassed \in BOOLEAN /\ ticketLost \in BOOLEAN
      /\ mine \in Tickets /\ desks[d].case \in Cases
  BY DeskTyped DEF DeskInv, DeskRow
<1>2. /\ DeskAt(d, "assigning") /\ ticket' = mine /\ ticketMirror' = mine
      /\ ticketLog' = IF ticket.status = mine.status THEN ticketLog ELSE mine.status
      /\ case' = CaseAfter(desks[d].case, mine)
      /\ desks' = [desks EXCEPT ![d] = NoDesk]
      /\ TicketWritten(d) /\ CaseWritten(Desks \ {d}) /\ UNCHANGED ticketLost
  BY DEF CommitAssign
<1> HIDE DEF mine
<1>3. /\ desks' \in [Desks -> DeskRow] /\ desks'[d] = NoDesk
      /\ \A f \in Desks : f # d => desks'[f] = desks[f]
  BY <1>1, <1>2, NoDeskTyped, DeskBecomes
<1>4. /\ ticketPassed' \in BOOLEAN
      /\ ~ticketPassed' => ~ticketPassed /\ \A f \in Desks : f # d => desks[f] = NoDesk
  BY <1>1, <1>2, TicketAlone
<1>5. /\ case' \in Cases
      /\ desks[d].case = case /\ case.status \in {"escalated", "decided"} => case'.status = case.status
  BY <1>1, <1>2, FollowedCase
<1>6. CaseCopiesTrue' /\ casePassed' \in BOOLEAN
  BY <1>2, NoDeskTyped, CaseKept
<1>7. ticketLog' \in TicketStates
  BY <1>1, <1>2 DEF Tickets
<1>8. DeskTypeOK'
  BY <1>1, <1>2, <1>3, <1>4, <1>5, <1>6, <1>7, DeskTypedNext
<1>9. ~ticketPassed' => \A f \in Desks : desks'[f].step = "idle"
  BY <1>3, <1>4, NoDeskTyped
<1>10. CopiesTrue'
  BY <1>9 DEF CopiesTrue, CopyTrueOf, DeskAt, PastSave
<1>11. TicketCarried'
  <2>1. ASSUME ~ticketPassed', ~ticketLost
        PROVE  ticketLog = ticket.status
    <3>1. \A f \in Desks : desks[f].step \notin PastSave
      BY <1>2, <1>4, <2>1, NoDeskTyped DEF PastSave, DeskAt
    <3>. QED
      BY <1>4, <2>1, <3>1 DEF DeskInv, TicketCarried
  <2>2. ~ticketPassed' /\ ~ticketLost => ticketLog' = ticket'.status /\ ticketMirror' = ticket'
    BY <1>2, <2>1
  <2>. QED
    BY <1>2, <1>9, <2>2 DEF TicketCarried, CarriedOut
<1>12. ASSUME ~ticketPassed', ticket.status = "closed" PROVE ticket'.status = "closed"
  <2>1. CopyTrueOf(d)
    BY <1>4, <1>12 DEF DeskInv, CopiesTrue
  <2>. QED
    BY <1>2, <1>12, <2>1 DEF CopyTrueOf, StatusAssigned, mine
<1>13. casePassed \/ desks[d].case = case
  BY <1>2 DEF DeskInv, CaseCopiesTrue, DeskAt
<1>. QED
  BY <1>5, <1>6, <1>8, <1>10, <1>11, <1>12, <1>13 DEF DeskInv, DeskSteps

\* The status that is saved may follow the one it replaces.
LEMMA SaveTicketKept ==
  ASSUME DeskInv, NEW d \in Desks, SaveTicket(d)
  PROVE  DeskInv' /\ DeskSteps
<1> DEFINE to == desks[d].to
           row == [desks[d] EXCEPT !.step = "saved", !.copy.status = to]
<1>1. /\ ticket \in Tickets /\ desks \in [Desks -> DeskRow] /\ desks[d] \in DeskRow
      /\ ticketPassed \in BOOLEAN /\ desks[d].copy \in Tickets /\ to \in TicketStates
  BY DeskTyped DEF DeskInv, DeskRow
<1>2. /\ DeskAt(d, "opened") /\ ticket' = [ticket EXCEPT !.status = to]
      /\ desks' = [desks EXCEPT ![d].step = "saved", ![d].copy.status = to]
      /\ TicketWritten(d)
      /\ UNCHANGED <<ticketLog, ticketMirror, case, ticketLost, casePassed>>
  BY DEF SaveTicket
<1>3. desks' = [desks EXCEPT ![d] = row]
  BY <1>1, <1>2
<1> HIDE DEF to
<1>4. /\ row \in DeskRow /\ row.step = "saved" /\ row.to = desks[d].to
      /\ row.copy = [desks[d].copy EXCEPT !.status = to]
  BY <1>1 DEF DeskRow, Tickets
<1> HIDE DEF row
<1>5. /\ desks' \in [Desks -> DeskRow] /\ desks'[d] = row
      /\ \A f \in Desks : f # d => desks'[f] = desks[f]
  BY <1>1, <1>3, <1>4, DeskBecomes
<1>6. /\ ticketPassed' \in BOOLEAN
      /\ ~ticketPassed' => ~ticketPassed /\ \A f \in Desks : f # d => desks[f] = NoDesk
  BY <1>1, <1>2, TicketAlone
<1>7. ticket' \in Tickets /\ ticket'.status = to
  BY <1>1, <1>2 DEF Tickets
<1>8. DeskTypeOK'
  BY <1>2, <1>5, <1>6, <1>7, DeskTyped, DeskTypedNext DEF DeskInv
<1>9. ~ticketPassed' => desks[d].copy = ticket /\ to \in TicketNext[ticket.status]
  BY <1>2, <1>6 DEF DeskInv, CopiesTrue, CopyTrueOf, to
<1>10. ~ticketPassed' => \A f \in Desks : f # d => desks'[f].step = "idle"
  BY <1>5, <1>6, NoDeskTyped
<1>11. CopiesTrue'
  <2>1. ~ticketPassed' => CopyTrueOf(d)'
    BY <1>2, <1>4, <1>5, <1>7, <1>9 DEF CopyTrueOf, DeskAt, PastSave, to
  <2>2. ~ticketPassed' => \A f \in Desks : f # d => CopyTrueOf(f)'
    BY <1>10 DEF CopyTrueOf, DeskAt, PastSave
  <2>. QED
    BY <2>1, <2>2 DEF CopiesTrue
<1>12. TicketCarried'
  <2>1. ~ticketPassed' => \A f \in Desks : CarriedOut(f)'
    BY <1>4, <1>5, <1>10 DEF CarriedOut
  <2>2. desks'[d].step \in PastSave
    BY <1>4, <1>5 DEF PastSave
  <2>. QED
    BY <2>1, <2>2 DEF TicketCarried
<1>13. CaseCopiesTrue'
  BY <1>2, <1>3, <1>4, CaseKept
<1>14. ~ticketPassed' => ticket.status # "closed"
  BY <1>9, TicketStatesAre
<1>. QED
  BY <1>2, <1>8, <1>11, <1>12, <1>13, <1>14 DEF DeskInv, DeskSteps

\* The log, the mirror and the reading of the case, one after the other
LEMMA CarryOnKept ==
  ASSUME DeskInv, NEW d \in Desks, LogTicket(d) \/ MirrorTicket(d) \/ ReadCase(d)
  PROVE  DeskInv' /\ DeskSteps
<1>1. /\ ticket \in Tickets /\ desks \in [Desks -> DeskRow] /\ desks[d] \in DeskRow /\ case \in Cases
      /\ ticketLog \in TicketStates /\ ticketMirror \in Tickets
      /\ desks[d].copy \in Tickets /\ desks[d].to \in TicketStates
  BY DeskTyped DEF DeskInv, DeskRow
<1>2. UNCHANGED <<ticket, case, ticketPassed, ticketLost, casePassed>>
  BY DEF LogTicket, MirrorTicket, ReadCase
<1>3. PICK s \in {"logged", "mirrored", "followed"}, c \in Cases :
        /\ desks' = [desks EXCEPT ![d] = [desks[d] EXCEPT !.step = s, !.case = c]]
        /\ s = "logged" => desks[d].step = "saved" /\ ticketLog' = desks[d].to /\ ticketMirror' = ticketMirror
        /\ s = "mirrored" => desks[d].step = "logged" /\ ticketMirror' = desks[d].copy /\ ticketLog' = ticketLog
        /\ s = "followed" => /\ desks[d].step = "mirrored" /\ c = case
                             /\ UNCHANGED <<ticketLog, ticketMirror>>
  <2>1. desks[d].case \in Cases
    BY <1>1 DEF DeskRow
  <2>2. CASE LogTicket(d)
    <3>1. desks' = [desks EXCEPT ![d] = [desks[d] EXCEPT !.step = "logged", !.case = desks[d].case]]
      BY <1>1, <2>2 DEF LogTicket, DeskRow
    <3>. QED
      BY <2>1, <2>2, <3>1 DEF LogTicket, DeskAt
  <2>3. CASE MirrorTicket(d)
    <3>1. desks' = [desks EXCEPT ![d] = [desks[d] EXCEPT !.step = "mirrored", !.case = desks[d].case]]
      BY <1>1, <2>3 DEF MirrorTicket, DeskRow
    <3>. QED
      BY <2>1, <2>3, <3>1 DEF MirrorTicket, MirroredTicket, DeskAt
  <2>4. CASE ReadCase(d)
    <3>1. desks' = [desks EXCEPT ![d] = [desks[d] EXCEPT !.step = "followed", !.case = case]]
      BY <1>1, <2>4 DEF ReadCase, DeskRow
    <3>. QED
      BY <1>1, <2>4, <3>1 DEF ReadCase, DeskAt
  <2>. QED
    BY <2>2, <2>3, <2>4
<1> DEFINE row == [desks[d] EXCEPT !.step = s, !.case = c]
<1>4. /\ row \in DeskRow /\ row.step = s /\ row.case = c
      /\ row.copy = desks[d].copy /\ row.to = desks[d].to
  BY <1>1 DEF DeskRow
<1>5. desks' = [desks EXCEPT ![d] = row]
  BY <1>3
<1> HIDE DEF row
<1>6. /\ desks' \in [Desks -> DeskRow] /\ desks'[d] = row
      /\ \A f \in Desks : f # d => desks'[f] = desks[f]
  BY <1>1, <1>4, <1>5, DeskBecomes
<1>7. ticketLog' \in TicketStates /\ ticketMirror' \in Tickets
  BY <1>1, <1>3
<1>8. DeskTypeOK'
  BY <1>2, <1>6, <1>7, DeskTyped, DeskTypedNext DEF DeskInv
<1>9. desks[d].step \in PastSave
  BY <1>3 DEF PastSave
<1>10. ~ticketPassed => desks[d].copy = ticket /\ desks[d].to = ticket.status
  BY <1>9 DEF DeskInv, CopiesTrue, CopyTrueOf
<1>11. ~ticketPassed => CopyTrueOf(d)'
  BY <1>2, <1>4, <1>6, <1>10 DEF CopyTrueOf, DeskAt
<1>12. CopiesTrue'
  BY <1>2, <1>4, <1>5, <1>11, TicketKept
<1>13. CaseCopiesTrue'
  BY <1>2, <1>3, <1>4, <1>5, CaseKept
<1>14. TicketCarried'
  <2>1. ASSUME ~ticketPassed, ~ticketLost, NEW f \in Desks PROVE CarriedOut(f)'
    <3>1. CarriedOut(f) /\ CarriedOut(d)
      BY <2>1 DEF DeskInv, TicketCarried
    <3>2. /\ ticketLog' = ticketLog \/ ticketLog' = ticket.status
          /\ ticketMirror' = ticketMirror \/ ticketMirror' = ticket
      BY <1>3, <1>10, <2>1
    <3>3. CASE f # d
      BY <1>2, <1>6, <3>1, <3>2, <3>3 DEF CarriedOut
    <3>4. CASE f = d
      BY <1>2, <1>3, <1>4, <1>6, <1>10, <2>1, <3>1, <3>4 DEF CarriedOut
    <3>. QED
      BY <3>3, <3>4
  <2>2. desks'[d].step \in PastSave
    BY <1>4, <1>6 DEF PastSave
  <2>. QED
    BY <1>2, <2>1, <2>2 DEF TicketCarried
<1>. QED
  BY <1>2, <1>8, <1>12, <1>13, <1>14 DEF DeskInv, DeskSteps

\* A request that is done has logged and mirrored the ticket.
LEMMA WriteCaseKept ==
  ASSUME DeskInv, NEW d \in Desks, WriteCase(d)
  PROVE  DeskInv' /\ DeskSteps
<1>1. /\ desks \in [Desks -> DeskRow] /\ case \in Cases
      /\ desks[d].copy \in Tickets /\ desks[d].case \in Cases
  BY DeskTyped DEF DeskInv, DeskRow
<1>2. /\ desks[d].step = "followed" /\ case' = CaseAfter(desks[d].case, desks[d].copy)
      /\ desks' = [desks EXCEPT ![d] = NoDesk] /\ CaseWritten(Desks \ {d})
      /\ UNCHANGED <<ticket, ticketLog, ticketMirror, ticketPassed, ticketLost>>
  BY DEF WriteCase, DeskAt
<1>3. /\ desks' \in [Desks -> DeskRow] /\ desks'[d] = NoDesk
      /\ \A f \in Desks : f # d => desks'[f] = desks[f]
  BY <1>1, <1>2, NoDeskTyped, DeskBecomes
<1>4. /\ case' \in Cases
      /\ desks[d].case = case /\ case.status \in {"escalated", "decided"} => case'.status = case.status
  BY <1>1, <1>2, FollowedCase
<1>5. CaseCopiesTrue' /\ casePassed' \in BOOLEAN
  BY <1>2, NoDeskTyped, CaseKept
<1>6. DeskTypeOK'
  BY <1>2, <1>3, <1>4, <1>5, DeskTyped, DeskTypedNext DEF DeskInv
<1>7. CopyTrueOf(d)'
  BY <1>3, NoDeskTyped DEF CopyTrueOf, DeskAt, PastSave
<1>8. CopiesTrue'
  BY <1>2, <1>7, NoDeskTyped, TicketKept
<1>9. TicketCarried'
  <2>1. ASSUME ~ticketPassed, ~ticketLost
        PROVE  /\ ticketMirror = ticket /\ ticketLog = ticket.status
               /\ \A f \in Desks : CarriedOut(f)'
    <3>1. \A f \in Desks : CarriedOut(f)
      BY <2>1 DEF DeskInv, TicketCarried
    <3>2. ticketMirror = ticket /\ ticketLog = ticket.status
      BY <1>2, <3>1 DEF CarriedOut
    <3>. QED
      BY <1>2, <3>2 DEF CarriedOut
  <2>. QED
    BY <1>2, <2>1 DEF TicketCarried
<1>10. casePassed \/ desks[d].case = case
  BY <1>2 DEF DeskInv, CaseCopiesTrue
<1>. QED
  BY <1>2, <1>4, <1>5, <1>6, <1>8, <1>9, <1>10 DEF DeskInv, DeskSteps

LEMMA LeaveDeskKept ==
  ASSUME DeskInv, NEW d \in Desks, LeaveDesk(d)
  PROVE  DeskInv' /\ DeskSteps
<1>1. desks \in [Desks -> DeskRow] /\ ticketLost \in BOOLEAN /\ desks[d] \in DeskRow
  BY DeskTyped DEF DeskInv
<1>2. /\ desks' = [desks EXCEPT ![d] = NoDesk]
      /\ ticketLost' = (ticketLost \/ desks[d].step \notin {"assigning", "opened"})
      /\ UNCHANGED <<ticket, ticketLog, ticketMirror, case, ticketPassed, casePassed>>
  BY DEF LeaveDesk
<1>3. /\ desks' \in [Desks -> DeskRow] /\ desks'[d] = NoDesk
      /\ \A f \in Desks : f # d => desks'[f] = desks[f]
  BY <1>1, <1>2, NoDeskTyped, DeskBecomes
<1>4. DeskTypeOK'
  BY <1>1, <1>2, <1>3, DeskTyped, DeskTypedNext DEF DeskInv
<1>5. CopyTrueOf(d)'
  BY <1>3, NoDeskTyped DEF CopyTrueOf, DeskAt, PastSave
<1>6. CopiesTrue'
  BY <1>2, <1>5, NoDeskTyped, TicketKept
<1>7. CaseCopiesTrue'
  BY <1>2, NoDeskTyped, CaseKept
<1>8. TicketCarried'
  <2>1. ASSUME ~ticketPassed, ~ticketLost'
        PROVE  /\ \A f \in Desks : CarriedOut(f)'
               /\ (\A f \in Desks : desks'[f].step \notin PastSave) =>
                    ticketMirror = ticket /\ ticketLog = ticket.status
    <3>1. ~ticketLost /\ desks[d].step \notin PastSave
      BY <1>1, <1>2, <2>1 DEF PastSave
    <3>2. /\ \A f \in Desks : CarriedOut(f)
          /\ (\A f \in Desks : desks[f].step \notin PastSave) =>
               ticketMirror = ticket /\ ticketLog = ticket.status
      BY <2>1, <3>1 DEF DeskInv, TicketCarried
    <3>3. \A f \in Desks : CarriedOut(f)'
      BY <1>2, <1>3, <3>2, NoDeskTyped DEF CarriedOut
    <3>. QED
      BY <1>3, <3>1, <3>2, <3>3
  <2>. QED
    BY <1>2, <2>1 DEF TicketCarried
<1>. QED
  BY <1>2, <1>4, <1>6, <1>7, <1>8 DEF DeskInv, DeskSteps

LEMMA ModerateKept ==
  ASSUME DeskInv, NEW status \in {"under_review", "escalated", "decided"}, Moderate(status)
  PROVE  DeskInv' /\ DeskSteps
<1>1. desks \in [Desks -> DeskRow] /\ case \in Cases /\ casePassed \in BOOLEAN
  BY DeskTyped DEF DeskInv
<1>2. /\ case' = [case EXCEPT !.status = status] /\ CaseWritten(Desks)
      /\ UNCHANGED <<ticket, ticketLog, ticketMirror, desks, ticketPassed, ticketLost>>
  BY DEF Moderate
<1>3. case' \in Cases /\ casePassed' \in BOOLEAN
  BY <1>1, <1>2 DEF Cases, CaseWritten
<1>4. DeskTypeOK'
  BY <1>2, <1>3, DeskTyped, DeskTypedNext DEF DeskInv
<1>5. CaseCopiesTrue'
  BY <1>2 DEF CaseCopiesTrue, CaseWritten
<1>6. CopiesTrue' /\ TicketCarried'
  BY <1>2 DEF DeskInv, CopiesTrue, CopyTrueOf, DeskAt, StatusAssigned, TicketCarried, CarriedOut
<1>. QED
  BY <1>2, <1>4, <1>5, <1>6 DEF DeskInv, DeskSteps

LEMMA DeskStart == DeskInit => DeskInv
<1> SUFFICES ASSUME DeskInit PROVE DeskInv
  OBVIOUS
<1>1. NewTicket \in Tickets /\ NewTicket \in Cases /\ NewTicket.status = "new"
  BY TicketStatesAre DEF NewTicket, Tickets, Cases, Assignees
<1>2. DeskTypeOK
  BY <1>1, NoDeskTyped, TicketStatesAre, DeskTyped DEF DeskInit
<1>3. \A d \in Desks : desks[d].step = "idle"
  BY NoDeskTyped DEF DeskInit
<1>. QED
  BY <1>1, <1>2, <1>3
  DEF DeskInit, DeskInv, CopiesTrue, CopyTrueOf, DeskAt, PastSave, TicketCarried, CarriedOut, CaseCopiesTrue

LEMMA DeskStep == DeskInv /\ [DeskNext]_deskVars => DeskInv' /\ [DeskSteps]_deskVars
<1> SUFFICES ASSUME DeskInv, [DeskNext]_deskVars PROVE DeskInv' /\ [DeskSteps]_deskVars
  OBVIOUS
<1>1. CASE UNCHANGED deskVars
  BY <1>1 DEF deskVars, DeskInv, DeskTypeOK, CopiesTrue, CopyTrueOf, DeskAt, StatusAssigned,
              TicketCarried, CarriedOut, CaseCopiesTrue
<1>2. CASE DeskNext
  BY <1>2, StartAssignKept, OpenTicketKept, CommitAssignKept, SaveTicketKept, CarryOnKept,
     WriteCaseKept, LeaveDeskKept, ModerateKept DEF DeskNext
<1>. QED
  BY <1>1, <1>2

LEMMA DeskHolds == DeskInv => DeskTypeOK /\ TicketMirrored
<1> SUFFICES ASSUME DeskInv, \A d \in Desks : desks[d] = NoDesk, ~ticketPassed, ~ticketLost
             PROVE  ticketMirror = ticket /\ ticketLog = ticket.status
  BY DEF TicketMirrored, DeskInv
<1>1. \A d \in Desks : desks[d].step \notin PastSave
  BY NoDeskTyped DEF PastSave
<1>. QED
  BY <1>1 DEF DeskInv, TicketCarried

\* The log and the mirror tell the ticket, for any number of requests and of
\* staff, with the exceptions that TicketMirrored names.
THEOREM TicketIsMirrored == DeskSpec => [](DeskTypeOK /\ TicketMirrored)
BY DeskStart, DeskStep, DeskHolds, PTL DEF DeskSpec

\* A closed ticket is opened again, and a decision taken back, only from a
\* copy that was read before.
THEOREM DeskStands == DeskSpec => ClosedFinal /\ DecisionStays
<1>1. DeskSteps => (ticket.status = "closed" /\ ticket'.status # "closed" => ticketPassed')
  BY DEF DeskSteps
<1>2. DeskSteps => ((ticket' # ticket \/ desks' # desks) /\ case.status \in {"escalated", "decided"} =>
                      case'.status = case.status \/ casePassed)
  BY DEF DeskSteps
<1>. QED
  BY <1>1, <1>2, DeskStart, DeskStep, PTL DEF DeskSpec, ClosedFinal, DecisionStays

-----------------------------------------------------------------------------
(* Messaging: the thread *)

MessageRow == [id : Ids, from : Participants, portal : BOOLEAN]
ReadingRow == [on : BOOLEAN, ids : SUBSET Ids]

\* Who was let write is not blocked, unless the block came after.
LetWrite(p) == sending[p] = "allowed" /\ p \notin blockLate => Other(p) \notin blocking

TalkInv ==
    /\ TalkTypeOK
    /\ \A m \in messages : m.id <= lastId
    /\ NothingNewRemoved
    /\ \A p \in Participants : LetWrite(p)

\* What p has out of his list is no news, of the messages had
NoNews(p) == \A m \in messages : m.from # p /\ ~m.portal => m.id <= seenGone[p]

TalkSteps ==
    \A m \in messages' \ messages :
      ~m.portal /\ m.from \notin blockLate => Other(m.from) \notin blocking

LEMMA TalkTyped ==
  TalkTypeOK <=>
    /\ messages \in SUBSET MessageRow /\ lastId \in 0..MaxMessages
    /\ unread \in [Participants -> SUBSET Ids]
    /\ removed \in SUBSET (Participants \X Ways) /\ blocking \in SUBSET Participants
    /\ sending \in [Participants -> {"idle", "allowed", "inserted"}]
    /\ reading \in [Readers -> ReadingRow]
    /\ seenGone \in [Participants -> 0..MaxMessages]
    /\ blockLate \in SUBSET Participants /\ sendLost \in BOOLEAN
  BY DEF TalkTypeOK, MessageRow, ReadingRow

LEMMA TalkTypedNext ==
  TalkTypeOK' <=>
    /\ messages' \in SUBSET MessageRow /\ lastId' \in 0..MaxMessages
    /\ unread' \in [Participants -> SUBSET Ids]
    /\ removed' \in SUBSET (Participants \X Ways) /\ blocking' \in SUBSET Participants
    /\ sending' \in [Participants -> {"idle", "allowed", "inserted"}]
    /\ reading' \in [Readers -> ReadingRow]
    /\ seenGone' \in [Participants -> 0..MaxMessages]
    /\ blockLate' \in SUBSET Participants /\ sendLost' \in BOOLEAN
  BY DEF TalkTypeOK, MessageRow, ReadingRow

\* The two participants are each other's other.
LEMMA OtherIs ==
  ASSUME NEW p \in Participants
  PROVE  /\ Other(p) \in Participants /\ Other(p) # p /\ Other(Other(p)) = p
         /\ \A q \in Participants : q = p \/ q = Other(p)
<1>1. IsFiniteSet(Participants) /\ Cardinality(Participants) = 2
  BY TalkAssumption
<1>2. IsFiniteSet(Participants \ {p}) /\ Cardinality(Participants \ {p}) = 1
  BY <1>1, FS_RemoveElement
<1>3. PICK q : Participants \ {p} = {q}
  BY <1>2, FS_Singleton
<1>4. q \in Participants /\ q # p /\ Participants = {p, q}
  BY <1>3
<1>5. Other(p) = q
  BY <1>4 DEF Other
<1>6. Other(q) = p
  BY <1>4 DEF Other
<1>. QED
  BY <1>4, <1>5, <1>6

\* The sends and the blocks do not change, nor what is new to whom.
LEMMA TalkQuiet ==
  ASSUME TalkInv, UNCHANGED <<lastId, sending, blocking, blockLate, sendLost, seenGone>>,
         messages' \subseteq messages, removed' \subseteq removed
  PROVE  /\ \A m \in messages' : m.id <= lastId'
         /\ NothingNewRemoved' /\ (\A p \in Participants : LetWrite(p)') /\ TalkSteps
<1>1. NothingNewRemoved'
  BY DEF TalkInv, NothingNewRemoved, Gone
<1>. QED
  BY <1>1 DEF TalkInv, LetWrite, TalkSteps

LEMMA StartSendKept ==
  ASSUME TalkInv, NEW p \in Participants, StartSend(p)
  PROVE  TalkInv' /\ TalkSteps
<1>1. /\ sending[p] = "idle" /\ Other(p) \notin blocking /\ sending' = [sending EXCEPT ![p] = "allowed"]
      /\ UNCHANGED <<messages, lastId, unread, removed, blocking, reading, seenGone, blockLate, sendLost>>
  BY DEF StartSend, BlockedByOther
<1>2. sending \in [Participants -> {"idle", "allowed", "inserted"}]
  BY TalkTyped DEF TalkInv
<1>3. /\ sending' \in [Participants -> {"idle", "allowed", "inserted"}]
      /\ sending'[p] = "allowed" /\ \A q \in Participants : q # p => sending'[q] = sending[q]
  BY <1>1, <1>2
<1>4. TalkTypeOK'
  BY <1>1, <1>3, TalkTyped, TalkTypedNext DEF TalkInv
<1>5. \A q \in Participants : sending[q] = "inserted" => sending'[q] = "inserted"
  BY <1>1, <1>3
<1>6. NothingNewRemoved'
  <2>1. ASSUME NEW q \in Participants, Gone(q)
        PROVE  sendLost \/ sending'[Other(q)] = "inserted" \/ NoNews(q)
    BY <1>5, <2>1, OtherIs DEF TalkInv, NothingNewRemoved, NoNews
  <2>. QED
    BY <1>1, <2>1 DEF NothingNewRemoved, NoNews, Gone
<1>7. \A q \in Participants : LetWrite(q)'
  BY <1>1, <1>3 DEF TalkInv, LetWrite
<1>. QED
  BY <1>1, <1>4, <1>6, <1>7 DEF TalkInv, TalkSteps

\* A message more: the ids stay below the last, and its reader has not read it.
LEMMA NewMessageTyped ==
  ASSUME TalkInv, NEW p \in Participants, NEW byPortal \in BOOLEAN, NewMessage(p, byPortal),
         UNCHANGED <<removed, blocking, reading, seenGone, sendLost>>,
         sending' \in [Participants -> {"idle", "allowed", "inserted"}],
         blockLate' \in SUBSET Participants
  PROVE  /\ TalkTypeOK' /\ \A m \in messages' : m.id <= lastId'
         /\ \A m \in messages' \ messages : m.from = p /\ m.portal = byPortal
         /\ messages \subseteq messages'
<1> DEFINE i == lastId + 1
           new == [id |-> i, from |-> p, portal |-> byPortal]
<1>1. /\ lastId < MaxMessages /\ lastId' = i /\ messages' = messages \cup {new}
      /\ unread' = [unread EXCEPT ![Other(p)] = unread[Other(p)] \cup {i}]
  BY DEF NewMessage
<1>2. /\ messages \in SUBSET MessageRow /\ lastId \in 0..MaxMessages
      /\ unread \in [Participants -> SUBSET Ids]
  BY TalkTyped DEF TalkInv
<1>3. MaxMessages \in Nat /\ lastId \in Nat
  BY <1>2, TalkAssumption
<1>4. i \in Ids /\ i \in 0..MaxMessages /\ lastId < i
  BY <1>1, <1>3 DEF Ids
<1>5. new \in MessageRow /\ new.id = i /\ new.from = p /\ new.portal = byPortal
  BY <1>4 DEF MessageRow
<1>6. Other(p) \in Participants
  BY OtherIs
<1> HIDE DEF i, new
<1>7. unread' \in [Participants -> SUBSET Ids]
  BY <1>1, <1>2, <1>4, <1>6
<1>8. TalkTypeOK'
  <2>1. messages' \in SUBSET MessageRow
    BY <1>1, <1>2, <1>5
  <2>. QED
    BY <1>1, <1>4, <1>7, <2>1, TalkTyped, TalkTypedNext DEF TalkInv
<1>9. \A m \in messages' : m.id <= lastId'
  <2>1. \A m \in messages : m.id \in Nat /\ m.id <= lastId
    BY <1>2 DEF TalkInv, MessageRow, Ids
  <2>2. \A m \in messages : m.id <= i
    BY <1>3, <1>4, <2>1 DEF Ids
  <2>3. new.id <= i
    BY <1>4, <1>5 DEF Ids
  <2>. QED
    BY <1>1, <2>2, <2>3
<1>. QED
  BY <1>1, <1>5, <1>8, <1>9

\* The insert finds the thread as the look at it did, or the block is late.
LEMMA InsertMessageKept ==
  ASSUME TalkInv, NEW p \in Participants, InsertMessage(p)
  PROVE  TalkInv' /\ TalkSteps
<1>1. /\ sending[p] = "allowed" /\ NewMessage(p, FALSE)
      /\ sending' = [sending EXCEPT ![p] = "inserted"] /\ blockLate' = blockLate \ {p}
      /\ UNCHANGED <<removed, blocking, reading, seenGone, sendLost>>
  BY DEF InsertMessage
<1>2. /\ sending \in [Participants -> {"idle", "allowed", "inserted"}]
      /\ blockLate \in SUBSET Participants
  BY TalkTyped DEF TalkInv
<1>3. /\ sending' \in [Participants -> {"idle", "allowed", "inserted"}]
      /\ sending'[p] = "inserted" /\ \A q \in Participants : q # p => sending'[q] = sending[q]
      /\ blockLate' \in SUBSET Participants
  BY <1>1, <1>2
<1>4. /\ TalkTypeOK' /\ \A m \in messages' : m.id <= lastId'
      /\ \A m \in messages' \ messages : m.from = p
  BY <1>1, <1>3, NewMessageTyped
<1>5. NothingNewRemoved'
  <2>1. ASSUME NEW q \in Participants, Gone(q)
        PROVE  sendLost \/ sending'[Other(q)] = "inserted" \/ NoNews(q)'
    <3>1. Other(q) \in Participants /\ Other(q) # q
      BY OtherIs
    <3>2. CASE q = p
      <4>1. sendLost \/ sending[Other(q)] = "inserted" \/ NoNews(q)
        BY <2>1 DEF TalkInv, NothingNewRemoved, NoNews
      <4>2. sending'[Other(q)] = sending[Other(q)]
        BY <1>3, <3>1, <3>2
      <4>3. NoNews(q) => NoNews(q)'
        BY <1>1, <1>4, <3>2 DEF NoNews
      <4>. QED
        BY <4>1, <4>2, <4>3
    <3>3. CASE q # p
      <4>1. Other(q) = p
        BY <3>3, OtherIs
      <4>. QED
        BY <1>3, <4>1
    <3>. QED
      BY <3>2, <3>3
  <2>. QED
    BY <1>1, <2>1 DEF NothingNewRemoved, NoNews, Gone
<1>6. \A q \in Participants : LetWrite(q)'
  BY <1>1, <1>3 DEF TalkInv, LetWrite
<1>7. TalkSteps
  BY <1>1, <1>4 DEF TalkInv, LetWrite, TalkSteps
<1>. QED
  BY <1>4, <1>5, <1>6, <1>7 DEF TalkInv

\* What the portal writes is told apart.
LEMMA PortalSendKept ==
  ASSUME TalkInv, PortalSend
  PROVE  TalkInv' /\ TalkSteps
<1>1. /\ NewMessage(Provider, TRUE) /\ Provider \in Participants
      /\ UNCHANGED <<removed, blocking, sending, reading, seenGone, blockLate, sendLost>>
  BY TalkAssumption DEF PortalSend
<1>2. /\ TalkTypeOK' /\ \A m \in messages' : m.id <= lastId'
      /\ \A m \in messages' \ messages : m.portal
  BY <1>1, NewMessageTyped, TalkTyped DEF TalkInv
<1>3. NothingNewRemoved'
  BY <1>1, <1>2 DEF TalkInv, NothingNewRemoved, Gone
<1>4. \A p \in Participants : LetWrite(p)'
  BY <1>1 DEF TalkInv, LetWrite
<1>. QED
  BY <1>2, <1>3, <1>4 DEF TalkInv, TalkSteps

LEMMA BringBackKept ==
  ASSUME TalkInv, NEW p \in Participants, BringBack(p)
  PROVE  TalkInv' /\ TalkSteps
<1>1. /\ removed' = removed \ (Participants \X Ways) /\ sending' = [sending EXCEPT ![p] = "idle"]
      /\ UNCHANGED <<messages, lastId, unread, blocking, reading, seenGone, blockLate, sendLost>>
  BY DEF BringBack, BroughtBack
<1>2. /\ sending \in [Participants -> {"idle", "allowed", "inserted"}]
      /\ removed \in SUBSET (Participants \X Ways)
  BY TalkTyped DEF TalkInv
<1>3. /\ sending' \in [Participants -> {"idle", "allowed", "inserted"}]
      /\ sending'[p] = "idle" /\ \A q \in Participants : q # p => sending'[q] = sending[q]
      /\ removed' = {}
  BY <1>1, <1>2
<1>4. TalkTypeOK'
  BY <1>1, <1>3, TalkTyped, TalkTypedNext DEF TalkInv
<1>. QED
  BY <1>1, <1>3, <1>4 DEF TalkInv, LetWrite, TalkSteps, NothingNewRemoved, Gone

\* A send that dies after its insert is noted.
LEMMA BreakSendKept ==
  ASSUME TalkInv, NEW p \in Participants, BreakSend(p)
  PROVE  TalkInv' /\ TalkSteps
<1>1. /\ sending' = [sending EXCEPT ![p] = "idle"] /\ blockLate' = blockLate \ {p}
      /\ sendLost' = (sendLost \/ sending[p] = "inserted")
      /\ UNCHANGED <<messages, lastId, unread, removed, blocking, reading, seenGone>>
  BY DEF BreakSend
<1>2. /\ sending \in [Participants -> {"idle", "allowed", "inserted"}]
      /\ blockLate \in SUBSET Participants /\ sendLost \in BOOLEAN
  BY TalkTyped DEF TalkInv
<1>3. /\ sending' \in [Participants -> {"idle", "allowed", "inserted"}]
      /\ sending'[p] = "idle" /\ \A q \in Participants : q # p => sending'[q] = sending[q]
      /\ blockLate' \in SUBSET Participants /\ sendLost' \in BOOLEAN
  BY <1>1, <1>2
<1>4. TalkTypeOK'
  BY <1>1, <1>3, TalkTyped, TalkTypedNext DEF TalkInv
<1>5. NothingNewRemoved'
  <2>1. ASSUME NEW q \in Participants, Gone(q)
        PROVE  sendLost' \/ sending'[Other(q)] = "inserted" \/ NoNews(q)
    <3>1. Other(q) \in Participants
      BY OtherIs
    <3>2. sendLost \/ sending[Other(q)] = "inserted" \/ NoNews(q)
      BY <2>1 DEF TalkInv, NothingNewRemoved, NoNews
    <3>. QED
      BY <1>1, <1>3, <3>1, <3>2
  <2>. QED
    BY <1>1, <2>1 DEF NothingNewRemoved, NoNews, Gone
<1>6. \A q \in Participants : LetWrite(q)'
  BY <1>1, <1>3 DEF TalkInv, LetWrite
<1>. QED
  BY <1>1, <1>4, <1>5, <1>6 DEF TalkInv, TalkSteps

\* Who removes the thread from his list has seen all there is.
LEMMA RemoveThreadKept ==
  ASSUME TalkInv, NEW p \in Participants, NEW how \in Ways, RemoveThread(p, how)
  PROVE  TalkInv' /\ TalkSteps
<1>1. /\ removed' = removed \cup {<<p, how>>}
      /\ seenGone' = IF Gone(p) THEN seenGone ELSE [seenGone EXCEPT ![p] = lastId]
      /\ UNCHANGED <<messages, lastId, unread, blocking, sending, reading, blockLate, sendLost>>
  BY DEF RemoveThread
<1>2. /\ seenGone \in [Participants -> 0..MaxMessages] /\ lastId \in 0..MaxMessages
      /\ removed \in SUBSET (Participants \X Ways)
  BY TalkTyped DEF TalkInv
<1>3. /\ seenGone' \in [Participants -> 0..MaxMessages] /\ (~Gone(p) => seenGone'[p] = lastId)
      /\ \A q \in Participants : q # p \/ Gone(p) => seenGone'[q] = seenGone[q]
      /\ removed' \in SUBSET (Participants \X Ways)
      /\ \A q \in Participants : q # p /\ Gone(q)' => Gone(q)
  <2>1. ASSUME Gone(p) PROVE seenGone' = seenGone
    BY <1>1, <2>1
  <2>2. ASSUME ~Gone(p)
        PROVE  /\ seenGone' \in [Participants -> 0..MaxMessages] /\ seenGone'[p] = lastId
               /\ \A q \in Participants : q # p => seenGone'[q] = seenGone[q]
    <3>1. seenGone' = [seenGone EXCEPT ![p] = lastId]
      BY <1>1, <2>2
    <3>. QED
      BY <1>2, <3>1
  <2>3. removed' \in SUBSET (Participants \X Ways)
    BY <1>1, <1>2
  <2>4. \A q \in Participants : q # p /\ Gone(q)' => Gone(q)
    <3>1. ASSUME NEW q \in Participants, q # p, NEW w \in Ways, <<q, w>> \in removed'
          PROVE  <<q, w>> \in removed
      BY <1>1, <3>1
    <3>. QED
      BY <3>1 DEF Gone
  <2>. QED
    BY <1>2, <2>1, <2>2, <2>3, <2>4
<1>4. TalkTypeOK'
  BY <1>1, <1>3, TalkTyped, TalkTypedNext DEF TalkInv
<1>5. NothingNewRemoved'
  <2>1. ASSUME NEW q \in Participants, Gone(q)'
        PROVE  sendLost \/ sending[Other(q)] = "inserted" \/ NoNews(q)'
    <3>1. CASE ~Gone(q)
      BY <1>1, <1>3, <2>1, <3>1 DEF TalkInv, NoNews
    <3>2. CASE Gone(q)
      BY <1>1, <1>3, <3>2 DEF TalkInv, NothingNewRemoved, NoNews
    <3>. QED
      BY <3>1, <3>2
  <2>. QED
    BY <1>1, <2>1 DEF NothingNewRemoved, NoNews
<1>. QED
  BY <1>1, <1>4, <1>5 DEF TalkInv, LetWrite, TalkSteps

LEMMA RestoreThreadKept ==
  ASSUME TalkInv, NEW p \in Participants, NEW how \in Ways, RestoreThread(p, how)
  PROVE  TalkInv' /\ TalkSteps
<1>1. /\ removed' = removed \ {<<p, how>>}
      /\ UNCHANGED <<messages, lastId, unread, blocking, sending, reading, seenGone, blockLate, sendLost>>
  BY DEF RestoreThread
<1>2. TalkTypeOK'
  BY <1>1, TalkTyped, TalkTypedNext DEF TalkInv
<1>. QED
  BY <1>1, <1>2, TalkQuiet DEF TalkInv

\* A block is late for the send that is under way.
LEMMA BlockThreadKept ==
  ASSUME TalkInv, NEW p \in Participants, BlockThread(p) \/ UnblockThread(p)
  PROVE  TalkInv' /\ TalkSteps
<1>1. /\ UNCHANGED <<messages, lastId, unread, removed, sending, reading, seenGone, sendLost>>
      /\ blocking' \subseteq blocking \cup {p}
      /\ blockLate \subseteq blockLate' /\ blockLate' \subseteq blockLate \cup {Other(p)}
      /\ p \in blocking' /\ p \notin blocking /\ sending[Other(p)] = "allowed" => Other(p) \in blockLate'
  BY DEF BlockThread, UnblockThread
<1>2. Other(p) \in Participants
  BY OtherIs
<1>3. blocking' \in SUBSET Participants /\ blockLate' \in SUBSET Participants
  BY <1>1, <1>2, TalkTyped DEF TalkInv
<1>4. TalkTypeOK'
  BY <1>1, <1>3, TalkTyped, TalkTypedNext DEF TalkInv
<1>5. ASSUME NEW q \in Participants PROVE LetWrite(q)'
  <2>1. CASE Other(q) = p
    <3>1. q = Other(p)
      BY <2>1, OtherIs
    <3>. QED
      BY <1>1, <2>1, <3>1 DEF TalkInv, LetWrite
  <2>2. CASE Other(q) # p
    BY <1>1, <2>2 DEF TalkInv, LetWrite
  <2>. QED
    BY <2>1, <2>2
<1>6. NothingNewRemoved'
  BY <1>1 DEF TalkInv, NothingNewRemoved, Gone
<1>. QED
  BY <1>1, <1>4, <1>5, <1>6 DEF TalkInv, TalkSteps

\* The reads change nothing that is told of the thread.
LEMMA ReadsKept ==
  ASSUME TalkInv, NEW p \in Participants,
         (p \in Readers /\ (ListUnread(p) \/ MarkRead(p))) \/ MarkUnread(p) \/ \E m \in messages : DeleteMessage(p, m)
  PROVE  TalkInv' /\ TalkSteps
<1>1. /\ UNCHANGED <<lastId, removed, blocking, sending, seenGone, blockLate, sendLost>>
      /\ messages' \subseteq messages
  BY DEF ListUnread, MarkRead, MarkUnread, DeleteMessage
<1>2. /\ unread \in [Participants -> SUBSET Ids] /\ reading \in [Readers -> ReadingRow]
      /\ messages \in SUBSET MessageRow
  BY TalkTyped DEF TalkInv
<1>3. unread' \in [Participants -> SUBSET Ids] /\ reading' \in [Readers -> ReadingRow]
  <2>1. CASE p \in Readers /\ ListUnread(p)
    BY <1>2, <2>1 DEF ListUnread, ReadingRow
  <2>2. CASE p \in Readers /\ MarkRead(p)
    <3>1. unread' \in [Participants -> SUBSET Ids]
      BY <1>2, <2>2 DEF MarkRead
    <3>2. NotReading \in ReadingRow
      BY DEF NotReading, ReadingRow
    <3>. QED
      BY <1>2, <2>2, <3>1, <3>2 DEF MarkRead
  <2>3. CASE MarkUnread(p)
    <3> DEFINE theirs == {m.id : m \in {n \in messages : n.from # p}}
    <3>1. theirs \in SUBSET Ids /\ theirs # {}
      BY <1>2, <2>3 DEF MarkUnread, MessageRow
    <3>2. unread' = [unread EXCEPT ![p] = @ \cup {CHOOSE i \in theirs : \A j \in theirs : j <= i}]
          /\ reading' = reading
      BY <2>3 DEF MarkUnread
    <3> HIDE DEF theirs
    <3>3. MaxMessages \in Nat /\ theirs \in SUBSET (0..MaxMessages)
      BY <3>1, TalkAssumption DEF Ids
    <3>4. \E i \in theirs : \A j \in theirs : j <= i
      BY <3>1, <3>3, GreatestOf
    <3>5. (CHOOSE i \in theirs : \A j \in theirs : j <= i) \in Ids
      BY <3>1, <3>4
    <3>. QED
      BY <1>2, <3>2, <3>5
  <2>4. CASE \E m \in messages : DeleteMessage(p, m)
    BY <1>2, <2>4 DEF DeleteMessage, UnreadWithout
  <2>. QED
    BY <2>1, <2>2, <2>3, <2>4
<1>4. TalkTypeOK'
  BY <1>1, <1>3, TalkTyped, TalkTypedNext DEF TalkInv
<1>. QED
  BY <1>1, <1>4, TalkQuiet DEF TalkInv

LEMMA TalkStart == TalkInit => TalkInv
<1> SUFFICES ASSUME TalkInit PROVE TalkInv
  OBVIOUS
<1>1. 0 \in 0..MaxMessages
  BY TalkAssumption
<1>2. NotReading \in ReadingRow
  BY DEF NotReading, ReadingRow
<1>3. TalkTypeOK
  BY <1>1, <1>2, TalkTyped DEF TalkInit
<1>. QED
  BY <1>3 DEF TalkInit, TalkInv, NothingNewRemoved, LetWrite, Gone

LEMMA TalkStep == TalkInv /\ [TalkNext]_talkVars => TalkInv' /\ [TalkSteps]_talkVars
<1> SUFFICES ASSUME TalkInv, [TalkNext]_talkVars PROVE TalkInv' /\ [TalkSteps]_talkVars
  OBVIOUS
<1>1. CASE UNCHANGED talkVars
  BY <1>1 DEF talkVars, TalkInv, TalkTypeOK, NothingNewRemoved, LetWrite, Gone
<1>2. CASE TalkNext
  BY <1>2, StartSendKept, InsertMessageKept, PortalSendKept, BringBackKept, BreakSendKept, RemoveThreadKept,
     RestoreThreadKept, BlockThreadKept, ReadsKept DEF TalkNext
<1>. QED
  BY <1>1, <1>2

\* A thread that a participant removed comes back with what the other sends,
\* for any two participants and any number of messages; what the portal
\* writes for the provider brings nothing back, and is excepted.
THEOREM NewsComeBack == TalkSpec => [](TalkTypeOK /\ NothingNewRemoved)
<1>1. TalkInv => TalkTypeOK /\ NothingNewRemoved
  BY DEF TalkInv
<1>. QED
  BY <1>1, TalkStart, TalkStep, PTL DEF TalkSpec

\* Nobody sends to who blocks him, but for a block that comes between the
\* look at it and the insert; the portal, which does not look, is excepted.
THEOREM BlocksRespected == TalkSpec => BlockRespected
<1>1. TalkSteps => (\A m \in messages' \ messages :
         ~m.portal /\ m.from \notin blockLate => Other(m.from) \notin blocking)
  BY DEF TalkSteps
<1>. QED
  BY <1>1, TalkStart, TalkStep, PTL DEF TalkSpec, BlockRespected

-----------------------------------------------------------------------------
(* Providers: the profile *)

Request ==
    [step : {"idle", "loaded", "checked", "stored", "judged"},
     copy : Row, chosen : SUBSET Subcategories, wants : BOOLEAN]

\* The types, the flag and the mark
ProfileInv == ProfileTypeOK /\ UrgentShown /\ MarkShown

LEMMA ProfileInitially == ProfileInit => ProfileInv
<1> SUFFICES ASSUME ProfileInit PROVE ProfileInv
  OBVIOUS
<1>1. NoEdit \in Request
  BY DEF NoEdit, Request, Row
<1>2. ProfileTypeOK
  <2>1. devices \in [Devices -> Request]
    BY <1>1 DEF ProfileInit
  <2>2. decisions \in 0..MaxDecisions
    BY ProfileAssumption DEF ProfileInit
  <2>3. profile \in Row
    BY DEF ProfileInit, Row
  <2> QED BY <2>1, <2>2, <2>3 DEF ProfileInit, ProfileTypeOK, Request
<1>3. Takes(urgentIn, allowed) = FALSE
  BY DEF ProfileInit, Takes
<1>4. UrgentShown /\ MarkShown
  BY <1>3 DEF ProfileInit, UrgentShown, MarkShown
<1> QED BY <1>2, <1>4 DEF ProfileInv

\* A comparison changes the flag to what is wanted if the copy is true
LEMMA ComparedFlag ==
  ASSUME NEW row \in Row, NEW copy \in Row, NEW wants \in BOOLEAN
  PROVE  /\ Compared(row, copy, wants) \in Row
         /\ Compared(row, copy, wants).mark = row.mark
         /\ copy.urgent = row.urgent => Compared(row, copy, wants).urgent = wants
  BY DEF Compared, Row

\* What a request becomes keeps the types of all
LEMMA RequestKept ==
  ASSUME ProfileTypeOK, NEW d \in Devices, NEW r \in Request,
         devices' = [devices EXCEPT ![d] = r]
  PROVE  devices' \in [Devices -> Request]
  BY DEF ProfileTypeOK, Request

LEMMA ProfileTypeKept == ProfileTypeOK /\ [ProfileNext]_profileVars => ProfileTypeOK'
<1> SUFFICES ASSUME ProfileTypeOK, [ProfileNext]_profileVars PROVE ProfileTypeOK'
  OBVIOUS
<1>0. NoEdit \in Request /\ profile \in Row /\ devices \in [Devices -> Request]
  BY DEF NoEdit, Request, Row, ProfileTypeOK
<1>1. ASSUME NEW d \in Devices, LoadProfile(d) PROVE ProfileTypeOK'
  <2>1. [NoEdit EXCEPT !.step = "loaded", !.copy = profile] \in Request
    BY <1>0 DEF NoEdit, Request
  <2>2. devices' \in [Devices -> Request]
    BY <1>1, <2>1, RequestKept DEF LoadProfile
  <2> QED BY <1>1, <2>2 DEF LoadProfile, ProfileTypeOK, Request
<1>2. ASSUME NEW d \in Devices, SaveProfile(d) PROVE ProfileTypeOK'
  <2>1. devices' \in [Devices -> Request]
    BY <1>0, <1>2, RequestKept DEF SaveProfile
  <2>2. devices[d].copy \in Row
    BY <1>0 DEF Request
  <2>3. profile' \in Row /\ unsynced' \in BOOLEAN /\ markLost' \in BOOLEAN
    BY <1>0, <1>2, <2>2 DEF SaveProfile, Row, ProfileTypeOK
  <2> QED BY <1>2, <2>1, <2>3 DEF SaveProfile, ProfileTypeOK, Request
<1>3. ASSUME NEW d \in Devices, ReplaceSettings(d) PROVE ProfileTypeOK'
  <2>1. devices' \in [Devices -> Request]
    BY <1>0, <1>3, RequestKept DEF ReplaceSettings
  <2>2. devices[d].copy \in Row
    BY <1>0 DEF Request
  <2>3. PICK chosen \in SUBSET Subcategories :
          urgentIn' = chosen /\ profile' = Compared(profile, devices[d].copy, Takes(chosen, allowed))
    BY <1>3 DEF ReplaceSettings
  <2>4. Takes(chosen, allowed) \in BOOLEAN
    BY DEF Takes
  <2>5. profile' \in Row
    BY <1>0, <2>2, <2>3, <2>4, ComparedFlag
  <2>6. unsynced' \in BOOLEAN
    BY <1>3 DEF ReplaceSettings
  <2> QED BY <1>3, <2>1, <2>3, <2>5, <2>6 DEF ReplaceSettings, ProfileTypeOK, Request
<1>4. ASSUME NEW d \in Devices, CheckService(d) PROVE ProfileTypeOK'
  <2>1. PICK s \in Subcategories, urgent \in BOOLEAN :
          devices' = [devices EXCEPT ![d].step = "checked", ![d].chosen = {s}, ![d].wants = urgent]
    BY <1>4 DEF CheckService
  <2>2. [devices[d] EXCEPT !.step = "checked", !.chosen = {s}, !.wants = urgent] \in Request
    BY <1>0 DEF Request
  <2>3. devices' \in [Devices -> Request]
    BY <1>0, <2>1, <2>2 DEF Request
  <2> QED BY <1>4, <2>3 DEF CheckService, ProfileTypeOK, Request
<1>5. ASSUME NEW d \in Devices, StoreSetting(d) PROVE ProfileTypeOK'
  <2>1. devices' \in [Devices -> Request]
    BY <1>0, <1>5 DEF StoreSetting, Request
  <2>2. urgentIn' \subseteq Subcategories
    BY <1>0, <1>5 DEF StoreSetting, Request, ProfileTypeOK
  <2> QED BY <1>5, <2>1, <2>2 DEF StoreSetting, ProfileTypeOK, Request
<1>6. ASSUME NEW d \in Devices, JudgeFlag(d) PROVE ProfileTypeOK'
  <2>1. Takes(urgentIn, allowed) \in BOOLEAN
    BY DEF Takes
  <2>2. devices' \in [Devices -> Request]
    BY <1>0, <1>6, <2>1 DEF JudgeFlag, Request
  <2> QED BY <1>6, <2>2 DEF JudgeFlag, ProfileTypeOK, Request
<1>7. ASSUME NEW d \in Devices, WriteFlag(d) PROVE ProfileTypeOK'
  <2>1. devices' \in [Devices -> Request]
    BY <1>0, <1>7, RequestKept DEF WriteFlag
  <2>2. devices[d].copy \in Row /\ devices[d].wants \in BOOLEAN
    BY <1>0 DEF Request
  <2>3. profile' \in Row
    BY <1>0, <1>7, <2>2, ComparedFlag DEF WriteFlag
  <2>4. unsynced' \in BOOLEAN
    BY <1>7 DEF WriteFlag
  <2> QED BY <1>7, <2>1, <2>3, <2>4 DEF WriteFlag, ProfileTypeOK, Request
<1>8. ASSUME NEW d \in Devices, DropEdit(d) PROVE ProfileTypeOK'
  <2>1. devices' \in [Devices -> Request]
    BY <1>0, <1>8, RequestKept DEF DropEdit
  <2> QED BY <1>8, <2>1 DEF DropEdit, ProfileTypeOK, Request
<1>9. ASSUME NEW s \in Subcategories, ToggleUrgent(s) PROVE ProfileTypeOK'
  <2>1. allowed' \subseteq Subcategories
    BY <1>9 DEF ToggleUrgent, ProfileTypeOK
  <2>2. decisions' \in 0..MaxDecisions
    BY <1>9, ProfileAssumption DEF ToggleUrgent, ProfileTypeOK
  <2>3. unsynced' \in BOOLEAN
    BY <1>9 DEF ToggleUrgent
  <2> QED BY <1>9, <2>1, <2>2, <2>3 DEF ToggleUrgent, ProfileTypeOK
<1>10. ASSUME DecideMark PROVE ProfileTypeOK'
  <2>1. decisions' \in 0..MaxDecisions
    BY <1>10, ProfileAssumption DEF DecideMark, ProfileTypeOK
  <2>2. profile' \in Row /\ earned' \in BOOLEAN
    BY <1>0, <1>10 DEF DecideMark, Row, ProfileTypeOK
  <2> QED BY <1>10, <2>1, <2>2 DEF DecideMark, ProfileTypeOK
<1>11. CASE UNCHANGED profileVars
  BY <1>11 DEF profileVars, ProfileTypeOK
<1> QED
  BY <1>1, <1>2, <1>3, <1>4, <1>5, <1>6, <1>7, <1>8, <1>9, <1>10, <1>11 DEF ProfileNext

\* The flag: an action that says that it agrees wrote it from a true copy
LEMMA UrgentKept == ProfileTypeOK /\ UrgentShown /\ [ProfileNext]_profileVars => UrgentShown'
<1> SUFFICES ASSUME ProfileTypeOK, UrgentShown, [ProfileNext]_profileVars PROVE UrgentShown'
  OBVIOUS
<1>0. /\ profile \in Row
      /\ \A d \in Devices : devices[d].copy \in Row /\ devices[d].wants \in BOOLEAN
  BY DEF ProfileTypeOK
<1>1. ASSUME NEW d \in Devices, SaveProfile(d) PROVE UrgentShown'
  <2>1. PICK urgent \in BOOLEAN :
          /\ profile' = [devices[d].copy EXCEPT !.urgent = urgent]
          /\ unsynced' = (unsynced \/ urgent # profile.urgent)
    BY <1>1 DEF SaveProfile
  <2>2. profile'.urgent = urgent
    BY <1>0, <2>1 DEF Row
  <2> QED BY <1>1, <2>1, <2>2 DEF SaveProfile, UrgentShown, Takes
<1>2. ASSUME NEW d \in Devices, ReplaceSettings(d) PROVE UrgentShown'
  <2>1. PICK chosen \in SUBSET Subcategories :
          urgentIn' = chosen /\ profile' = Compared(profile, devices[d].copy, Takes(chosen, allowed))
    BY <1>2 DEF ReplaceSettings
  <2>2. Takes(chosen, allowed) \in BOOLEAN
    BY DEF Takes
  <2>3. devices[d].copy.urgent = profile.urgent => profile'.urgent = Takes(chosen, allowed)
    BY <1>0, <2>1, <2>2, ComparedFlag
  <2> QED BY <1>2, <2>1, <2>3 DEF ReplaceSettings, UrgentShown, Takes
<1>3. ASSUME NEW d \in Devices, WriteFlag(d) PROVE UrgentShown'
  <2>1. profile' = Compared(profile, devices[d].copy, devices[d].wants)
    BY <1>3 DEF WriteFlag
  <2>2. devices[d].copy.urgent = profile.urgent => profile'.urgent = devices[d].wants
    BY <1>0, <2>1, ComparedFlag
  <2> QED BY <1>3, <2>2 DEF WriteFlag, UrgentShown, Takes
<1>4. ASSUME NEW d \in Devices, StoreSetting(d) PROVE UrgentShown'
  BY <1>4 DEF StoreSetting, UrgentShown
<1>5. ASSUME NEW s \in Subcategories, ToggleUrgent(s) PROVE UrgentShown'
  BY <1>5 DEF ToggleUrgent, UrgentShown, Takes
<1>6. CASE DecideMark
  <2>1. profile'.urgent = profile.urgent
    BY <1>0, <1>6 DEF DecideMark, Row
  <2> QED BY <1>6, <2>1 DEF DecideMark, UrgentShown, Takes
<1>7. ASSUME UNCHANGED <<profile, urgentIn, allowed, unsynced>> PROVE UrgentShown'
  BY <1>7 DEF UrgentShown, Takes
<1> QED
  BY <1>1, <1>2, <1>3, <1>4, <1>5, <1>6, <1>7
     DEF ProfileNext, profileVars, LoadProfile, CheckService, JudgeFlag, DropEdit

\* The mark: only an edit writes it back, and says whether it was so
LEMMA MarkKept == ProfileTypeOK /\ MarkShown /\ [ProfileNext]_profileVars => MarkShown'
<1> SUFFICES ASSUME ProfileTypeOK, MarkShown, [ProfileNext]_profileVars PROVE MarkShown'
  OBVIOUS
<1>0. /\ profile \in Row
      /\ \A d \in Devices : devices[d].copy \in Row /\ devices[d].wants \in BOOLEAN
  BY DEF ProfileTypeOK
<1>1. ASSUME NEW d \in Devices, SaveProfile(d) PROVE MarkShown'
  <2>1. profile'.mark = devices[d].copy.mark
    BY <1>0, <1>1 DEF SaveProfile, Row
  <2> QED BY <1>1, <2>1 DEF SaveProfile, MarkShown
<1>2. ASSUME NEW d \in Devices, ReplaceSettings(d) PROVE MarkShown'
  <2>1. PICK chosen \in SUBSET Subcategories :
          profile' = Compared(profile, devices[d].copy, Takes(chosen, allowed))
    BY <1>2 DEF ReplaceSettings
  <2>2. Takes(chosen, allowed) \in BOOLEAN
    BY DEF Takes
  <2>3. profile'.mark = profile.mark
    BY <1>0, <2>1, <2>2, ComparedFlag
  <2> QED BY <1>2, <2>3 DEF ReplaceSettings, MarkShown
<1>3. ASSUME NEW d \in Devices, WriteFlag(d) PROVE MarkShown'
  <2>1. profile'.mark = profile.mark
    BY <1>0, <1>3, ComparedFlag DEF WriteFlag
  <2> QED BY <1>3, <2>1 DEF WriteFlag, MarkShown
<1>4. CASE DecideMark
  <2>1. profile'.mark = earned'
    BY <1>0, <1>4 DEF DecideMark, Row
  <2> QED BY <2>1 DEF MarkShown
<1>5. ASSUME UNCHANGED <<profile, earned, markLost>> PROVE MarkShown'
  BY <1>5 DEF MarkShown
<1> QED
  BY <1>1, <1>2, <1>3, <1>4, <1>5
     DEF ProfileNext, profileVars, LoadProfile, CheckService, StoreSetting, JudgeFlag, DropEdit,
         ToggleUrgent

\* However the requests of a provider overlap with each other and with the
\* staff, his row agrees with his settings and with what he has earned,
\* outside the races that the specification names (UrgentShown, MarkShown).
THEOREM ProfileCorrect == ProfileSpec => [](ProfileTypeOK /\ UrgentShown /\ MarkShown)
<1>1. ProfileInv /\ [ProfileNext]_profileVars => ProfileInv'
  BY ProfileTypeKept, UrgentKept, MarkKept DEF ProfileInv
<1>2. ProfileInv => ProfileTypeOK /\ UrgentShown /\ MarkShown
  BY DEF ProfileInv
<1> QED
  BY ProfileInitially, <1>1, <1>2, PTL DEF ProfileSpec

-----------------------------------------------------------------------------
(* Providers: the gallery and the cover *)

GallerySteps == {"idle", "view", "viewEmpty", "add", "addEmpty", "count", "insert",
                 "first", "remove", "list", "renumber", "compare", "show",
                 "edit", "primary", "replace", "seed"}
ClientRow ==
    [step : GallerySteps, shows : 0..MaxPictures, item : 0..MaxItems, rank : 0..MaxItems,
     todo : SUBSET [item : ItemIds, rank : 0..MaxItems], passed : BOOLEAN]

\* Ids are given one after the other, and no place is beyond them.
RowsMade == \A i \in ItemIds : gallery[i].picture # 0 => i <= made /\ gallery[i].sort < made

\* What a request holds can be written, whatever the others do.
Writable(d) ==
    /\ clients[d].step = "insert" => clients[d].rank <= made
    /\ \A t \in clients[d].todo : t.rank < made
    /\ \A t, u \in clients[d].todo : t.item = u.item => t = u
    /\ clients[d].step \in {"viewEmpty", "addEmpty", "first", "primary", "seed", "replace"} =>
         clients[d].shows # 0
    /\ clients[d].step = "replace" => clients[d].item \in ItemIds

\* What one that nothing has passed has read is so.
UpToDate(d) ==
    ~clients[d].passed =>
      /\ clients[d].step \in {"view", "viewEmpty", "add", "addEmpty", "count", "insert", "remove",
                              "list", "renumber", "compare", "edit", "primary", "seed", "replace"} =>
           clients[d].shows = cover
      /\ clients[d].step \in {"viewEmpty", "addEmpty", "seed"} => Shown(gallery) = {}
      /\ clients[d].step \in {"count", "insert"} => clients[d].shows = 0 \/ Shown(gallery) # {}
      /\ clients[d].step = "insert" =>
           clients[d].rank = NextSort(gallery) /\ Cardinality(Shown(gallery)) < limit
      /\ clients[d].step = "first" => cover = 0
      /\ clients[d].step = "show" => clients[d].shows = PrimaryPicture(gallery)
      /\ clients[d].step = "replace" =>
           clients[d].item = FirstOf(gallery) /\ Shown(gallery) # {}
      /\ clients[d].step = "renumber" => \A t \in clients[d].todo : t.item \in Shown(gallery)

\* The cover is the first picture, or a request brings it there or writes from
\* what was passed.
Brings(d) ==
    \/ clients[d].step \in {"primary", "seed", "replace", "show"}
    \/ clients[d].step = "first" /\ (clients[d].passed \/ clients[d].shows = PrimaryPicture(gallery))
    \/ clients[d].step \in {"list", "compare"} /\ clients[d].shows # PrimaryPicture(gallery)
    \/ /\ clients[d].step = "renumber" /\ clients[d].shows # PrimaryPicture(gallery)
       /\ \A t \in clients[d].todo : t.item \in Shown(gallery)

CoverHeld ==
    \/ uncovered \/ Shown(gallery) = {} \/ cover = PrimaryPicture(gallery)
    \/ \E d \in Uploaders : Brings(d)

\* The pictures are in order, or will be when those that are left to be
\* renumbered are.
Midway(d) == clients[d].step = "renumber" /\ clients[d].todo # {}
Placed(d, i, n) ==
    \/ \E t \in clients[d].todo : t.item = i /\ t.rank = n
    \/ gallery[i].sort = n /\ \A t \in clients[d].todo : t.item # i
Leads(d) ==
    \A i, j \in Shown(gallery) : \A m, n \in 0..MaxItems :
      i < j /\ Placed(d, i, m) /\ Placed(d, j, n) => m <= n
InOrder == \A i, j \in Shown(gallery) : i < j => gallery[i].sort <= gallery[j].sort
OrderHeld ==
    \/ brokenOff \/ \E d \in Uploaders : Midway(d) /\ clients[d].passed
    \/ /\ \A d \in Uploaders : Midway(d) => Leads(d)
       /\ InOrder \/ \E d \in Uploaders : Midway(d)

\* Of those that have removed a picture only the last is not passed.
OneRemoves ==
    \A d, e \in Uploaders :
      /\ ~clients[d].passed /\ ~clients[e].passed
      /\ clients[d].step \in {"list", "renumber"} /\ clients[e].step \in {"list", "renumber"}
      => d = e

Settled ==
    /\ \A d \in Uploaders : UpToDate(d)
    /\ OneRemoves /\ CoverHeld /\ OrderHeld /\ GalleryWithinLimit

GalleryInv ==
    /\ GalleryTypeOK
    /\ clients \in [Uploaders -> ClientRow]
    /\ RowsMade
    /\ \A d \in Uploaders : Writable(d)
    /\ together \/ Settled

GalleryRows == [ItemIds -> [picture : 0..MaxPictures, sort : 0..MaxItems]]

LEMMA GalleryTyped ==
  ASSUME GalleryInv
  PROVE  /\ clients \in [Uploaders -> ClientRow] /\ gallery \in GalleryRows
         /\ cover \in 0..MaxPictures /\ pictures \in 0..MaxPictures /\ made \in 0..MaxItems
         /\ limit \in Limits /\ limit \in Nat /\ MaxItems \in Nat /\ MaxPictures \in Nat
         /\ uncovered \in BOOLEAN /\ brokenOff \in BOOLEAN /\ together \in BOOLEAN
         /\ RowsMade /\ \A d \in Uploaders : Writable(d)
  BY GalleryAssumption DEF GalleryInv, GalleryTypeOK, GalleryRows

LEMMA GalleryTypedNext ==
  ASSUME clients' \in [Uploaders -> ClientRow], gallery' \in GalleryRows,
         cover' \in 0..MaxPictures, pictures' \in 0..MaxPictures, made' \in 0..MaxItems,
         limit' \in Limits,
         uncovered' \in BOOLEAN, brokenOff' \in BOOLEAN, together' \in BOOLEAN,
         RowsMade', \A d \in Uploaders : Writable(d)', together' \/ Settled'
  PROVE  GalleryInv'
  BY DEF GalleryInv, GalleryTypeOK, GalleryRows, ClientRow, GallerySteps

-----------------------------------------------------------------------------
(* The first of the rows, and the place after the last *)

LEMMA ShownFinite ==
  ASSUME NEW rows
  PROVE  /\ IsFiniteSet(Shown(rows)) /\ Shown(rows) \in SUBSET (0..MaxItems)
         /\ Shown(rows) \in SUBSET ItemIds /\ Cardinality(Shown(rows)) \in Nat
         /\ \A S \in SUBSET Shown(rows) :
              /\ IsFiniteSet(S) /\ Cardinality(S) \in Nat /\ Cardinality(S) <= Cardinality(Shown(rows))
              /\ (S # Shown(rows) => Cardinality(S) < Cardinality(Shown(rows)))
              /\ (Cardinality(S) = 0 => S = {})
<1>1. MaxItems \in Nat
  BY GalleryAssumption
<1>2. IsFiniteSet(ItemIds)
  BY <1>1, FS_Interval DEF ItemIds
<1>3. Shown(rows) \in SUBSET ItemIds /\ Shown(rows) \in SUBSET (0..MaxItems)
  BY <1>1 DEF Shown, ItemIds
<1>4. IsFiniteSet(Shown(rows))
  BY <1>2, <1>3, FS_Subset
<1>5. Cardinality(Shown(rows)) \in Nat
  BY <1>4, FS_CardinalityType
<1>6. ASSUME NEW S \in SUBSET Shown(rows)
      PROVE  /\ IsFiniteSet(S) /\ Cardinality(S) \in Nat /\ Cardinality(S) <= Cardinality(Shown(rows))
             /\ (S # Shown(rows) => Cardinality(S) < Cardinality(Shown(rows)))
             /\ (Cardinality(S) = 0 => S = {})
  <2>1. /\ IsFiniteSet(S) /\ Cardinality(S) <= Cardinality(Shown(rows))
        /\ (Cardinality(Shown(rows)) = Cardinality(S) => Shown(rows) = S)
    BY <1>4, FS_Subset
  <2>2. Cardinality(S) \in Nat
    BY <2>1, FS_CardinalityType
  <2>3. Cardinality(S) = 0 => S = {}
    BY <2>1, FS_EmptySet
  <2>. QED
    BY <1>5, <2>1, <2>2, <2>3
<1>. QED
  BY <1>3, <1>4, <1>5, <1>6

\* Before orders the rows.
LEMMA BeforeIs ==
  ASSUME NEW rows \in GalleryRows, NEW i \in ItemIds, NEW j \in ItemIds
  PROVE  /\ i # j => (Before(rows, i, j) <=> ~Before(rows, j, i))
         /\ ~Before(rows, i, i)
         /\ \A k \in ItemIds : Before(rows, i, j) /\ Before(rows, k, i) => Before(rows, k, j)
<1>1. \A k \in ItemIds : rows[k].sort \in Nat /\ k \in Nat
  BY GalleryAssumption DEF GalleryRows, ItemIds
<1>. QED
  BY <1>1 DEF Before

\* The first of the rows is before all others,
LEMMA FirstIs ==
  ASSUME NEW rows \in GalleryRows, Shown(rows) # {}
  PROVE  /\ FirstOf(rows) \in Shown(rows)
         /\ \A j \in Shown(rows) : j # FirstOf(rows) => Before(rows, FirstOf(rows), j)
<1> DEFINE S == Shown(rows)
<1>0. S \in SUBSET ItemIds
  BY ShownFinite
<1>1. \A k \in ItemIds : rows[k].sort \in Nat /\ k \in Nat
  BY GalleryAssumption DEF GalleryRows, ItemIds
<1> DEFINE P == {rows[i].sort : i \in S}
<1>2. P \in SUBSET Nat /\ P # {}
  BY <1>0, <1>1
<1>3. PICK m \in P : \A k \in P : m <= k
  <2> HIDE DEF P
  <2>. QED BY <1>2, LeastOf
<1> DEFINE Q == {i \in S : rows[i].sort = m}
<1>4. Q \in SUBSET Nat /\ Q # {}
  BY <1>0, <1>1, <1>3
<1>5. PICK f \in Q : \A k \in Q : f <= k
  <2> HIDE DEF Q
  <2>. QED BY <1>4, LeastOf
<1>6. ASSUME NEW j \in S, j # f PROVE Before(rows, f, j)
  <2>1. rows[f].sort = m /\ m <= rows[j].sort /\ f \in ItemIds /\ j \in ItemIds
    BY <1>0, <1>3, <1>5
  <2>2. rows[j].sort = m => f <= j
    BY <1>5
  <2>. QED
    BY <1>1, <1>6, <2>1, <2>2 DEF Before
<1>7. f \in S
  BY <1>5
<1>8. RankOf(rows, f) = 0
  <2>1. {j \in S : Before(rows, j, f)} = {}
    BY <1>0, <1>6, <1>7, BeforeIs
  <2>. QED
    BY <2>1, FS_EmptySet DEF RankOf
<1>9. FirstOf(rows) \in S /\ RankOf(rows, FirstOf(rows)) = 0
  BY <1>7, <1>8 DEF FirstOf
<1>10. {j \in S : Before(rows, j, FirstOf(rows))} = {}
  <2> DEFINE T == {j \in S : Before(rows, j, FirstOf(rows))}
  <2>1. T \in SUBSET Shown(rows) /\ Cardinality(T) = 0
    BY <1>9 DEF RankOf
  <2> HIDE DEF T
  <2>2. T = {}
    BY <2>1, ShownFinite
  <2>. QED
    BY <2>2 DEF T
<1>. QED
  BY <1>0, <1>9, <1>10, BeforeIs

\* and only it is.
LEMMA FirstAlone ==
  ASSUME NEW rows \in GalleryRows, NEW i \in Shown(rows),
         \A j \in Shown(rows) : j # i => Before(rows, i, j)
  PROVE  FirstOf(rows) = i /\ PrimaryPicture(rows) = rows[i].picture
<1>1. FirstOf(rows) \in Shown(rows) /\ i \in ItemIds /\ FirstOf(rows) \in ItemIds
  BY FirstIs, ShownFinite
<1>2. FirstOf(rows) = i
  BY <1>1, FirstIs, BeforeIs
<1>. QED
  BY <1>2 DEF PrimaryPicture

LEMMA NextSortIs ==
  ASSUME NEW rows \in GalleryRows
  PROVE  /\ NextSort(rows) \in Nat
         /\ \A i \in Shown(rows) : rows[i].sort <= NextSort(rows)
         /\ \A n \in Nat : (\A i \in Shown(rows) : rows[i].sort < n) => NextSort(rows) <= n
<1> DEFINE P == {rows[i].sort : i \in Shown(rows)}
<1>1. \A i \in Shown(rows) : rows[i].sort \in 0..MaxItems /\ rows[i].sort \in Nat
  BY GalleryAssumption, ShownFinite DEF GalleryRows
<1>2. MaxItems \in Nat /\ P \in SUBSET (0..MaxItems)
  BY <1>1, GalleryAssumption
<1>3. CASE \A i \in Shown(rows) : rows[i].sort = 0
  BY <1>1, <1>3 DEF NextSort
<1>4. CASE ~(\A i \in Shown(rows) : rows[i].sort = 0)
  <2>1. P # {}
    BY <1>4
  <2>2. PICK m \in P : \A k \in P : k <= m
    <3> HIDE DEF P
    <3>. QED BY <1>2, <2>1, GreatestOf
  <2> DEFINE Top(n) == /\ \E i \in Shown(rows) : rows[i].sort = n
                       /\ \A i \in Shown(rows) : rows[i].sort <= n
  <2>3. m \in 0..MaxItems /\ Top(m)
    BY <1>2, <2>2
  <2> DEFINE top == CHOOSE n \in 0..MaxItems : Top(n)
  <2>4. top \in 0..MaxItems /\ Top(top)
    <3> HIDE DEF Top
    <3>. QED BY <2>3
  <2>5. NextSort(rows) = 1 + top
    BY <1>4 DEF NextSort
  <2>6. top \in Nat
    BY <1>2, <2>4
  <2> HIDE DEF top
  <2>. QED
    BY <1>1, <2>4, <2>5, <2>6
<1>. QED
  BY <1>3, <1>4

\* A row that is added after all others is not the first, but alone.
LEMMA AddedLast ==
  ASSUME NEW rows \in GalleryRows, NEW next \in GalleryRows, NEW k \in ItemIds,
         next[k].picture # 0, \A i \in ItemIds : i # k => next[i] = rows[i],
         \A i \in Shown(rows) : i < k /\ rows[i].sort <= next[k].sort
  PROVE  /\ Shown(next) = Shown(rows) \cup {k} /\ k \notin Shown(rows)
         /\ PrimaryPicture(next) =
              IF Shown(rows) = {} THEN next[k].picture ELSE PrimaryPicture(rows)
         /\ Cardinality(Shown(next)) = Cardinality(Shown(rows)) + 1
<1> DEFINE p == next[k].picture
<1> DEFINE s == next[k].sort
<1>0. MaxPictures \in Nat /\ MaxItems \in Nat
  BY GalleryAssumption
<1>2. /\ next \in GalleryRows /\ \A i \in ItemIds : i # k => next[i] = rows[i]
  OBVIOUS
<1>3. k \notin Shown(rows) /\ k \in Nat
  BY <1>0 DEF ItemIds
<1>4. Shown(next) = Shown(rows) \cup {k}
  BY <1>2 DEF Shown
<1>5. Cardinality(Shown(next)) = Cardinality(Shown(rows)) + 1
  BY <1>3, <1>4, ShownFinite, FS_AddElement
<1>6. CASE Shown(rows) = {}
  <2>1. Shown(next) = {k}
    BY <1>4, <1>6
  <2>2. PrimaryPicture(next) = next[k].picture
    BY <1>2, <2>1, FirstAlone
  <2>3. PrimaryPicture(next) = p
    BY <1>2, <2>2
  <2>4. PrimaryPicture(next) = IF Shown(rows) = {} THEN p ELSE PrimaryPicture(rows)
    BY <1>6, <2>3
  <2>. QED
    BY <1>2, <1>3, <1>4, <1>5, <2>4
<1>7. CASE Shown(rows) # {}
  <2> DEFINE f == FirstOf(rows)
  <2>1. f \in Shown(rows) /\ \A j \in Shown(rows) : j # f => Before(rows, f, j)
    BY <1>7, FirstIs
  <2> HIDE DEF f
  <2>2. f \in ItemIds /\ f # k /\ next[f] = rows[f] /\ Shown(rows) \in SUBSET ItemIds
    BY <1>2, <1>3, <2>1, ShownFinite
  <2>3. ASSUME NEW j \in Shown(next), j # f PROVE Before(next, f, j)
    <3>1. CASE j = k
      <4>1. rows[f].sort \in Nat /\ f < k /\ rows[f].sort <= s /\ s \in Nat
        BY <1>0, <2>1, <2>2 DEF GalleryRows
      <4>2. next[f].sort = rows[f].sort /\ next[k].sort = s
        BY <1>2, <2>2
      <4>. QED
        BY <3>1, <4>1, <4>2 DEF Before
    <3>2. CASE j # k
      <4>1. j \in Shown(rows) /\ next[j] = rows[j]
        BY <1>2, <1>4, <2>2, <3>2
      <4>. QED
        BY <2>1, <2>2, <2>3, <4>1 DEF Before
    <3>. QED
      BY <3>1, <3>2
  <2>4. PrimaryPicture(next) = next[f].picture
    BY <1>2, <1>4, <2>1, <2>3, FirstAlone
  <2>5. PrimaryPicture(rows) = rows[f].picture
    BY <1>7 DEF PrimaryPicture, f
  <2>6. PrimaryPicture(next) = PrimaryPicture(rows)
    BY <2>2, <2>4, <2>5
  <2>7. PrimaryPicture(next) = IF Shown(rows) = {} THEN p ELSE PrimaryPicture(rows)
    BY <1>7, <2>6
  <2>. QED
    BY <1>2, <1>3, <1>4, <1>5, <2>7
<1>. QED
  BY <1>6, <1>7

-----------------------------------------------------------------------------
(* Steps that write and steps that look *)

LEMMA WritesIs ==
  ASSUME GalleryInv, NEW d \in Uploaders, NEW row \in ClientRow, Writes(d, row)
  PROVE  /\ clients' \in [Uploaders -> ClientRow] /\ clients'[d] = row
         /\ together' \in BOOLEAN
         /\ (~together' => ~together /\ ~clients[d].passed)
         /\ \A e \in Uploaders : e # d =>
              /\ clients'[e].step = clients[e].step /\ clients'[e].shows = clients[e].shows
              /\ clients'[e].item = clients[e].item /\ clients'[e].rank = clients[e].rank
              /\ clients'[e].todo = clients[e].todo
              /\ (clients[e].step # "idle" => clients'[e].passed)
<1>1. \A e \in Uploaders : clients[e] \in ClientRow
  BY GalleryTyped
<1>2. ASSUME NEW e \in Uploaders, e # d
      PROVE  clients'[e] = [clients[e] EXCEPT !.passed = clients[e] # AtRest]
  BY <1>2 DEF Writes
<1>3. clients'[d] = row
  BY DEF Writes
<1>4. ASSUME NEW e \in Uploaders, e # d
      PROVE  /\ clients'[e] \in ClientRow
             /\ clients'[e].step = clients[e].step /\ clients'[e].shows = clients[e].shows
             /\ clients'[e].item = clients[e].item /\ clients'[e].rank = clients[e].rank
             /\ clients'[e].todo = clients[e].todo
             /\ (clients[e].step # "idle" => clients'[e].passed)
  <2> DEFINE b == clients[e] # AtRest
  <2>1. b \in BOOLEAN
    OBVIOUS
  <2>2. clients[e].step # "idle" => b
    BY DEF AtRest
  <2> HIDE DEF b
  <2>3. clients'[e] = [clients[e] EXCEPT !.passed = b]
    BY <1>2, <1>4 DEF b
  <2>. QED
    BY <1>1, <2>1, <2>2, <2>3 DEF ClientRow
<1>5. clients' \in [Uploaders -> ClientRow]
  <2>1. \A e \in Uploaders : clients'[e] \in ClientRow
    BY <1>3, <1>4
  <2>2. clients' = [e \in Uploaders |-> clients'[e]]
    BY DEF Writes
  <2>. QED
    BY <2>1, <2>2
<1>6. together' = (together \/ clients[d].passed) /\ together \in BOOLEAN
      /\ clients[d].passed \in BOOLEAN
  BY <1>1, GalleryTyped DEF Writes, ClientRow
<1>. QED
  BY <1>3, <1>4, <1>5, <1>6

\* The state holds what the invariant says after a write, if it does of who
\* wrote and of the rows: all others are passed.
LEMMA AfterWrite ==
  ASSUME GalleryInv, NEW d \in Uploaders, NEW row \in ClientRow, Writes(d, row),
         gallery' \in GalleryRows, cover' \in 0..MaxPictures, pictures' \in 0..MaxPictures,
         made' \in 0..MaxItems, made' >= made, UNCHANGED limit,
         uncovered' \in BOOLEAN, UNCHANGED brokenOff,
         RowsMade', Writable(d)',
         together' \/ (UpToDate(d)' /\ CoverHeld' /\ OrderHeld' /\ GalleryWithinLimit')
  PROVE  GalleryInv'
<1>0. made \in Nat /\ made' \in Nat
  BY GalleryTyped
<1>1. ASSUME NEW e \in Uploaders, e # d PROVE Writable(e)'
  <2>1. Writable(e) /\ clients[e] \in ClientRow
    BY GalleryTyped
  <2>2. /\ clients'[e].step = clients[e].step /\ clients'[e].shows = clients[e].shows
        /\ clients'[e].item = clients[e].item /\ clients'[e].rank = clients[e].rank
        /\ clients'[e].todo = clients[e].todo
    BY <1>1, WritesIs
  <2>3. clients[e].rank \in Nat /\ \A t \in clients[e].todo : t.rank \in Nat
    BY <2>1, GalleryTyped DEF ClientRow
  <2>. QED
    BY <1>0, <2>1, <2>2, <2>3 DEF Writable
<1>2. ASSUME NEW e \in Uploaders, e # d PROVE UpToDate(e)'
  BY <1>2, WritesIs DEF UpToDate
<1>3. OneRemoves'
  BY WritesIs DEF OneRemoves
<1>4. together' \/ Settled'
  BY <1>2, <1>3 DEF Settled
<1>5. \A e \in Uploaders : Writable(e)'
  BY <1>1
<1>. QED
  BY <1>4, <1>5, WritesIs, GalleryTyped, GalleryTypedNext

\* Who brings the cover to the first picture still does when another writes,
\* if the first picture is the same and no row is gone.
LEMMA CoverAsBefore ==
  ASSUME GalleryInv, NEW d \in Uploaders, NEW row \in ClientRow, Writes(d, row), ~together',
         Shown(gallery) \subseteq Shown(gallery'), Shown(gallery') # {} => Shown(gallery) # {},
         PrimaryPicture(gallery') = PrimaryPicture(gallery),
         uncovered => uncovered',
         cover = PrimaryPicture(gallery) /\ Shown(gallery) # {} =>
           cover' = PrimaryPicture(gallery) \/ uncovered',
         Brings(d) => cover' = PrimaryPicture(gallery) \/ uncovered'
  PROVE  CoverHeld'
<1>1. ASSUME NEW e \in Uploaders, e # d, Brings(e) PROVE Brings(e)'
  <2>1. /\ clients'[e].step = clients[e].step /\ clients'[e].shows = clients[e].shows
        /\ clients'[e].todo = clients[e].todo
        /\ (clients[e].step # "idle" => clients'[e].passed)
    BY <1>1, WritesIs
  <2>2. CASE clients[e].step \in {"primary", "seed", "replace", "show"}
    BY <2>1, <2>2 DEF Brings
  <2>3. CASE clients[e].step = "first"
    BY <2>1, <2>3 DEF Brings
  <2>4. CASE clients[e].step \in {"list", "compare"} /\ clients[e].shows # PrimaryPicture(gallery)
    BY <2>1, <2>4 DEF Brings
  <2>5. CASE /\ clients[e].step = "renumber" /\ clients[e].shows # PrimaryPicture(gallery)
             /\ \A t \in clients[e].todo : t.item \in Shown(gallery)
    BY <2>1, <2>5 DEF Brings
  <2>. QED
    BY <1>1, <2>2, <2>3, <2>4, <2>5 DEF Brings
<1>2. CoverHeld
  BY WritesIs DEF GalleryInv, Settled
<1>. QED
  BY <1>1, <1>2 DEF CoverHeld

\* A write that keeps rows in order leaves those that are being renumbered to
\* who does it.
LEMMA OrderAsBefore ==
  ASSUME GalleryInv, NEW d \in Uploaders, NEW row \in ClientRow, Writes(d, row), ~together',
         UNCHANGED brokenOff, clients[d].step # "renumber", row.step # "renumber",
         InOrder => InOrder'
  PROVE  OrderHeld'
<1>1. OrderHeld
  BY WritesIs DEF GalleryInv, Settled
<1>2. CASE brokenOff
  BY <1>2 DEF OrderHeld
<1>3. CASE \E e \in Uploaders : Midway(e)
  <2>1. PICK e \in Uploaders : Midway(e)
    BY <1>3
  <2>2. e # d
    BY <2>1 DEF Midway
  <2>3. clients'[e].step = clients[e].step /\ clients'[e].todo = clients[e].todo
        /\ (clients[e].step # "idle" => clients'[e].passed)
    BY <2>2, WritesIs
  <2>4. Midway(e)' /\ clients'[e].passed
    BY <2>1, <2>3 DEF Midway
  <2>. QED
    BY <2>4 DEF OrderHeld
<1>4. CASE ~brokenOff /\ ~\E e \in Uploaders : Midway(e)
  <2>1. InOrder
    BY <1>1, <1>4 DEF OrderHeld
  <2>2. ASSUME NEW e \in Uploaders PROVE ~Midway(e)'
    <3>1. CASE e = d
      BY <3>1, WritesIs DEF Midway
    <3>2. CASE e # d
      <4>1. clients'[e].step = clients[e].step /\ clients'[e].todo = clients[e].todo
        BY <3>2, WritesIs
      <4>. QED
        BY <1>4, <4>1 DEF Midway
    <3>. QED
      BY <3>1, <3>2
  <2>. QED
    BY <2>1, <2>2 DEF OrderHeld
<1>. QED
  BY <1>2, <1>3, <1>4

\* A step that writes nothing
LEMMA AfterLook ==
  ASSUME GalleryInv, NEW d \in Uploaders, NEW row \in ClientRow,
         clients' = [clients EXCEPT ![d] = row],
         UNCHANGED <<limit, cover, gallery, made, pictures, uncovered, together>>,
         brokenOff' \in BOOLEAN,
         Writable(d)', together \/ (UpToDate(d)' /\ OrderHeld'),
         row.step \in {"list", "renumber"} =>
           clients[d].step \in {"list", "renumber"} /\ row.passed = clients[d].passed,
         together \/ (Brings(d) => Brings(d)' \/ cover = PrimaryPicture(gallery))
  PROVE  GalleryInv'
<1>1. /\ clients' \in [Uploaders -> ClientRow] /\ clients'[d] = row
      /\ \A e \in Uploaders : e # d => clients'[e] = clients[e]
  BY GalleryTyped
<1>2. ASSUME NEW e \in Uploaders, e # d PROVE Writable(e)' /\ (UpToDate(e) => UpToDate(e)') /\ (Brings(e) => Brings(e)')
  <2>1. Writable(e)
    BY GalleryTyped
  <2>. QED
    BY <1>1, <1>2, <2>1 DEF Writable, UpToDate, Brings
<1>3. RowsMade'
  BY GalleryTyped DEF RowsMade
<1>4. CASE together
  BY <1>1, <1>2, <1>3, <1>4, GalleryTyped, GalleryTypedNext
<1>5. CASE ~together
  <2>1. Settled
    BY <1>5 DEF GalleryInv
  <2>2. CoverHeld'
    BY <1>2, <1>5, <2>1 DEF Settled, CoverHeld
  <2>3. OneRemoves'
    <3> SUFFICES ASSUME NEW a \in Uploaders, NEW b \in Uploaders,
                        ~clients'[a].passed, ~clients'[b].passed,
                        clients'[a].step \in {"list", "renumber"},
                        clients'[b].step \in {"list", "renumber"}
                 PROVE  a = b
      BY DEF OneRemoves
    <3>1. ~clients[a].passed /\ clients[a].step \in {"list", "renumber"}
      BY <1>1
    <3>2. ~clients[b].passed /\ clients[b].step \in {"list", "renumber"}
      BY <1>1
    <3>. QED
      BY <2>1, <3>1, <3>2 DEF Settled, OneRemoves
  <2>4. \A e \in Uploaders : UpToDate(e)'
    BY <1>2, <1>5, <2>1 DEF Settled
  <2>5. GalleryWithinLimit'
    BY <1>5, <2>1 DEF Settled, GalleryWithinLimit
  <2>6. Settled'
    BY <1>5, <2>2, <2>3, <2>4, <2>5 DEF Settled
  <2>. QED
    BY <1>1, <1>2, <1>3, <2>6, GalleryTyped, GalleryTypedNext
<1>. QED
  BY <1>4, <1>5

LEMMA OrderLooked ==
  ASSUME GalleryInv, ~together, NEW d \in Uploaders, NEW row \in ClientRow,
         clients' = [clients EXCEPT ![d] = row], UNCHANGED <<gallery, brokenOff>>,
         ~Midway(d), row.step # "renumber"
  PROVE  OrderHeld'
<1>1. /\ clients' \in [Uploaders -> ClientRow] /\ clients'[d] = row
      /\ \A e \in Uploaders : e # d => clients'[e] = clients[e]
  BY GalleryTyped
<1>2. ~Midway(d)'
  BY <1>1 DEF Midway
<1>3. \A e \in Uploaders : e # d => (Midway(e)' <=> Midway(e)) /\ (Leads(e) => Leads(e)')
  BY <1>1 DEF Midway, Leads, Placed
<1>4. InOrder => InOrder'
  BY DEF InOrder
<1>5. OrderHeld
  BY DEF GalleryInv, Settled
<1>6. CASE brokenOff
  BY <1>6 DEF OrderHeld
<1>7. CASE \E e \in Uploaders : Midway(e) /\ clients[e].passed
  BY <1>1, <1>3, <1>7 DEF OrderHeld
<1>8. CASE /\ \A e \in Uploaders : Midway(e) => Leads(e)
           /\ InOrder \/ \E e \in Uploaders : Midway(e)
  BY <1>2, <1>3, <1>4, <1>8 DEF OrderHeld
<1>. QED
  BY <1>5, <1>6, <1>7, <1>8 DEF OrderHeld

-----------------------------------------------------------------------------
(* One lemma per action *)

\* Rows of whom nothing is left are as they were for who looks.
LEMMA RowIs ==
  ASSUME GalleryInv, NEW d \in Uploaders
  PROVE  clients[d] \in ClientRow /\ AtRest \in ClientRow /\ AtRest.step = "idle" /\ AtRest.todo = {}
<1>1. AtRest.step = "idle" /\ AtRest.todo = {}
  BY DEF AtRest
<1>2. 0 \in 0..MaxPictures /\ 0 \in 0..MaxItems
  BY GalleryAssumption
<1>3. AtRest \in ClientRow
  BY <1>2 DEF AtRest, ClientRow, GallerySteps
<1>. QED
  BY <1>1, <1>3, GalleryTyped

\* A request that ends promises nothing.
LEMMA AfterEnd ==
  ASSUME GalleryInv, NEW d \in Uploaders, Ends(d),
         UNCHANGED <<limit, cover, gallery, made, pictures, uncovered, brokenOff, together>>,
         ~Midway(d),
         together \/ (Brings(d) => cover = PrimaryPicture(gallery))
  PROVE  GalleryInv'
<1>1. clients' = [clients EXCEPT ![d] = AtRest]
  BY DEF Ends
<1>2. clients'[d] = AtRest
  BY <1>1, GalleryTyped
<1>3. Writable(d)' /\ UpToDate(d)'
  BY <1>2, RowIs DEF Writable, UpToDate
<1>4. together \/ OrderHeld'
  BY <1>1, OrderLooked, RowIs
<1>. QED
  BY <1>1, <1>3, <1>4, AfterLook, RowIs, GalleryTyped

LEMMA BeginEditingKept ==
  ASSUME GalleryInv, UNCHANGED limit, NEW d \in Uploaders, Begin(d)
  PROVE  GalleryInv'
<1>1. PICK form \in {"view", "add", "remove", "edit"} :
        clients' = [clients EXCEPT ![d].step = form, ![d].shows = cover]
  BY DEF Begin
<1>2. clients[d] = AtRest /\ ~together
      /\ UNCHANGED <<limit, cover, gallery, made, pictures, uncovered, brokenOff, together>>
  BY DEF Begin
<1> DEFINE row == [clients[d] EXCEPT !.step = form, !.shows = cover]
<1>3. /\ row \in ClientRow /\ row.step = form /\ row.shows = cover /\ row.todo = clients[d].todo
  BY RowIs, GalleryTyped DEF ClientRow, GallerySteps
<1>4. clients' = [clients EXCEPT ![d] = row]
  BY <1>1
<1> HIDE DEF row
<1>5. clients'[d] = row /\ row.todo = {}
  BY <1>2, <1>3, <1>4, RowIs, GalleryTyped
<1>6. Writable(d)' /\ UpToDate(d)'
  BY <1>2, <1>3, <1>5 DEF Writable, UpToDate
<1>7. ~Midway(d) /\ ~Brings(d)
  BY <1>2, RowIs DEF Midway, Brings
<1>8. OrderHeld'
  BY <1>2, <1>3, <1>4, <1>7, OrderLooked
<1>. QED
  BY <1>2, <1>3, <1>4, <1>6, <1>7, <1>8, AfterLook, GalleryTyped

\* Only the step changes
LEMMA AfterGo ==
  ASSUME GalleryInv, NEW d \in Uploaders, NEW step \in GallerySteps \ {"list", "renumber"}, Goes(d, step),
         UNCHANGED <<limit, cover, gallery, made, pictures, uncovered, brokenOff, together>>,
         ~Midway(d), step \notin {"insert", "first", "replace"},
         step \in {"viewEmpty", "addEmpty", "primary", "seed"} => clients[d].shows # 0,
         together \/ clients[d].passed \/ UpToDate(d)',
         together \/ (Brings(d) => Brings(d)' \/ cover = PrimaryPicture(gallery))
  PROVE  GalleryInv'
<1> DEFINE row == [clients[d] EXCEPT !.step = step]
<1>1. /\ row \in ClientRow /\ row.step = step /\ row.shows = clients[d].shows
      /\ row.todo = clients[d].todo /\ row.passed = clients[d].passed /\ row.rank = clients[d].rank
  BY RowIs DEF ClientRow
<1>2. clients' = [clients EXCEPT ![d] = row]
  BY DEF Goes
<1> HIDE DEF row
<1>3. clients'[d] = row
  BY <1>1, <1>2, GalleryTyped
<1>4. Writable(d)
  BY GalleryTyped
<1>5. Writable(d)'
  BY <1>1, <1>3, <1>4 DEF Writable
<1>6. together \/ UpToDate(d)'
  BY <1>1, <1>3 DEF UpToDate
<1>7. together \/ OrderHeld'
  BY <1>1, <1>2, OrderLooked
<1>. QED
  BY <1>1, <1>2, <1>5, <1>6, <1>7, AfterLook, GalleryTyped

LEMMA LookForRowsKept ==
  ASSUME GalleryInv, UNCHANGED limit, NEW d \in Uploaders, LookForRows(d)
  PROVE  GalleryInv'
<1>0. /\ UNCHANGED <<limit, cover, gallery, made, pictures, uncovered, brokenOff, together>>
      /\ clients[d].step \in {"view", "add"} /\ ~Midway(d) /\ ~Brings(d)
  BY DEF LookForRows, Midway, Brings
<1>1. together \/ UpToDate(d)
  BY DEF GalleryInv, Settled
<1>2. ASSUME NEW step \in {"viewEmpty", "addEmpty", "count"}, Goes(d, step),
             step \in {"viewEmpty", "addEmpty"} => clients[d].shows # 0 /\ Shown(gallery) = {},
             step = "count" => clients[d].shows = 0 \/ Shown(gallery) # {}
      PROVE  GalleryInv'
  <2>1. clients'[d].step = step /\ clients'[d].shows = clients[d].shows
        /\ clients'[d].passed = clients[d].passed
    BY <1>2, RowIs, GalleryTyped DEF Goes, ClientRow
  <2>2. together \/ UpToDate(d)'
    BY <1>0, <1>1, <1>2, <2>1 DEF UpToDate
  <2>3. step \in GallerySteps \ {"list", "renumber"}
    BY DEF GallerySteps
  <2>. QED
    BY <1>0, <1>2, <2>2, <2>3, AfterGo
<1>3. CASE /\ clients[d].step = "view"
           /\ IF clients[d].shows # 0 /\ Shown(gallery) = {} THEN Goes(d, "viewEmpty") ELSE Ends(d)
  BY <1>0, <1>2, <1>3, AfterEnd
<1>4. CASE /\ clients[d].step = "add"
           /\ Goes(d, IF clients[d].shows # 0 /\ Shown(gallery) = {} THEN "addEmpty" ELSE "count")
  <2>1. CASE clients[d].shows # 0 /\ Shown(gallery) = {}
    BY <1>2, <1>4, <2>1
  <2>2. CASE ~(clients[d].shows # 0 /\ Shown(gallery) = {})
    BY <1>2, <1>4, <2>2
  <2>. QED
    BY <2>1, <2>2
<1>. QED
  BY <1>3, <1>4 DEF LookForRows

LEMMA CountRowsKept ==
  ASSUME GalleryInv, UNCHANGED limit, NEW d \in Uploaders, CountRows(d)
  PROVE  GalleryInv'
<1>0. /\ UNCHANGED <<limit, cover, gallery, made, pictures, uncovered, brokenOff, together>>
      /\ clients[d].step = "count" /\ ~Midway(d) /\ ~Brings(d)
  BY DEF CountRows, Midway, Brings
<1>1. together \/ UpToDate(d)
  BY DEF GalleryInv, Settled
<1>2. CASE Cardinality(Shown(gallery)) >= limit
  BY <1>0, <1>2, AfterEnd DEF CountRows
<1>3. CASE ~(Cardinality(Shown(gallery)) >= limit)
  <2> DEFINE next == NextSort(gallery)
  <2> DEFINE row == [clients[d] EXCEPT !.step = "insert", !.rank = next]
  <2>1. next \in Nat /\ next <= made /\ made \in 0..MaxItems /\ MaxItems \in Nat
    <3>1. \A i \in Shown(gallery) : gallery[i].sort < made
      BY GalleryTyped, ShownFinite DEF RowsMade, Shown
    <3>. QED
      BY <3>1, NextSortIs, GalleryTyped
  <2>2. next \in 0..MaxItems
    BY <2>1
  <2> HIDE DEF next
  <2>3. /\ row \in ClientRow /\ row.step = "insert" /\ row.rank = next /\ row.todo = clients[d].todo
        /\ row.shows = clients[d].shows /\ row.passed = clients[d].passed
    BY <2>2, RowIs DEF ClientRow, GallerySteps
  <2>4. clients' = [clients EXCEPT ![d] = row]
    BY <1>3 DEF CountRows, next
  <2> HIDE DEF row
  <2>5. clients'[d] = row
    BY <2>3, <2>4, GalleryTyped
  <2>6. Writable(d)'
    <3>1. Writable(d)
      BY GalleryTyped
    <3>. QED
      BY <1>0, <2>1, <2>3, <2>5, <3>1 DEF Writable
  <2>7. Cardinality(Shown(gallery)) < limit
    BY <1>3, ShownFinite, GalleryTyped
  <2>8. together \/ UpToDate(d)'
    BY <1>0, <1>1, <2>3, <2>5, <2>7 DEF UpToDate, next
  <2>9. together \/ OrderHeld'
    BY <1>0, <2>3, <2>4, OrderLooked
  <2>. QED
    BY <1>0, <2>3, <2>4, <2>6, <2>8, <2>9, AfterLook, GalleryTyped
<1>. QED
  BY <1>2, <1>3

LEMMA ComparePrimaryKept ==
  ASSUME GalleryInv, UNCHANGED limit, NEW d \in Uploaders, ComparePrimary(d)
  PROVE  GalleryInv'
<1>0. /\ UNCHANGED <<limit, cover, gallery, made, pictures, uncovered, brokenOff, together>>
      /\ clients[d].step = "compare" /\ ~Midway(d)
  BY DEF ComparePrimary, Midway
<1>2. CASE PrimaryPicture(gallery) = clients[d].shows
  BY <1>0, <1>2, AfterEnd DEF ComparePrimary, Brings
<1>3. CASE PrimaryPicture(gallery) # clients[d].shows
  <2> DEFINE row == [clients[d] EXCEPT !.step = "show", !.shows = PrimaryPicture(gallery)]
  <2>1. PrimaryPicture(gallery) \in 0..MaxPictures
    <3>1. Shown(gallery) # {} => FirstOf(gallery) \in ItemIds
      BY FirstIs, ShownFinite, GalleryTyped
    <3>2. 0 \in 0..MaxPictures
      BY GalleryAssumption
    <3>. QED
      BY <3>1, <3>2, GalleryTyped DEF PrimaryPicture, GalleryRows
  <2>3. /\ row \in ClientRow /\ row.step = "show" /\ row.todo = clients[d].todo
        /\ row.shows = PrimaryPicture(gallery) /\ row.passed = clients[d].passed
    BY <2>1, RowIs DEF ClientRow, GallerySteps
  <2>4. clients' = [clients EXCEPT ![d] = row]
    BY <1>3 DEF ComparePrimary
  <2> HIDE DEF row
  <2>5. clients'[d] = row
    BY <2>3, <2>4, GalleryTyped
  <2>6. Writable(d)'
    <3>1. Writable(d)
      BY GalleryTyped
    <3>. QED
      BY <1>0, <2>3, <2>5, <3>1 DEF Writable
  <2>7. UpToDate(d)' /\ Brings(d)'
    BY <1>0, <2>3, <2>5 DEF UpToDate, Brings
  <2>8. together \/ OrderHeld'
    BY <1>0, <2>3, <2>4, OrderLooked
  <2>. QED
    BY <1>0, <2>3, <2>4, <2>6, <2>7, <2>8, AfterLook, GalleryTyped
<1>. QED
  BY <1>2, <1>3

LEMMA ReadPrimaryKept ==
  ASSUME GalleryInv, UNCHANGED limit, NEW d \in Uploaders, ReadPrimary(d)
  PROVE  GalleryInv'
<1>0. /\ UNCHANGED <<limit, cover, gallery, made, pictures, uncovered, brokenOff, together>>
      /\ clients[d].step = "primary" /\ ~Midway(d)
  BY DEF ReadPrimary, Midway
<1>1. (together \/ UpToDate(d)) /\ Writable(d)
  BY GalleryTyped DEF GalleryInv, Settled
<1>2. CASE Shown(gallery) = {}
  <2>1. clients'[d].step = "seed" /\ clients'[d].shows = clients[d].shows
        /\ clients'[d].passed = clients[d].passed
    BY <1>2, RowIs, GalleryTyped DEF ReadPrimary, Goes, ClientRow
  <2>2. together \/ (UpToDate(d)' /\ Brings(d)')
    BY <1>0, <1>1, <1>2, <2>1 DEF UpToDate, Brings
  <2>3. "seed" \in GallerySteps \ {"list", "renumber"} /\ clients[d].shows # 0
    BY <1>0, <1>1 DEF GallerySteps, Writable
  <2>4. Goes(d, "seed")
    BY <1>2 DEF ReadPrimary
  <2>. QED
    BY <1>0, <2>2, <2>3, <2>4, AfterGo
<1>3. CASE Shown(gallery) # {}
  <2> DEFINE f == FirstOf(gallery)
  <2> DEFINE row == [clients[d] EXCEPT !.step = "replace", !.item = f]
  <2>1. f \in ItemIds /\ f \in 0..MaxItems
    BY <1>3, FirstIs, ShownFinite, GalleryTyped
  <2> HIDE DEF f
  <2>3. /\ row \in ClientRow /\ row.step = "replace" /\ row.todo = clients[d].todo
        /\ row.item = f
        /\ row.shows = clients[d].shows /\ row.passed = clients[d].passed
    BY <2>1, RowIs DEF ClientRow, GallerySteps
  <2>4. clients' = [clients EXCEPT ![d] = row]
    BY <1>3 DEF ReadPrimary, f
  <2> HIDE DEF row
  <2>5. clients'[d] = row
    BY <2>3, <2>4, GalleryTyped
  <2>6. Writable(d)'
    BY <1>0, <1>1, <2>1, <2>3, <2>5 DEF Writable
  <2>7. together \/ (UpToDate(d)' /\ Brings(d)')
    BY <1>0, <1>1, <1>3, <2>3, <2>5 DEF UpToDate, Brings, f
  <2>8. together \/ OrderHeld'
    BY <1>0, <2>3, <2>4, OrderLooked
  <2>. QED
    BY <1>0, <2>3, <2>4, <2>6, <2>7, <2>8, AfterLook, GalleryTyped
<1>. QED
  BY <1>2, <1>3

\* Who has listed the rows in order leads them to where they belong.
LEMMA ListRowsKept ==
  ASSUME GalleryInv, UNCHANGED limit, NEW d \in Uploaders, ListRows(d)
  PROVE  GalleryInv'
<1>0. /\ UNCHANGED <<limit, cover, gallery, made, pictures, uncovered, brokenOff, together>>
      /\ clients[d].step = "list" /\ ~Midway(d)
  BY DEF ListRows, Midway
<1>1. (together \/ UpToDate(d)) /\ Writable(d)
  BY GalleryTyped DEF GalleryInv, Settled
<1> DEFINE list == {t \in [item : Shown(gallery), rank : 0..MaxItems] :
                      /\ t.rank = RankOf(gallery, t.item)
                      /\ t.rank # gallery[t.item].sort}
<1> DEFINE row == [clients[d] EXCEPT !.step = "renumber", !.todo = list]
<1>2. /\ list \in SUBSET [item : ItemIds, rank : 0..MaxItems]
      /\ \A t \in list : t.item \in Shown(gallery) /\ t.rank = RankOf(gallery, t.item)
      /\ \A t, u \in list : t.item = u.item => t = u
  BY ShownFinite
<1>3. ASSUME NEW i \in Shown(gallery) PROVE RankOf(gallery, i) \in Nat /\ RankOf(gallery, i) < made
                                            /\ RankOf(gallery, i) \in 0..MaxItems
  <2> DEFINE earlier == {j \in Shown(gallery) : Before(gallery, j, i)}
  <2>1. earlier \in SUBSET Shown(gallery) /\ earlier # Shown(gallery)
    BY <1>3, BeforeIs, ShownFinite, GalleryTyped
  <2> HIDE DEF earlier
  <2>2. Cardinality(earlier) \in Nat /\ Cardinality(earlier) < Cardinality(Shown(gallery))
    BY <2>1, ShownFinite
  <2>3. RankOf(gallery, i) = Cardinality(earlier)
    BY DEF RankOf, earlier
  <2>4. Cardinality(Shown(gallery)) <= made
    <3>1. made \in Nat
      BY GalleryTyped
    <3>2. Shown(gallery) \in SUBSET (1..made)
      BY <3>1, GalleryTyped, ShownFinite DEF RowsMade, Shown, ItemIds
    <3>3. IsFiniteSet(1..made) /\ Cardinality(1..made) = made
      BY <3>1, FS_Interval
    <3>. QED
      BY <3>2, <3>3, FS_Subset
  <2>. QED
    BY <2>2, <2>3, <2>4, GalleryTyped, ShownFinite
<1>4. \A t \in list : t.rank < made
  BY <1>2, <1>3
<1> HIDE DEF list
<1>5. /\ row \in ClientRow /\ row.step = "renumber" /\ row.todo = list
      /\ row.shows = clients[d].shows /\ row.passed = clients[d].passed
  BY <1>2, RowIs DEF ClientRow, GallerySteps
<1>6. clients' = [clients EXCEPT ![d] = row]
  BY DEF ListRows, list
<1> HIDE DEF row
<1>7. clients'[d] = row /\ \A e \in Uploaders : e # d => clients'[e] = clients[e]
  BY <1>5, <1>6, GalleryTyped
<1>8. Writable(d)'
  BY <1>0, <1>2, <1>4, <1>5, <1>7 DEF Writable
<1>9. together \/ UpToDate(d)'
  BY <1>0, <1>1, <1>2, <1>5, <1>7 DEF UpToDate
<1>10. Brings(d) => Brings(d)'
  BY <1>0, <1>2, <1>5, <1>7 DEF Brings
<1>11. ASSUME InOrder PROVE Leads(d)'
  <2> SUFFICES ASSUME NEW i \in Shown(gallery), NEW j \in Shown(gallery), i < j
               PROVE  \A m, n \in 0..MaxItems : Placed(d, i, m)' /\ Placed(d, j, n)' => m <= n
    BY <1>0 DEF Leads
  <2>1. ASSUME NEW k \in Shown(gallery), NEW n \in 0..MaxItems, Placed(d, k, n)'
        PROVE  n = RankOf(gallery, k)
    <3>1. CASE \E t \in list : t.item = k /\ t.rank = n
      BY <1>2, <3>1
    <3>2. CASE gallery[k].sort = n /\ \A t \in list : t.item # k
      <4>1. ASSUME RankOf(gallery, k) # gallery[k].sort PROVE FALSE
        <5>1. [item |-> k, rank |-> RankOf(gallery, k)] \in list
          BY <1>3, <4>1 DEF list
        <5>. QED
          BY <3>2, <5>1
      <4>. QED
        BY <3>2, <4>1
    <3>. QED
      BY <1>0, <1>5, <1>7, <2>1, <3>1, <3>2 DEF Placed
  <2>2. Before(gallery, i, j)
    <3>1. gallery[i].sort <= gallery[j].sort
      BY <1>11 DEF InOrder
    <3>2. gallery[i].sort \in Nat /\ gallery[j].sort \in Nat
      BY ShownFinite, GalleryTyped DEF GalleryRows
    <3>. QED
      BY <3>1, <3>2 DEF Before
  <2>3. RankOf(gallery, i) <= RankOf(gallery, j)
    <3> DEFINE Pre(k) == {l \in Shown(gallery) : Before(gallery, l, k)}
    <3>1. Pre(i) \in SUBSET Pre(j)
      BY <2>2, BeforeIs, ShownFinite, GalleryTyped
    <3>2. Pre(j) \in SUBSET Shown(gallery)
      OBVIOUS
    <3>3. RankOf(gallery, i) = Cardinality(Pre(i)) /\ RankOf(gallery, j) = Cardinality(Pre(j))
      BY DEF RankOf
    <3> HIDE DEF Pre
    <3>4. IsFiniteSet(Pre(j))
      BY <3>2, ShownFinite
    <3>5. Cardinality(Pre(i)) <= Cardinality(Pre(j))
      BY <3>1, <3>4, FS_Subset
    <3>. QED
      BY <3>3, <3>5
  <2>. QED
    BY <2>1, <2>3
<1>12. together \/ OrderHeld'
  <2> SUFFICES ASSUME ~together PROVE OrderHeld'
    OBVIOUS
  <2>1. Settled
    BY DEF GalleryInv
  <2>2. CASE brokenOff
    BY <1>0, <2>2 DEF OrderHeld
  <2>3. CASE \E e \in Uploaders : Midway(e) /\ clients[e].passed
    BY <1>0, <1>7, <2>3 DEF OrderHeld, Midway
  <2>4. CASE ~brokenOff /\ ~\E e \in Uploaders : Midway(e) /\ clients[e].passed
    <3>1. ASSUME NEW e \in Uploaders, Midway(e) PROVE clients[d].passed
      BY <1>0, <2>1, <2>4, <3>1 DEF Settled, OneRemoves, Midway
    <3>2. CASE \E e \in Uploaders : Midway(e)
      <4>1. PICK e \in Uploaders : Midway(e)
        BY <3>2
      <4>2. clients[d].passed
        BY <3>1, <4>1
      <4>3. /\ (\A a \in Uploaders : Midway(a) => Leads(a))
        BY <2>1, <2>4 DEF Settled, OrderHeld
      <4>4. CASE Midway(d)'
        BY <1>5, <1>7, <4>2, <4>4 DEF OrderHeld
      <4>5. CASE ~Midway(d)'
        <5>1. ASSUME NEW a \in Uploaders, Midway(a)' PROVE Leads(a)'
          <6>1. a # d /\ clients'[a] = clients[a]
            BY <1>7, <4>5, <5>1
          <6>2. Midway(a)
            BY <5>1, <6>1 DEF Midway
          <6>3. Leads(a)
            BY <4>3, <6>2
          <6>. QED
            BY <1>0, <6>1, <6>3 DEF Leads, Placed
        <5>2. e # d /\ Midway(e)'
          BY <1>0, <1>7, <4>1 DEF Midway
        <5>. QED
          BY <5>1, <5>2 DEF OrderHeld
      <4>. QED
        BY <4>4, <4>5
    <3>3. CASE ~\E e \in Uploaders : Midway(e)
      <4>1. InOrder
        BY <2>1, <2>4, <3>3 DEF Settled, OrderHeld
      <4>2. InOrder' /\ Leads(d)'
        BY <1>0, <1>11, <4>1 DEF InOrder
      <4>3. ASSUME NEW a \in Uploaders, Midway(a)' PROVE Leads(a)'
        BY <1>7, <3>3, <4>2, <4>3 DEF Midway
      <4>. QED
        BY <4>2, <4>3 DEF OrderHeld
    <3>. QED
      BY <3>2, <3>3
  <2>. QED
    BY <2>2, <2>3, <2>4
<1>. QED
  BY <1>0, <1>5, <1>6, <1>8, <1>9, <1>10, <1>12, AfterLook, GalleryTyped

\* What a row is when only its step, or the cover that it holds, changes.
LEMMA AtIs ==
  ASSUME GalleryInv, NEW d \in Uploaders, NEW step \in GallerySteps, NEW p \in 0..MaxPictures
  PROVE  /\ At(d, step) \in ClientRow /\ At(d, step).step = step
         /\ At(d, step).shows = clients[d].shows /\ At(d, step).todo = clients[d].todo
         /\ At(d, step).rank = clients[d].rank /\ At(d, step).item = clients[d].item
         /\ At(d, step).passed = clients[d].passed
         /\ [At(d, step) EXCEPT !.shows = p] \in ClientRow
         /\ [At(d, step) EXCEPT !.shows = p].step = step
         /\ [At(d, step) EXCEPT !.shows = p].shows = p
         /\ [At(d, step) EXCEPT !.shows = p].todo = clients[d].todo
         /\ [At(d, step) EXCEPT !.shows = p].passed = clients[d].passed
  BY RowIs DEF At, ClientRow

\* Nothing is shown that has no picture.
LEMMA RowsShown ==
  ASSUME GalleryInv
  PROVE  \A i \in Shown(gallery) :
           /\ i \in ItemIds /\ gallery[i].picture \in 1..MaxPictures /\ gallery[i].sort \in 0..MaxItems
           /\ i <= made /\ gallery[i].sort < made /\ i \in Nat /\ gallery[i].sort \in Nat
<1>1. \A i \in Shown(gallery) : i \in ItemIds /\ gallery[i].picture # 0
  BY DEF Shown
<1>. QED
  BY <1>1, GalleryTyped DEF GalleryRows, RowsMade, ItemIds

\* A row that is made comes after all others.
LEMMA InsertedIs ==
  ASSUME GalleryInv, NEW p \in 1..MaxPictures, NEW s \in Nat, s <= made, Inserted(p, s)
  PROVE  /\ gallery' \in GalleryRows /\ made' \in 0..MaxItems /\ made' >= made /\ RowsMade'
         /\ ((\A i \in Shown(gallery) : gallery[i].sort <= s) =>
              /\ Shown(gallery') = Shown(gallery) \cup {made + 1} /\ made + 1 \notin Shown(gallery)
              /\ PrimaryPicture(gallery') =
                   IF Shown(gallery) = {} THEN p ELSE PrimaryPicture(gallery)
              /\ Cardinality(Shown(gallery')) = Cardinality(Shown(gallery)) + 1
              /\ (InOrder => InOrder'))
<1> DEFINE k == made + 1
<1>0. made \in Nat /\ MaxItems \in Nat /\ made < MaxItems /\ made' = k
  BY GalleryTyped DEF Inserted
<1>1. k \in ItemIds /\ s \in 0..MaxItems /\ k \in Nat
  BY <1>0 DEF ItemIds
<1>2. gallery' = [gallery EXCEPT ![k] = [picture |-> p, sort |-> s]]
  BY DEF Inserted
<1>3. p \in 0..MaxPictures
  BY GalleryTyped
<1>4. /\ gallery' \in GalleryRows /\ gallery'[k] = [picture |-> p, sort |-> s]
      /\ \A i \in ItemIds : i # k => gallery'[i] = gallery[i]
  BY <1>1, <1>2, <1>3, GalleryTyped DEF GalleryRows
<1>5. RowsMade'
  <2>1. \A i \in ItemIds : gallery[i].picture # 0 => i <= made /\ gallery[i].sort < made
    BY GalleryTyped DEF RowsMade
  <2>2. \A i \in ItemIds : i \in Nat /\ gallery[i].sort \in Nat
    BY GalleryTyped DEF GalleryRows, ItemIds
  <2>3. ASSUME NEW i \in ItemIds, gallery'[i].picture # 0 PROVE i <= made' /\ gallery'[i].sort < made'
    <3>1. CASE i = k
      <4>1. gallery'[i].sort = s
        BY <1>4, <3>1
      <4>. QED
        BY <1>0, <3>1, <4>1
    <3>2. CASE i # k
      <4>1. gallery'[i] = gallery[i]
        BY <1>4, <3>2
      <4>2. i <= made /\ gallery[i].sort < made
        BY <2>1, <2>3, <4>1
      <4>. QED
        BY <1>0, <2>2, <4>1, <4>2
    <3>. QED
      BY <3>1, <3>2
  <2>. QED
    BY <2>3 DEF RowsMade
<1>6. ASSUME \A i \in Shown(gallery) : gallery[i].sort <= s
      PROVE  /\ Shown(gallery') = Shown(gallery) \cup {k} /\ k \notin Shown(gallery)
             /\ PrimaryPicture(gallery') =
                  IF Shown(gallery) = {} THEN p ELSE PrimaryPicture(gallery)
             /\ Cardinality(Shown(gallery')) = Cardinality(Shown(gallery)) + 1
             /\ (InOrder => InOrder')
  <2>1. \A i \in Shown(gallery) : i < k /\ gallery[i].sort <= s
    BY <1>0, <1>6, RowsShown
  <2>2. /\ Shown(gallery') = Shown(gallery) \cup {k} /\ k \notin Shown(gallery)
        /\ PrimaryPicture(gallery') =
             IF Shown(gallery) = {} THEN p ELSE PrimaryPicture(gallery)
        /\ Cardinality(Shown(gallery')) = Cardinality(Shown(gallery)) + 1
    <3>1. gallery \in GalleryRows /\ gallery' \in GalleryRows /\ k \in ItemIds
      BY <1>1, <1>4, GalleryTyped
    <3>2. gallery'[k].picture = p /\ gallery'[k].sort = s /\ p # 0
      BY <1>4, GalleryTyped
    <3> HIDE DEF k
    <3>. QED
      BY <1>4, <2>1, <3>1, <3>2, AddedLast
  <2>3. ASSUME InOrder, NEW i \in Shown(gallery'), NEW j \in Shown(gallery'), i < j
        PROVE  gallery'[i].sort <= gallery'[j].sort
    <3>1. i # k
      BY <1>1, <2>1, <2>2, <2>3, RowsShown
    <3>2. i \in Shown(gallery) /\ gallery'[i] = gallery[i]
      BY <1>4, <2>2, <3>1, RowsShown
    <3>3. CASE j = k
      <4>1. gallery'[j].sort = s
        BY <1>4, <3>3
      <4>. QED
        BY <2>1, <3>2, <4>1
    <3>4. CASE j # k
      <4>1. j \in Shown(gallery) /\ gallery'[j] = gallery[j]
        BY <1>4, <2>2, <3>4, RowsShown
      <4>. QED
        BY <2>3, <3>2, <4>1 DEF InOrder
    <3>. QED
      BY <3>3, <3>4
  <2>. QED
    BY <2>2, <2>3 DEF InOrder
<1>. QED
  BY <1>0, <1>1, <1>4, <1>5, <1>6

LEMMA SeedGalleryKept ==
  ASSUME GalleryInv, UNCHANGED limit, NEW d \in Uploaders, SeedGallery(d)
  PROVE  GalleryInv'
<1> DEFINE p == clients[d].shows
<1>0. /\ clients[d].step \in {"viewEmpty", "addEmpty", "seed"} /\ Inserted(p, 0)
      /\ UNCHANGED <<limit, cover, pictures, uncovered, brokenOff>> /\ clients[d] \in ClientRow
      /\ Writable(d)
  BY RowIs, GalleryTyped DEF SeedGallery
<1>1. p \in 1..MaxPictures /\ made \in Nat /\ 0 <= made
  <2>1. p # 0 /\ p \in 0..MaxPictures /\ MaxPictures \in Nat
    BY <1>0, GalleryTyped DEF Writable, ClientRow
  <2>. QED
    BY <2>1, GalleryTyped
<1>2. PICK row \in {At(d, "count"), AtRest} :
        Writes(d, row) /\ (row = At(d, "count") => clients[d].step = "addEmpty")
  <2>1. CASE clients[d].step = "addEmpty" /\ Writes(d, At(d, "count"))
    BY <2>1
  <2>2. CASE clients[d].step \in {"viewEmpty", "seed"} /\ Writes(d, AtRest)
    <3>0. "count" \in GallerySteps /\ 0 \in 0..MaxPictures
      BY GalleryAssumption DEF GallerySteps
    <3>1. AtRest # At(d, "count")
      BY <3>0, AtIs, RowIs
    <3>. QED
      BY <2>2, <3>1
  <2>. QED
    BY <2>1, <2>2 DEF SeedGallery
<1>3. /\ row \in ClientRow /\ row.step \in {"idle", "count"} /\ (row.todo = clients[d].todo \/ row.todo = {})
      /\ (row.step = "count" => row.shows = p)
  <2>0. "count" \in GallerySteps /\ 0 \in 0..MaxPictures
    BY GalleryAssumption DEF GallerySteps
  <2>1. CASE row = AtRest
    BY <2>1, RowIs
  <2>2. CASE row = At(d, "count")
    BY <2>0, <2>2, AtIs
  <2>. QED
    BY <1>2, <2>1, <2>2
<1>4. /\ clients'[d] = row
      /\ (~together' => ~together /\ ~clients[d].passed)
  BY <1>2, <1>3, WritesIs
<1>5. ASSUME ~together PROVE UpToDate(d)
  BY <1>5 DEF GalleryInv, Settled
<1>6. ASSUME ~together' PROVE Shown(gallery) = {}
  BY <1>0, <1>4, <1>5, <1>6 DEF UpToDate
<1>7. /\ gallery' \in GalleryRows /\ made' \in 0..MaxItems /\ made' >= made /\ RowsMade'
      /\ (~together' =>
              /\ Shown(gallery') = {made + 1} /\ PrimaryPicture(gallery') = p
              /\ Cardinality(Shown(gallery')) = 1
              /\ (InOrder => InOrder'))
  <2>1. /\ gallery' \in GalleryRows /\ made' \in 0..MaxItems /\ made' >= made /\ RowsMade'
    BY <1>0, <1>1, InsertedIs
  <2>2. ASSUME ~together' PROVE Shown(gallery) = {} /\ Cardinality(Shown(gallery)) = 0
    BY <1>6, <2>2, FS_EmptySet
  <2>. QED
    BY <1>0, <1>1, <2>1, <2>2, InsertedIs
<1>8. Writable(d)'
  <2>1. made \in Nat /\ made' \in Nat /\ \A t \in clients[d].todo : t.rank \in Nat
    BY <1>0, <1>7, GalleryTyped DEF ClientRow
  <2>. QED
    BY <1>0, <1>3, <1>4, <1>7, <2>1 DEF Writable
<1>9. ASSUME ~together' PROVE UpToDate(d)' /\ CoverHeld' /\ OrderHeld' /\ GalleryWithinLimit'
  <2>1. cover = p
    BY <1>0, <1>4, <1>5, <1>9 DEF UpToDate
  <2>2. UpToDate(d)'
    BY <1>0, <1>3, <1>4, <1>7, <1>9, <2>1 DEF UpToDate
  <2>3. CoverHeld'
    BY <1>0, <1>7, <1>9, <2>1 DEF CoverHeld
  <2>4. OrderHeld'
    BY <1>0, <1>2, <1>3, <1>7, <1>9, OrderAsBefore
  <2>5. GalleryWithinLimit'
    <3>1. limit' \in Nat
      BY <1>0, GalleryTyped
    <3>. QED
      BY <1>7, <1>9, <3>1 DEF GalleryWithinLimit
  <2>. QED
    BY <2>2, <2>3, <2>4, <2>5
<1>. QED
  BY <1>0, <1>2, <1>3, <1>7, <1>8, <1>9, AfterWrite, GalleryTyped

LEMMA AddPictureKept ==
  ASSUME GalleryInv, UNCHANGED limit, NEW d \in Uploaders, AddPicture(d)
  PROVE  GalleryInv'
<1> DEFINE p == pictures + 1
<1>0. /\ clients[d].step = "insert" /\ Inserted(p, clients[d].rank) /\ pictures' = p
      /\ UNCHANGED <<limit, cover, uncovered, brokenOff>> /\ clients[d] \in ClientRow
      /\ Writable(d)
  BY RowIs, GalleryTyped DEF AddPicture
<1>1. /\ p \in 1..MaxPictures /\ p \in 0..MaxPictures /\ p # 0
      /\ made \in Nat /\ clients[d].rank \in Nat /\ clients[d].rank <= made
  BY <1>0, GalleryTyped DEF AddPicture, Writable, ClientRow
<1> HIDE DEF p
<1> DEFINE row == IF clients[d].shows = 0 THEN [At(d, "first") EXCEPT !.shows = p] ELSE AtRest
<1>2. Writes(d, row)
  BY DEF AddPicture, p
<1>3. /\ row \in ClientRow /\ row.step \in {"idle", "first"}
      /\ (row.todo = clients[d].todo \/ row.todo = {})
      /\ (row.step = "first" => row.shows = p)
      /\ (clients[d].shows = 0 => row.step = "first")
  <2>0. "first" \in GallerySteps
    BY DEF GallerySteps
  <2>1. CASE clients[d].shows = 0
    BY <1>1, <2>0, <2>1, AtIs
  <2>2. CASE clients[d].shows # 0
    BY <2>2, RowIs
  <2>. QED
    BY <2>1, <2>2
<1> HIDE DEF row
<1>4. clients'[d] = row /\ (~together' => ~together /\ ~clients[d].passed)
  BY <1>2, <1>3, WritesIs
<1>5. ASSUME ~together'
      PROVE  /\ clients[d].shows = cover /\ clients[d].rank = NextSort(gallery)
             /\ Cardinality(Shown(gallery)) < limit
             /\ (clients[d].shows = 0 \/ Shown(gallery) # {})
  <2>1. UpToDate(d)
    BY <1>4, <1>5 DEF GalleryInv, Settled
  <2>. QED
    BY <1>0, <1>4, <1>5, <2>1 DEF UpToDate
<1>6. gallery' \in GalleryRows /\ made' \in 0..MaxItems /\ made' >= made /\ RowsMade'
  BY <1>0, <1>1, InsertedIs
<1>7. ASSUME ~together'
      PROVE  /\ Shown(gallery') = Shown(gallery) \cup {made + 1}
             /\ PrimaryPicture(gallery') =
                  IF Shown(gallery) = {} THEN p ELSE PrimaryPicture(gallery)
             /\ Cardinality(Shown(gallery')) = Cardinality(Shown(gallery)) + 1
             /\ (InOrder => InOrder')
  <2>1. \A i \in Shown(gallery) : gallery[i].sort <= clients[d].rank
    BY <1>5, <1>7, NextSortIs, GalleryTyped
  <2>. QED
    BY <1>0, <1>1, <2>1, InsertedIs
<1>8. Writable(d)'
  <2>1. made' \in Nat /\ \A t \in clients[d].todo : t.rank \in Nat
    BY <1>0, <1>6, GalleryTyped DEF ClientRow
  <2>. QED
    BY <1>0, <1>1, <1>3, <1>4, <1>6, <2>1 DEF Writable
<1>9. ASSUME ~together' PROVE UpToDate(d)' /\ CoverHeld' /\ OrderHeld' /\ GalleryWithinLimit'
  <2>1. clients[d].shows = 0 \/ row.step = "idle"
    <3>1. CASE clients[d].shows # 0
      BY <3>1, RowIs DEF row
    <3>. QED
      BY <3>1
  <2>2. UpToDate(d)'
    BY <1>0, <1>3, <1>4, <1>5, <1>9, <2>1 DEF UpToDate
  <2>3. CoverHeld'
    <3>1. CASE Shown(gallery) = {}
      <4>1. row.step = "first" /\ row.shows = PrimaryPicture(gallery')
        BY <1>3, <1>5, <1>7, <1>9, <3>1
      <4>. QED
        BY <1>4, <4>1 DEF CoverHeld, Brings
    <3>2. CASE Shown(gallery) # {}
      <4>1. ~Brings(d)
        BY <1>0 DEF Brings
      <4>2. PrimaryPicture(gallery') = PrimaryPicture(gallery)
            /\ Shown(gallery) \subseteq Shown(gallery')
        BY <1>7, <1>9, <3>2
      <4>. QED
        BY <1>0, <1>2, <1>3, <1>9, <3>2, <4>1, <4>2, CoverAsBefore
    <3>. QED
      BY <3>1, <3>2
  <2>4. OrderHeld'
    BY <1>0, <1>2, <1>3, <1>7, <1>9, OrderAsBefore
  <2>5. GalleryWithinLimit'
    <3>1. limit' = limit /\ limit \in Nat /\ Cardinality(Shown(gallery)) \in Nat
      BY <1>0, GalleryTyped, ShownFinite
    <3>2. Cardinality(Shown(gallery')) <= limit /\ limit # 0
      BY <1>5, <1>7, <1>9, <3>1
    <3>. QED
      BY <3>1, <3>2 DEF GalleryWithinLimit
  <2>. QED
    BY <2>2, <2>3, <2>4, <2>5
<1>. QED
  BY <1>0, <1>1, <1>2, <1>3, <1>6, <1>8, <1>9, AfterWrite, GalleryTyped

\* A write that leaves the gallery alone
LEMMA AfterCover ==
  ASSUME GalleryInv, NEW d \in Uploaders, NEW row \in ClientRow, Writes(d, row),
         cover' \in 0..MaxPictures, pictures' \in 0..MaxPictures, uncovered' \in BOOLEAN,
         UNCHANGED <<limit, gallery, made, brokenOff>>,
         clients[d].step # "renumber", row.step \notin {"renumber", "insert", "replace"},
         row.todo = clients[d].todo \/ row.todo = {},
         row.step \in {"viewEmpty", "addEmpty", "first", "primary", "seed"} => row.shows # 0,
         together' \/ (UpToDate(d)' /\ CoverHeld')
  PROVE  GalleryInv'
<1>1. clients'[d] = row /\ (~together' => ~together)
  BY WritesIs
<1>2. Writable(d)
  BY GalleryTyped
<1>3. Writable(d)'
  BY <1>1, <1>2 DEF Writable
<1>4. RowsMade' /\ made' >= made
  BY GalleryTyped DEF RowsMade
<1>5. InOrder => InOrder'
  BY DEF InOrder
<1>6. together' \/ OrderHeld'
  BY <1>5, OrderAsBefore
<1>7. together' \/ GalleryWithinLimit'
  BY <1>1 DEF GalleryInv, Settled, GalleryWithinLimit
<1>. QED
  BY <1>3, <1>4, <1>6, <1>7, AfterWrite, GalleryTyped

LEMMA ShowFirstKept ==
  ASSUME GalleryInv, UNCHANGED limit, NEW d \in Uploaders, ShowFirst(d)
  PROVE  GalleryInv'
<1>0. /\ clients[d].step = "first" /\ cover' = clients[d].shows /\ Writes(d, AtRest)
      /\ UNCHANGED <<limit, gallery, made, pictures, uncovered, brokenOff>>
      /\ clients[d] \in ClientRow /\ AtRest \in ClientRow /\ AtRest.step = "idle" /\ AtRest.todo = {}
  BY RowIs DEF ShowFirst
<1>1. cover' \in 0..MaxPictures
  BY <1>0 DEF ClientRow
<1>2. clients'[d] = AtRest /\ (~together' => ~together /\ ~clients[d].passed)
  BY <1>0, WritesIs
<1>3. ASSUME ~together' PROVE UpToDate(d)' /\ CoverHeld'
  <2>1. UpToDate(d)
    BY <1>2, <1>3 DEF GalleryInv, Settled
  <2>2. cover = 0
    BY <1>0, <1>2, <1>3, <2>1 DEF UpToDate
  <2>3. Shown(gallery) # {} => PrimaryPicture(gallery) # 0
    BY FirstIs, GalleryTyped DEF PrimaryPicture, Shown
  <2>4. Brings(d) => cover' = PrimaryPicture(gallery)
    BY <1>0, <1>2, <1>3 DEF Brings
  <2>5. CoverHeld'
    BY <1>0, <1>3, <2>2, <2>3, <2>4, CoverAsBefore
  <2>. QED
    BY <1>0, <1>2, <2>5 DEF UpToDate
<1>. QED
  BY <1>0, <1>1, <1>3, AfterCover, GalleryTyped

LEMMA ShowPrimaryKept ==
  ASSUME GalleryInv, UNCHANGED limit, NEW d \in Uploaders, ShowPrimary(d)
  PROVE  GalleryInv'
<1>0. /\ clients[d].step = "show" /\ cover' = clients[d].shows /\ Writes(d, AtRest)
      /\ uncovered' = FALSE
      /\ UNCHANGED <<limit, gallery, made, pictures, brokenOff>>
      /\ clients[d] \in ClientRow /\ AtRest \in ClientRow /\ AtRest.step = "idle" /\ AtRest.todo = {}
  BY RowIs DEF ShowPrimary
<1>1. cover' \in 0..MaxPictures
  BY <1>0 DEF ClientRow
<1>2. clients'[d] = AtRest /\ (~together' => ~together /\ ~clients[d].passed)
  BY <1>0, WritesIs
<1>3. ASSUME ~together' PROVE UpToDate(d)' /\ CoverHeld'
  <2>1. UpToDate(d)
    BY <1>2, <1>3 DEF GalleryInv, Settled
  <2>2. cover' = PrimaryPicture(gallery')
    BY <1>0, <1>2, <1>3, <2>1 DEF UpToDate
  <2>. QED
    BY <1>0, <1>2, <2>2 DEF UpToDate, CoverHeld
<1>4. uncovered' \in BOOLEAN
  BY <1>0
<1>. QED
  BY <1>0, <1>1, <1>3, <1>4, AfterCover, GalleryTyped

LEMMA NewCoverKept ==
  ASSUME GalleryInv, UNCHANGED limit, NEW d \in Uploaders, NewCover(d)
  PROVE  GalleryInv'
<1> DEFINE p == pictures + 1
<1> DEFINE row == [At(d, "primary") EXCEPT !.shows = p]
<1>0. /\ clients[d].step = "edit" /\ cover' = p /\ pictures' = p /\ Writes(d, row)
      /\ uncovered' = FALSE /\ UNCHANGED <<limit, gallery, made, brokenOff>>
      /\ clients[d] \in ClientRow
  BY RowIs DEF NewCover
<1>1. p \in 0..MaxPictures /\ p # 0
  BY GalleryTyped DEF NewCover
<1>2. "primary" \in GallerySteps
  BY DEF GallerySteps
<1> HIDE DEF p
<1>3. row \in ClientRow /\ row.step = "primary" /\ row.shows = p /\ row.todo = clients[d].todo
  BY <1>1, <1>2, AtIs
<1> HIDE DEF row
<1>4. clients'[d] = row
  BY <1>0, <1>3, WritesIs
<1>5. UpToDate(d)' /\ CoverHeld'
  BY <1>0, <1>3, <1>4 DEF UpToDate, CoverHeld, Brings
<1>6. uncovered' \in BOOLEAN
  BY <1>0
<1>. QED
  BY <1>0, <1>1, <1>3, <1>5, <1>6, AfterCover, GalleryTyped

LEMMA SaveProfileRowKept ==
  ASSUME GalleryInv, UNCHANGED limit, NEW d \in Uploaders, SaveProfileRow(d)
  PROVE  GalleryInv'
<1>0. /\ clients[d].step = "edit" /\ cover' \in {0, clients[d].shows} /\ Writes(d, AtRest)
      /\ uncovered' = (uncovered \/ (cover' = 0 /\ Shown(gallery) # {}))
      /\ UNCHANGED <<limit, gallery, made, pictures, brokenOff>>
      /\ clients[d] \in ClientRow /\ AtRest \in ClientRow /\ AtRest.step = "idle" /\ AtRest.todo = {}
  BY RowIs DEF SaveProfileRow
<1>1. cover' \in 0..MaxPictures /\ uncovered' \in BOOLEAN
  BY <1>0, GalleryTyped DEF ClientRow
<1>2. clients'[d] = AtRest /\ (~together' => ~together /\ ~clients[d].passed)
  BY <1>0, WritesIs
<1>3. ASSUME ~together' PROVE UpToDate(d)' /\ CoverHeld'
  <2>1. UpToDate(d)
    BY <1>2, <1>3 DEF GalleryInv, Settled
  <2>2. CASE cover' = 0 /\ Shown(gallery) # {}
    <3>1. uncovered'
      BY <1>0, <2>2
    <3>. QED
      BY <1>0, <1>2, <3>1 DEF UpToDate, CoverHeld
  <2>3. CASE Shown(gallery) = {}
    BY <1>0, <1>2, <2>3 DEF UpToDate, CoverHeld
  <2>4. CASE cover' = clients[d].shows
    <3>1. cover' = cover
      BY <1>0, <1>2, <1>3, <2>1, <2>4 DEF UpToDate
    <3>2. ~Brings(d) /\ (uncovered => uncovered')
      BY <1>0 DEF Brings
    <3>3. CoverHeld'
      BY <1>0, <1>3, <3>1, <3>2, CoverAsBefore
    <3>. QED
      BY <1>0, <1>2, <3>3 DEF UpToDate
  <2>. QED
    BY <1>0, <2>2, <2>3, <2>4
<1>. QED
  BY <1>0, <1>1, <1>3, AfterCover, GalleryTyped

LEMMA RemovePictureKept ==
  ASSUME GalleryInv, UNCHANGED limit, NEW d \in Uploaders, RemovePicture(d)
  PROVE  GalleryInv'
<1> DEFINE row == At(d, "list")
<1>0. /\ clients[d].step = "remove" /\ Writes(d, row)
      /\ UNCHANGED <<limit, cover, made, pictures, uncovered, brokenOff>>
      /\ clients[d] \in ClientRow /\ Writable(d)
  BY RowIs, GalleryTyped DEF RemovePicture
<1>1. PICK i \in Shown(gallery) : gallery' = [gallery EXCEPT ![i] = NoItem]
  BY DEF RemovePicture
<1>2. "list" \in GallerySteps /\ 0 \in 0..MaxPictures /\ 0 \in 0..MaxItems
  BY GalleryAssumption DEF GallerySteps
<1>3. row \in ClientRow /\ row.step = "list" /\ row.shows = clients[d].shows /\ row.todo = clients[d].todo
  BY <1>2, AtIs
<1> HIDE DEF row
<1>4. clients'[d] = row /\ (~together' => ~together /\ ~clients[d].passed)
  BY <1>0, <1>3, WritesIs
<1>5. NoItem \in [picture : 0..MaxPictures, sort : 0..MaxItems] /\ NoItem.picture = 0
  BY <1>2 DEF NoItem
<1>6. /\ gallery' \in GalleryRows /\ gallery'[i] = NoItem
      /\ \A j \in ItemIds : j # i => gallery'[j] = gallery[j]
  BY <1>1, <1>5, RowsShown, GalleryTyped DEF GalleryRows
<1>7. Shown(gallery') \in SUBSET Shown(gallery)
      /\ \A j \in Shown(gallery') : gallery'[j] = gallery[j]
  BY <1>5, <1>6 DEF Shown
<1>8. RowsMade' /\ made' >= made
  BY <1>0, <1>5, <1>6, GalleryTyped DEF RowsMade
<1>9. InOrder => InOrder'
  BY <1>7 DEF InOrder
<1>10. Writable(d)'
  BY <1>0, <1>3, <1>4 DEF Writable
<1>11. ASSUME ~together' PROVE UpToDate(d)' /\ CoverHeld' /\ OrderHeld' /\ GalleryWithinLimit'
  <2>1. UpToDate(d) /\ GalleryWithinLimit
    BY <1>4, <1>11 DEF GalleryInv, Settled
  <2>2. cover = row.shows
    BY <1>0, <1>3, <1>4, <1>11, <2>1 DEF UpToDate
  <2>3. UpToDate(d)'
    BY <1>0, <1>3, <1>4, <2>2 DEF UpToDate
  <2>4. CoverHeld'
    BY <1>0, <1>3, <1>4, <2>2 DEF CoverHeld, Brings
  <2>5. OrderHeld'
    BY <1>0, <1>3, <1>9, <1>11, OrderAsBefore
  <2>6. GalleryWithinLimit'
    <3>1. /\ limit' = limit /\ limit \in Nat /\ Cardinality(Shown(gallery)) \in Nat
          /\ Cardinality(Shown(gallery')) \in Nat
          /\ Cardinality(Shown(gallery')) <= Cardinality(Shown(gallery))
      BY <1>0, <1>7, GalleryTyped, ShownFinite
    <3>. QED
      BY <1>4, <1>11, <2>1, <3>1 DEF GalleryWithinLimit
  <2>. QED
    BY <2>3, <2>4, <2>5, <2>6
<1>. QED
  BY <1>0, <1>3, <1>6, <1>8, <1>10, <1>11, AfterWrite, GalleryTyped

LEMMA ReplacePrimaryKept ==
  ASSUME GalleryInv, UNCHANGED limit, NEW d \in Uploaders, ReplacePrimary(d)
  PROVE  GalleryInv'
<1> DEFINE i == clients[d].item
<1> DEFINE p == clients[d].shows
<1>0. /\ clients[d].step = "replace" /\ Writes(d, AtRest)
      /\ UNCHANGED <<limit, cover, made, pictures, uncovered, brokenOff>>
      /\ clients[d] \in ClientRow /\ Writable(d)
      /\ AtRest \in ClientRow /\ AtRest.step = "idle" /\ AtRest.todo = {}
      /\ IF gallery[i].picture = 0 THEN UNCHANGED gallery
         ELSE gallery' = [gallery EXCEPT ![i] = [picture |-> p, sort |-> 0]]
  BY RowIs, GalleryTyped DEF ReplacePrimary
<1>1. i \in ItemIds /\ p \in 0..MaxPictures /\ p # 0 /\ 0 \in 0..MaxItems /\ made \in Nat
  BY <1>0, GalleryTyped DEF Writable, ClientRow
<1>2. clients'[d] = AtRest /\ (~together' => ~together /\ ~clients[d].passed)
  BY <1>0, WritesIs
<1> HIDE DEF i, p
<1>3. gallery' \in GalleryRows /\ \A j \in ItemIds : j # i => gallery'[j] = gallery[j]
  <2>1. CASE gallery[i].picture = 0
    BY <1>0, <2>1, GalleryTyped
  <2>2. CASE gallery[i].picture # 0
    BY <1>0, <1>1, <2>2, GalleryTyped DEF GalleryRows
  <2>. QED
    BY <2>1, <2>2
<1>4. gallery[i].picture # 0 => gallery'[i].picture = p /\ gallery'[i].sort = 0
  BY <1>0, <1>1, GalleryTyped DEF GalleryRows
<1>5. Shown(gallery') = Shown(gallery)
  <2>1. CASE gallery[i].picture = 0
    BY <1>0, <2>1
  <2>2. CASE gallery[i].picture # 0
    BY <1>1, <1>3, <1>4, <2>2 DEF Shown
  <2>. QED
    BY <2>1, <2>2
<1>6. RowsMade' /\ made' >= made
  <2>1. \A j \in ItemIds : gallery[j].picture # 0 => j <= made /\ gallery[j].sort < made /\ j \in Nat
    BY GalleryTyped DEF RowsMade, ItemIds
  <2>2. ASSUME NEW j \in ItemIds, gallery'[j].picture # 0 PROVE j <= made /\ gallery'[j].sort < made
    <3>1. CASE j # i
      BY <1>3, <2>1, <2>2, <3>1
    <3>2. CASE j = i
      <4>1. CASE gallery[i].picture = 0
        BY <1>0, <2>2, <3>2, <4>1
      <4>2. CASE gallery[i].picture # 0
        <5>1. i <= made /\ gallery'[i].sort = 0 /\ i \in 1..MaxItems
          BY <1>1, <1>4, <2>1, <4>2 DEF ItemIds
        <5>. QED
          BY <1>1, <3>2, <5>1
      <4>. QED
        BY <4>1, <4>2
    <3>. QED
      BY <3>1, <3>2
  <2>. QED
    BY <1>0, <1>1, <2>2 DEF RowsMade
<1>7. Writable(d)'
  BY <1>0, <1>2 DEF Writable
<1>8. ASSUME ~together' PROVE UpToDate(d)' /\ CoverHeld' /\ OrderHeld' /\ GalleryWithinLimit'
  <2>1. UpToDate(d) /\ GalleryWithinLimit
    BY <1>2, <1>8 DEF GalleryInv, Settled
  <2>2. cover = p /\ i = FirstOf(gallery) /\ Shown(gallery) # {}
    BY <1>0, <1>2, <1>8, <2>1 DEF UpToDate, i, p
  <2>3. i \in Shown(gallery) /\ \A j \in Shown(gallery) : j # i => Before(gallery, i, j)
    BY <2>2, FirstIs, GalleryTyped
  <2>4. gallery[i].picture # 0 /\ gallery'[i].picture = p /\ gallery'[i].sort = 0
    BY <1>4, <2>3 DEF Shown
  <2>5. ASSUME NEW j \in Shown(gallery), j # i PROVE Before(gallery', i, j)
    <3>1. gallery'[j] = gallery[j] /\ Before(gallery, i, j) /\ gallery[j].sort \in Nat
          /\ gallery[i].sort \in Nat /\ i \in Nat /\ j \in Nat
      BY <1>3, <2>3, <2>5, RowsShown
    <3>. QED
      BY <2>4, <3>1 DEF Before
  <2>6. PrimaryPicture(gallery') = p
    <3>1. i \in Shown(gallery') /\ \A j \in Shown(gallery') : j # i => Before(gallery', i, j)
      BY <1>5, <2>3, <2>5
    <3>. QED
      BY <1>3, <2>4, <3>1, FirstAlone
  <2>7. CoverHeld'
    BY <1>0, <2>2, <2>6 DEF CoverHeld
  <2>8. ASSUME InOrder, NEW j \in Shown(gallery'), NEW k \in Shown(gallery'), j < k
        PROVE  gallery'[j].sort <= gallery'[k].sort
    <3>1. /\ j \in Shown(gallery) /\ k \in Shown(gallery) /\ gallery[j].sort <= gallery[k].sort
          /\ j \in Nat /\ k \in Nat /\ gallery[j].sort \in Nat /\ gallery[k].sort \in Nat
      BY <1>5, <2>8, RowsShown DEF InOrder
    <3>2. k # i
      <4> SUFFICES ASSUME k = i PROVE FALSE
        OBVIOUS
      <4>1. Before(gallery, k, j)
        BY <2>3, <2>8, <3>1
      <4>. QED
        BY <2>8, <3>1, <4>1 DEF Before
    <3>3. gallery'[k] = gallery[k]
      BY <1>3, <3>1, <3>2, RowsShown
    <3>4. CASE j = i
      BY <2>4, <3>1, <3>3, <3>4
    <3>5. CASE j # i
      <4>1. gallery'[j] = gallery[j]
        BY <1>3, <3>1, <3>5, RowsShown
      <4>. QED
        BY <3>1, <3>3, <4>1
    <3>. QED
      BY <3>4, <3>5
  <2>9. InOrder => InOrder'
    BY <2>8 DEF InOrder
  <2>10. OrderHeld'
    BY <1>0, <1>8, <2>9, OrderAsBefore
  <2>11. GalleryWithinLimit'
    BY <1>0, <1>2, <1>5, <1>8, <2>1 DEF GalleryWithinLimit
  <2>. QED
    BY <1>0, <1>2, <2>7, <2>10, <2>11 DEF UpToDate
<1>. QED
  BY <1>0, <1>3, <1>6, <1>7, <1>8, AfterWrite, GalleryTyped

\* The row that is next gets the place that it was given.
LEMMA RenumberKept ==
  ASSUME GalleryInv, UNCHANGED limit, NEW d \in Uploaders, Renumber(d)
  PROVE  GalleryInv'
<1>0. /\ clients[d].step = "renumber" /\ UNCHANGED <<limit, cover, made, pictures, uncovered>>
      /\ clients[d] \in ClientRow /\ Writable(d)
  BY RowIs, GalleryTyped DEF Renumber
<1>1. together \/ UpToDate(d)
  BY DEF GalleryInv, Settled
<1>2. CASE clients[d].todo = {}
  <2>1. Goes(d, "compare") /\ UNCHANGED <<gallery, brokenOff, together>> /\ ~Midway(d)
    BY <1>2 DEF Renumber, Midway
  <2>2. clients'[d].step = "compare" /\ clients'[d].shows = clients[d].shows
        /\ clients'[d].passed = clients[d].passed
    BY <1>0, <2>1, GalleryTyped DEF Goes, ClientRow
  <2>3. together \/ UpToDate(d)'
    BY <1>0, <1>1, <2>1, <2>2 DEF UpToDate
  <2>4. Brings(d) => Brings(d)'
    BY <1>0, <2>1, <2>2 DEF Brings
  <2>5. "compare" \in GallerySteps \ {"list", "renumber"}
    BY DEF GallerySteps
  <2>. QED
    BY <1>0, <2>1, <2>3, <2>4, <2>5, AfterGo
<1>3. CASE clients[d].todo # {}
  <2>1. PICK t \in clients[d].todo :
          IF gallery[t.item].picture = 0
          THEN Ends(d) /\ brokenOff' = TRUE /\ UNCHANGED <<gallery, together>>
          ELSE /\ gallery' = [gallery EXCEPT ![t.item].sort = t.rank]
               /\ Writes(d, [clients[d] EXCEPT !.todo = @ \ {t}])
               /\ UNCHANGED brokenOff
    BY <1>3 DEF Renumber
  <2>2. t \in [item : ItemIds, rank : 0..MaxItems] /\ t.rank < made
    BY <1>0 DEF ClientRow, Writable
  <2>3. CASE gallery[t.item].picture = 0
    <3>1. clients' = [clients EXCEPT ![d] = AtRest] /\ brokenOff' = TRUE
          /\ UNCHANGED <<limit, cover, gallery, made, pictures, uncovered, together>>
      BY <1>0, <2>1, <2>3 DEF Ends
    <3>2. clients'[d] = AtRest
      BY <3>1, GalleryTyped
    <3>3. Writable(d)' /\ UpToDate(d)' /\ OrderHeld'
      BY <3>1, <3>2, RowIs DEF Writable, UpToDate, OrderHeld
    <3>4. ~Brings(d)
      BY <1>0, <2>3 DEF Brings, Shown
    <3>5. brokenOff' \in BOOLEAN
      BY <3>1
    <3>. QED
      BY <3>1, <3>3, <3>4, <3>5, AfterLook, RowIs
  <2>4. CASE gallery[t.item].picture # 0
    <3> DEFINE row == [clients[d] EXCEPT !.todo = @ \ {t}]
    <3> DEFINE i == t.item
    <3>1. /\ gallery' = [gallery EXCEPT ![i].sort = t.rank] /\ Writes(d, row)
          /\ UNCHANGED brokenOff
      BY <2>1, <2>4
    <3>2. /\ row \in ClientRow /\ row.step = "renumber" /\ row.shows = clients[d].shows
          /\ row.todo = clients[d].todo \ {t}
      BY <1>0 DEF ClientRow
    <3> HIDE DEF row
    <3>3. clients'[d] = row /\ (~together' => ~together /\ ~clients[d].passed)
      BY <3>1, <3>2, WritesIs
    <3>4. i \in ItemIds /\ t.rank \in 0..MaxItems /\ made \in Nat /\ t.rank \in Nat
      BY <2>2, GalleryTyped
    <3>5. /\ gallery' \in GalleryRows /\ gallery'[i].sort = t.rank
          /\ gallery'[i].picture = gallery[i].picture
          /\ \A j \in ItemIds : j # i => gallery'[j] = gallery[j]
      BY <3>1, <3>4, GalleryTyped DEF GalleryRows
    <3>6. Shown(gallery') = Shown(gallery) /\ i \in Shown(gallery)
      BY <2>4, <3>4, <3>5 DEF Shown
    <3>7. RowsMade' /\ made' >= made
      <4>1. \A j \in ItemIds : gallery'[j].picture # 0 => j <= made /\ gallery'[j].sort < made
        BY <2>2, <2>4, <3>4, <3>5, GalleryTyped DEF RowsMade
      <4>. QED
        BY <1>0, <3>4, <4>1 DEF RowsMade
    <3>8. Writable(d)'
      BY <1>0, <3>2, <3>3 DEF Writable
    <3>9. ASSUME ~together' PROVE UpToDate(d)' /\ CoverHeld' /\ OrderHeld' /\ GalleryWithinLimit'
      <4>1. Settled /\ UpToDate(d)
        BY <1>1, <3>3, <3>9 DEF GalleryInv
      <4>2. cover = row.shows /\ \A u \in clients[d].todo : u.item \in Shown(gallery)
        BY <1>0, <3>2, <3>3, <3>9, <4>1 DEF UpToDate
      <4>3. UpToDate(d)'
        BY <1>0, <3>2, <3>3, <3>6, <4>2 DEF UpToDate
      <4>4. CoverHeld'
        BY <1>0, <3>2, <3>3, <3>6, <4>2 DEF CoverHeld, Brings
      <4>5. GalleryWithinLimit'
        BY <1>0, <3>3, <3>6, <3>9, <4>1 DEF Settled, GalleryWithinLimit
      <4>6. OrderHeld'
        <5>1. CASE brokenOff
          BY <3>1, <5>1 DEF OrderHeld
        <5>2. CASE \E e \in Uploaders : Midway(e) /\ clients[e].passed
          <6>1. PICK e \in Uploaders : Midway(e) /\ clients[e].passed
            BY <5>2
          <6>2. e # d
            BY <3>3, <3>9, <6>1
          <6>3. Midway(e)' /\ clients'[e].passed
            BY <3>1, <3>2, <6>1, <6>2, WritesIs DEF Midway
          <6>. QED
            BY <6>3 DEF OrderHeld
        <5>3. CASE ~brokenOff /\ ~\E e \in Uploaders : Midway(e) /\ clients[e].passed
          <6>1. Leads(d)
            BY <1>0, <1>3, <4>1, <5>3 DEF Settled, OrderHeld, Midway
          <6>2. ASSUME NEW e \in Uploaders, e # d PROVE ~Midway(e)'
            <7>1. ~Midway(e)
              BY <1>0, <3>3, <3>9, <4>1, <5>3, <6>2 DEF Settled, OneRemoves, Midway
            <7>2. clients'[e].step = clients[e].step /\ clients'[e].todo = clients[e].todo
              BY <3>1, <3>2, <6>2, WritesIs
            <7>. QED
              BY <7>1, <7>2 DEF Midway
          <6>3. ASSUME NEW j \in Shown(gallery), NEW n \in 0..MaxItems, Placed(d, j, n)'
                PROVE  Placed(d, j, n)
            <7>1. CASE j = i
              <8>1. ~\E u \in row.todo : u.item = j
                BY <1>0, <3>2, <7>1 DEF Writable
              <8>2. n = t.rank
                BY <3>3, <3>5, <6>3, <7>1, <8>1 DEF Placed
              <8>. QED
                BY <7>1, <8>2 DEF Placed
            <7>2. CASE j # i
              <8>1. gallery'[j] = gallery[j]
                BY <3>5, <7>2, RowsShown
              <8>. QED
                BY <3>2, <3>3, <6>3, <7>2, <8>1 DEF Placed
            <7>. QED
              BY <7>1, <7>2
          <6>4. Leads(d)'
            BY <3>6, <6>1, <6>3 DEF Leads
          <6>5. CASE row.todo # {}
            <7>1. Midway(d)'
              BY <3>2, <3>3, <6>5 DEF Midway
            <7>. QED
              BY <6>2, <6>4, <7>1 DEF OrderHeld
          <6>6. CASE row.todo = {}
            <7>1. ~Midway(d)'
              BY <3>3, <6>6 DEF Midway
            <7>2. ASSUME NEW j \in Shown(gallery'), NEW n \in 0..MaxItems, gallery'[j].sort = n
                  PROVE  Placed(d, j, n)'
              BY <3>3, <6>6, <7>2 DEF Placed
            <7>3. ASSUME NEW j \in Shown(gallery'), NEW k \in Shown(gallery'), j < k
                  PROVE  gallery'[j].sort <= gallery'[k].sort
              <8>1. PICK m \in 0..MaxItems : gallery'[j].sort = m
                BY <3>5, ShownFinite DEF GalleryRows
              <8>2. PICK n \in 0..MaxItems : gallery'[k].sort = n
                BY <3>5, ShownFinite DEF GalleryRows
              <8>3. Placed(d, j, m)' /\ Placed(d, k, n)'
                BY <7>2, <8>1, <8>2
              <8>4. m <= n
                BY <6>4, <7>3, <8>3 DEF Leads
              <8>. QED
                BY <8>1, <8>2, <8>4
            <7>4. InOrder'
              BY <7>3 DEF InOrder
            <7>. QED
              BY <6>2, <7>1, <7>4 DEF OrderHeld
          <6>. QED
            BY <6>5, <6>6
        <5>. QED
          BY <5>1, <5>2, <5>3
      <4>. QED
        BY <4>3, <4>4, <4>5, <4>6
    <3>. QED
      BY <1>0, <3>1, <3>2, <3>5, <3>7, <3>8, <3>9, AfterWrite, GalleryTyped
  <2>. QED
    BY <2>3, <2>4
<1>. QED
  BY <1>2, <1>3

LEMMA GalleryStart == GalleryInit => GalleryInv
<1> SUFFICES ASSUME GalleryInit PROVE GalleryInv
  OBVIOUS
<1>1. MaxItems \in Nat /\ MaxPictures \in Nat /\ Limits \subseteq Nat
      /\ 0 \in 0..MaxPictures /\ 0 \in 0..MaxItems
  BY GalleryAssumption
<1>2. AtRest \in ClientRow /\ AtRest.step = "idle" /\ AtRest.todo = {}
  BY <1>1 DEF AtRest, ClientRow, GallerySteps
<1>3. clients \in [Uploaders -> ClientRow] /\ \A d \in Uploaders : clients[d] = AtRest
  BY <1>2 DEF GalleryInit
<1>4. gallery \in GalleryRows /\ Shown(gallery) = {} /\ \A i \in ItemIds : gallery[i].picture = 0
  BY <1>1 DEF GalleryInit, NoItem, GalleryRows, Shown
<1>5. Cardinality(Shown(gallery)) = 0 /\ limit \in Nat
  BY <1>1, <1>4, FS_EmptySet DEF GalleryInit
<1>6. GalleryWithinLimit
  BY <1>5 DEF GalleryWithinLimit
<1>7. \A d \in Uploaders : Writable(d) /\ UpToDate(d) /\ ~Midway(d)
  BY <1>2, <1>3 DEF Writable, UpToDate, Midway
<1>8. OneRemoves /\ CoverHeld /\ OrderHeld
  BY <1>2, <1>3, <1>4, <1>7 DEF OneRemoves, CoverHeld, OrderHeld, InOrder
<1>9. RowsMade
  BY <1>4 DEF RowsMade
<1>10. \A d \in Uploaders : clients[d] \in ClientRow
  BY <1>3
<1>11. GalleryTypeOK
  BY <1>1, <1>4, <1>10 DEF GalleryInit, GalleryTypeOK, GalleryRows, ClientRow, GallerySteps
<1>. QED
  BY <1>3, <1>6, <1>7, <1>8, <1>9, <1>11 DEF GalleryInv, Settled

LEMMA GalleryStep == GalleryInv /\ [GalleryNext]_galleryVars => GalleryInv'
<1> SUFFICES ASSUME GalleryInv, [GalleryNext]_galleryVars PROVE GalleryInv'
  OBVIOUS
<1>1. CASE UNCHANGED galleryVars
  <2>1. UNCHANGED <<limit, cover, gallery, made, pictures, clients, uncovered, brokenOff, together>>
    BY <1>1 DEF galleryVars
  <2>2. \A d \in Uploaders : Writable(d)' /\ (UpToDate(d) => UpToDate(d)') /\ (Brings(d) <=> Brings(d)')
          /\ (Midway(d) <=> Midway(d)') /\ (Leads(d) => Leads(d)')
    BY <2>1, GalleryTyped DEF Writable, UpToDate, Brings, Midway, Leads, Placed
  <2>3. RowsMade' /\ (InOrder => InOrder') /\ (OneRemoves => OneRemoves')
        /\ (GalleryWithinLimit => GalleryWithinLimit')
    BY <2>1, GalleryTyped DEF RowsMade, InOrder, OneRemoves, GalleryWithinLimit
  <2>4. CoverHeld => CoverHeld'
    BY <2>1, <2>2 DEF CoverHeld
  <2>5. OrderHeld => OrderHeld'
    BY <2>1, <2>2, <2>3 DEF OrderHeld
  <2>6. together' \/ Settled'
    BY <2>1, <2>2, <2>3, <2>4, <2>5 DEF GalleryInv, Settled
  <2>. QED
    BY <2>1, <2>2, <2>3, <2>6, GalleryTyped, GalleryTypedNext
<1>2. CASE GalleryNext
  BY <1>2, BeginEditingKept, LookForRowsKept, SeedGalleryKept, CountRowsKept, AddPictureKept,
     ShowFirstKept, RemovePictureKept, ListRowsKept, RenumberKept, ComparePrimaryKept,
     ShowPrimaryKept, NewCoverKept, SaveProfileRowKept, ReadPrimaryKept, ReplacePrimaryKept
  DEF GalleryNext
<1>. QED
  BY <1>1, <1>2

LEMMA GalleryShows ==
  GalleryInv => GalleryTypeOK /\ CoverIsFirst /\ UploadOrder /\ GalleryWithinLimit
<1> SUFFICES ASSUME GalleryInv PROVE CoverIsFirst /\ UploadOrder /\ GalleryWithinLimit
  BY DEF GalleryInv
<1>1. together \/ Settled
  BY DEF GalleryInv
<1>2. GalleryWithinLimit
  BY <1>1 DEF Settled, GalleryWithinLimit
<1>3. \A d \in Uploaders : Brings(d) => clients[d] # AtRest
  BY RowIs DEF Brings
<1>4. CoverIsFirst
  BY <1>1, <1>3 DEF Settled, CoverHeld, CoverIsFirst
<1>5. UploadOrder
  BY <1>1 DEF Settled, OrderHeld, Midway, InOrder, UploadOrder
<1>. QED
  BY <1>2, <1>4, <1>5

LEMMA GalleryHolds == GallerySpec => []GalleryInv
  BY GalleryStart, GalleryStep, PTL DEF GallerySpec

\* The profile shows the first of its pictures, these keep the order of their
\* upload, and there are not more than the plan allows, for any number of
\* requests and pictures; the exceptions are those that the properties name.
THEOREM GalleryStands ==
  GallerySpec => [](GalleryTypeOK /\ CoverIsFirst /\ UploadOrder /\ GalleryWithinLimit)
  BY GalleryHolds, GalleryShows, PTL

-----------------------------------------------------------------------------
(* Providers: the spotlights *)

PosterRow ==
    [step : {"idle", "clear", "created", "counted", "listed"}, over : 0..MaxPosts,
     stale : SUBSET PostIds, passed : BOOLEAN]

\* A receiver that has counted takes away enough.
TakesEnough(p) ==
    \/ posters[p].step = "created"
    \/ posters[p].step = "counted" /\ Cardinality(spotlights) <= quota + posters[p].over
    \/ posters[p].step = "listed" /\ Cardinality(spotlights \ posters[p].stale) <= quota

Enforced == \/ unenforced \/ Cardinality(spotlights) <= quota
            \/ \E p \in Posters : TakesEnough(p)

\* One that nothing has passed takes away nothing that is within the quota.
TakesNoMore(p) ==
    ~posters[p].passed =>
      /\ posters[p].step = "counted" => Cardinality(spotlights) >= quota + posters[p].over
      /\ posters[p].step = "listed" => posters[p].stale \cap Latest(spotlights, quota) = {}

SpotlightsInv ==
    /\ SpotlightsTypeOK
    /\ posters \in [Posters -> PosterRow]
    /\ spotlights \subseteq 1..posted
    /\ \A p \in Posters : posters[p].stale \subseteq 1..posted
    /\ Enforced
    /\ \A p \in Posters : TakesNoMore(p)

SpotlightsSteps ==
    \A p \in Posters :
      DeleteStale(p) /\ ~posters[p].passed => Latest(spotlights, quota) \subseteq spotlights'

\* Sets of spotlights are finite, and smaller ones have fewer.
LEMMA PostsCounted ==
  ASSUME NEW S \in SUBSET PostIds
  PROVE  /\ IsFiniteSet(S) /\ Cardinality(S) \in 0..MaxPosts
         /\ \A T \in SUBSET S : IsFiniteSet(T) /\ Cardinality(T) <= Cardinality(S)
<1>1. MaxPosts \in Nat
  BY SpotlightsAssumption
<1>2. IsFiniteSet(PostIds) /\ Cardinality(PostIds) = MaxPosts
  BY <1>1, FS_Interval DEF PostIds
<1>3. IsFiniteSet(S) /\ Cardinality(S) <= MaxPosts
  BY <1>2, FS_Subset
<1>4. Cardinality(S) \in Nat
  BY <1>3, FS_CardinalityType
<1>5. ASSUME NEW T \in SUBSET S PROVE IsFiniteSet(T) /\ Cardinality(T) <= Cardinality(S)
  BY <1>3, FS_Subset
<1>. QED
  BY <1>1, <1>3, <1>4, <1>5

\* As many of the oldest as there are, at most the number asked for.
LEMMA OldestEnough ==
  ASSUME NEW S \in SUBSET PostIds, NEW n \in Nat
  PROVE  S \ Oldest(S, n) = {} \/ Cardinality(S \ Oldest(S, n)) <= Cardinality(S) - n
<1> DEFINE Old == Oldest(S, n)
<1> DEFINE Rest == S \ Oldest(S, n)
<1> SUFFICES ASSUME Rest # {} PROVE Cardinality(Rest) <= Cardinality(S) - n
  OBVIOUS
<1>1. Old \in SUBSET S /\ Rest \in SUBSET S /\ Old \cap Rest = {} /\ Old \cup Rest = S
  BY DEF Oldest
<1>2. S \in SUBSET Nat
  BY SpotlightsAssumption DEF PostIds
<1>3. PICK m \in Rest : \A k \in Rest : m <= k
  <2>1. Rest \in SUBSET Nat
    BY <1>1, <1>2
  <2> HIDE DEF Rest
  <2>. QED BY <2>1, LeastOf
<1>4. Cardinality({j \in S : j < m}) >= n
  <2>1. {j \in S : j < m} \in SUBSET S
    OBVIOUS
  <2>2. Cardinality({j \in S : j < m}) \in Nat
    BY <2>1, PostsCounted
  <2>3. m \in S /\ ~(Cardinality({j \in S : j < m}) < n)
    BY DEF Oldest
  <2>. QED
    BY <2>2, <2>3
<1>5. {j \in S : j < m} \in SUBSET Old
  <2>1. ASSUME NEW j \in S, j < m PROVE j \in Old
    <3>1. j \in Nat /\ m \in Nat
      BY <1>1, <1>2
    <3>2. j \notin Rest
      BY <1>3, <2>1, <3>1
    <3>. QED
      BY <3>2
  <2>. QED
    BY <2>1
<1>6. /\ IsFiniteSet(Old) /\ IsFiniteSet(Rest)
      /\ Cardinality(Old) \in Nat /\ Cardinality(Rest) \in Nat /\ Cardinality(S) \in Nat
      /\ Cardinality({j \in S : j < m}) \in Nat
  <2>1. Old \in SUBSET PostIds /\ Rest \in SUBSET PostIds /\ {j \in S : j < m} \in SUBSET PostIds
    BY <1>1
  <2> HIDE DEF Old, Rest
  <2>. QED
    BY <2>1, PostsCounted
<1>7. Cardinality(Old) >= n
  <2>1. Old \in SUBSET PostIds
    BY <1>1
  <2>2. Cardinality({j \in S : j < m}) <= Cardinality(Old)
    <3> DEFINE Low == {j \in S : j < m}
    <3>1. Low \in SUBSET Old
      BY <1>5
    <3> HIDE DEF Old, Low
    <3>2. Cardinality(Low) <= Cardinality(Old)
      BY <2>1, <3>1, PostsCounted
    <3>. QED
      BY <3>2 DEF Low
  <2>. QED
    BY <1>4, <1>6, <2>2
<1>8. Cardinality(S) = Cardinality(Old) + Cardinality(Rest)
  <2> HIDE DEF Old, Rest
  <2>1. Cardinality(Old \cup Rest) =
          Cardinality(Old) + Cardinality(Rest) - Cardinality(Old \cap Rest)
    BY <1>6, FS_Union
  <2>2. Cardinality(Old \cap Rest) = 0
    BY <1>1, FS_EmptySet
  <2>3. Cardinality(Old \cup Rest) = Cardinality(S)
    BY <1>1
  <2>. QED
    BY <1>6, <2>1, <2>2, <2>3
<1>. QED
  <2> HIDE DEF Old, Rest
  <2>1. Cardinality(Rest) <= Cardinality(S) - n
    BY <1>6, <1>7, <1>8
  <2>. QED
    BY <2>1 DEF Rest

\* None is among the oldest and the latest of a set that has room for both.
LEMMA OldestApart ==
  ASSUME NEW S \in SUBSET PostIds, NEW n \in Nat, NEW q \in Nat, Cardinality(S) >= q + n
  PROVE  Oldest(S, n) \cap Latest(S, q) = {}
<1> SUFFICES ASSUME NEW i \in Oldest(S, n), i \in Latest(S, q) PROVE FALSE
  OBVIOUS
<1> DEFINE Lower == {j \in S : j < i}
<1> DEFINE Upper == {j \in S : j > i}
<1>1. i \in S /\ Cardinality(Lower) < n /\ Cardinality(Upper) < q
  BY DEF Oldest, Latest
<1>2. S \in SUBSET Nat
  BY SpotlightsAssumption DEF PostIds
<1>3. S = (Lower \cup {i}) \cup Upper
  <2>1. ASSUME NEW j \in S PROVE j < i \/ j = i \/ j > i
    <3>1. j \in Nat /\ i \in Nat
      BY <1>1, <1>2
    <3>. QED BY <3>1
  <2>. QED
    BY <1>1, <2>1
<1>4. Lower \in SUBSET PostIds /\ Upper \in SUBSET PostIds
  OBVIOUS
<1>5. i \notin Lower /\ (Lower \cup {i}) \cap Upper = {}
  <2>1. \A j \in S : j \in Nat
    BY <1>2
  <2>2. ~(i < i) /\ ~(i > i) /\ \A j \in S : ~(j < i /\ j > i)
    BY <1>1, <2>1
  <2>. QED
    BY <2>2
<1> HIDE DEF Lower, Upper
<1>6. /\ IsFiniteSet(Lower) /\ IsFiniteSet(Upper)
      /\ Cardinality(Lower) \in Nat /\ Cardinality(Upper) \in Nat
  BY <1>4, PostsCounted
<1>7. IsFiniteSet(Lower \cup {i}) /\ Cardinality(Lower \cup {i}) = Cardinality(Lower) + 1
  BY <1>5, <1>6, FS_AddElement
<1>8. Cardinality((Lower \cup {i}) \cup Upper) =
        Cardinality(Lower \cup {i}) + Cardinality(Upper) - Cardinality((Lower \cup {i}) \cap Upper)
  BY <1>6, <1>7, FS_Union
<1>9. Cardinality((Lower \cup {i}) \cap Upper) = 0
  BY <1>5, FS_EmptySet
<1>10. Cardinality(S) = Cardinality(Lower) + 1 + Cardinality(Upper)
  BY <1>3, <1>6, <1>7, <1>8, <1>9
<1>. QED
  BY <1>1, <1>6, <1>10

LEMMA SpotlightsTyped ==
  ASSUME SpotlightsInv
  PROVE  /\ posters \in [Posters -> PosterRow]
         /\ spotlights \in SUBSET PostIds /\ posted \in 0..MaxPosts /\ spotlights \subseteq 1..posted
         /\ quota \in Nat /\ quota \in Quotas \cup {0}
         /\ MaxPosts \in Nat /\ MaxPlans \in Nat /\ MaxCrashes \in Nat
         /\ subscribed \in BOOLEAN /\ unenforced \in BOOLEAN
         /\ plans \in 0..MaxPlans /\ crashes \in 0..MaxCrashes
         /\ Cardinality(spotlights) \in 0..MaxPosts
         /\ \A p \in Posters : posters[p].stale \subseteq 1..posted
  BY SpotlightsAssumption, PostsCounted DEF SpotlightsInv, SpotlightsTypeOK

LEMMA SpotlightsTypedNext ==
  ASSUME posters' \in [Posters -> PosterRow],
         spotlights' \in SUBSET PostIds, posted' \in 0..MaxPosts, spotlights' \subseteq 1..posted',
         quota' \in Quotas \cup {0}, subscribed' \in BOOLEAN, unenforced' \in BOOLEAN,
         plans' \in 0..MaxPlans, crashes' \in 0..MaxCrashes,
         \A p \in Posters : posters'[p].stale \subseteq 1..posted',
         Enforced', \A p \in Posters : TakesNoMore(p)'
  PROVE  SpotlightsInv'
  BY DEF SpotlightsInv, SpotlightsTypeOK, PosterRow

\* A request that is not a receiver, or ceases to be one, promises nothing; the
\* other requests stay as they are.
LEMMA RowTurned ==
  ASSUME SpotlightsInv, NEW p \in Posters, NEW row \in PosterRow,
         posters' = [posters EXCEPT ![p] = row],
         row.stale \subseteq 1..posted',
         UNCHANGED <<spotlights, posted, quota, subscribed, plans>>,
         unenforced' \in BOOLEAN, crashes' \in 0..MaxCrashes,
         Enforced', TakesNoMore(p)'
  PROVE  SpotlightsInv'
<1>1. posters' \in [Posters -> PosterRow] /\ posters'[p] = row
      /\ \A q \in Posters : q # p => posters'[q] = posters[q]
  BY SpotlightsTyped
<1>2. ASSUME NEW q \in Posters, q # p PROVE TakesNoMore(q)'
  <2>1. TakesNoMore(q)
    BY DEF SpotlightsInv
  <2>. QED
    BY <1>1, <1>2, <2>1 DEF TakesNoMore
<1>3. \A q \in Posters : posters'[q].stale \subseteq 1..posted'
  BY <1>1, SpotlightsTyped
<1>. QED
  BY <1>1, <1>2, <1>3, SpotlightsTyped, SpotlightsTypedNext

\* What was enforced is so when nobody who takes enough goes.
LEMMA StillEnforced ==
  ASSUME SpotlightsInv, NEW p \in Posters, UNCHANGED <<spotlights, quota>>,
         posters' \in [Posters -> PosterRow],
         \A q \in Posters : q # p => posters'[q] = posters[q],
         unenforced => unenforced',
         TakesEnough(p) => TakesEnough(p)' \/ unenforced' \/ Cardinality(spotlights) <= quota
  PROVE  Enforced'
<1>1. ASSUME NEW q \in Posters, TakesEnough(q), q # p PROVE TakesEnough(q)'
  BY <1>1 DEF TakesEnough
<1>2. Enforced
  BY DEF SpotlightsInv
<1>. QED
  BY <1>1, <1>2 DEF Enforced

LEMMA LookAtQuotaKept ==
  ASSUME SpotlightsInv, NEW p \in Posters, LookAtQuota(p)
  PROVE  SpotlightsInv'
<1> DEFINE row == [posters[p] EXCEPT !.step = "clear"]
<1>0. posters[p] \in PosterRow /\ posters[p] = NotPosting
  BY SpotlightsTyped DEF LookAtQuota
<1>a. NotPosting.stale = {}
  BY DEF NotPosting
<1>b. row \in PosterRow /\ row.step = "clear" /\ row.stale = posters[p].stale
  BY <1>0 DEF PosterRow
<1>1. row \in PosterRow /\ row.step = "clear" /\ row.stale = {}
  BY <1>0, <1>a, <1>b
<1>2. posters' = [posters EXCEPT ![p] = row]
  BY DEF LookAtQuota
<1> HIDE DEF row
<1>3. posters' \in [Posters -> PosterRow] /\ posters'[p] = row
      /\ \A q \in Posters : q # p => posters'[q] = posters[q]
  BY <1>1, <1>2, SpotlightsTyped
<1>4. ~TakesEnough(p)
  BY <1>0 DEF TakesEnough, NotPosting
<1>5. Enforced'
  BY <1>3, <1>4, StillEnforced DEF LookAtQuota
<1>6. TakesNoMore(p)'
  BY <1>1, <1>3 DEF TakesNoMore
<1>. QED
  BY <1>1, <1>2, <1>5, <1>6, RowTurned, SpotlightsTyped DEF LookAtQuota

\* A new spotlight is the latest of all.
LEMMA CreateSpotlightKept ==
  ASSUME SpotlightsInv, NEW p \in Posters, CreateSpotlight(p)
  PROVE  SpotlightsInv'
<1> DEFINE row == [posters[p] EXCEPT !.step = "created"]
<1>0. posters[p] \in PosterRow
  BY SpotlightsTyped
<1>1. row \in PosterRow /\ row.step = "created" /\ row.stale = posters[p].stale
  BY <1>0 DEF PosterRow
<1>2. posters' = [posters EXCEPT ![p] = row]
  BY DEF CreateSpotlight
<1> HIDE DEF row
<1>3. posters' \in [Posters -> PosterRow] /\ posters'[p] = row
      /\ \A q \in Posters : q # p => posters'[q] = posters[q]
  BY <1>1, <1>2, SpotlightsTyped
<1>4. /\ posted' = posted + 1 /\ posted' \in 0..MaxPosts /\ posted + 1 \in PostIds
      /\ posted + 1 \notin spotlights /\ posted \in Nat
      /\ spotlights' = spotlights \cup {posted + 1}
  BY SpotlightsTyped DEF CreateSpotlight, PostIds
<1>5. spotlights' \in SUBSET PostIds /\ spotlights' \subseteq 1..posted'
  BY <1>4, SpotlightsTyped
<1>6. Cardinality(spotlights') \in Nat /\ Cardinality(spotlights') >= Cardinality(spotlights)
  <2>1. spotlights \in SUBSET spotlights'
    BY <1>4
  <2>. QED
    BY <1>5, <2>1, PostsCounted, SpotlightsTyped
<1>7. Enforced'
  BY <1>1, <1>3 DEF Enforced, TakesEnough
<1>8. ASSUME NEW i \in Latest(spotlights', quota), i # posted + 1 PROVE i \in Latest(spotlights, quota)
  <2> DEFINE Upper == {j \in spotlights : j > i}
  <2> DEFINE UpperNext == {j \in spotlights' : j > i}
  <2>1. i \in spotlights /\ Cardinality(UpperNext) < quota
    BY <1>4, <1>8 DEF Latest
  <2>2. Upper \in SUBSET UpperNext /\ UpperNext \in SUBSET PostIds /\ Upper \in SUBSET PostIds
    BY <1>4, <1>5, SpotlightsTyped
  <2> HIDE DEF Upper, UpperNext
  <2>3. Cardinality(Upper) <= Cardinality(UpperNext)
        /\ Cardinality(Upper) \in Nat /\ Cardinality(UpperNext) \in Nat
    BY <2>2, PostsCounted
  <2>4. Cardinality(Upper) < quota
    BY <2>1, <2>3, SpotlightsTyped
  <2>. QED
    BY <2>1, <2>4 DEF Latest, Upper
<1>9. ASSUME NEW q \in Posters PROVE TakesNoMore(q)'
  <2>1. CASE q = p
    BY <1>1, <1>3, <2>1 DEF TakesNoMore
  <2>2. CASE q # p
    <3>1. TakesNoMore(q) /\ posters'[q] = posters[q] /\ posters[q] \in PosterRow
      BY <1>3, <2>2, SpotlightsTyped DEF SpotlightsInv
    <3>2. posters[q].stale \subseteq 1..posted /\ posted + 1 \notin posters[q].stale
      BY <1>4, SpotlightsTyped
    <3>3. posters[q].over \in Nat
      BY <3>1, SpotlightsTyped DEF PosterRow
    <3>4. quota' = quota
      BY DEF CreateSpotlight
    <3>5. ASSUME ~posters[q].passed, posters[q].step = "counted"
          PROVE  Cardinality(spotlights') >= quota + posters[q].over
      BY <1>6, <3>1, <3>3, <3>5, SpotlightsTyped DEF TakesNoMore
    <3>6. ASSUME ~posters[q].passed, posters[q].step = "listed"
          PROVE  posters[q].stale \cap Latest(spotlights', quota) = {}
      BY <1>8, <3>1, <3>2, <3>6 DEF TakesNoMore
    <3>. QED
      BY <3>1, <3>4, <3>5, <3>6 DEF TakesNoMore
  <2>. QED
    BY <2>1, <2>2
<1>10. \A q \in Posters : posters'[q].stale \subseteq 1..posted'
  <2>1. 1..posted \subseteq 1..posted'
    BY <1>4
  <2>2. \A q \in Posters : posters'[q].stale = posters[q].stale
    BY <1>1, <1>3
  <2>. QED
    BY <2>1, <2>2, SpotlightsTyped
<1>. QED
  BY <1>3, <1>4, <1>5, <1>7, <1>9, <1>10, SpotlightsTyped, SpotlightsTypedNext DEF CreateSpotlight

\* Who promises nothing rests.
LEMMA NotPostingIs ==
  ASSUME SpotlightsInv
  PROVE  /\ NotPosting \in PosterRow /\ NotPosting.step = "idle" /\ NotPosting.stale = {}
         /\ NotPosting.over = 0
<1>1. NotPosting.step = "idle" /\ NotPosting.stale = {} /\ NotPosting.over = 0
  BY DEF NotPosting
<1>2. NotPosting \in PosterRow
  BY SpotlightsTyped DEF NotPosting, PosterRow
<1>. QED
  BY <1>1, <1>2

LEMMA CountSpotlightsKept ==
  ASSUME SpotlightsInv, NEW p \in Posters, CountSpotlights(p)
  PROVE  SpotlightsInv'
<1>0. posters[p] \in PosterRow /\ quota \in Nat /\ Cardinality(spotlights) \in 0..MaxPosts
      /\ MaxPosts \in Nat /\ unenforced \in BOOLEAN
  BY SpotlightsTyped
<1>1. CASE subscribed /\ Cardinality(spotlights) > quota
  <2> DEFINE row == [posters[p] EXCEPT !.step = "counted", !.over = Cardinality(spotlights) - quota]
  <2>1. Cardinality(spotlights) - quota \in 0..MaxPosts
    BY <1>0, <1>1
  <2>2. /\ row \in PosterRow /\ row.step = "counted" /\ row.stale = posters[p].stale
        /\ row.over = Cardinality(spotlights) - quota
    BY <1>0, <2>1 DEF PosterRow
  <2>3. posters' = [posters EXCEPT ![p] = row] /\ unenforced' = unenforced
    BY <1>1 DEF CountSpotlights
  <2> HIDE DEF row
  <2>4. posters'[p] = row
    BY <2>2, <2>3, SpotlightsTyped
  <2>5. quota + row.over = Cardinality(spotlights)
    BY <1>0, <2>2
  <2>6. TakesEnough(p)' /\ TakesNoMore(p)'
    BY <1>0, <2>2, <2>4, <2>5 DEF TakesEnough, TakesNoMore, CountSpotlights
  <2>7. Enforced'
    BY <2>6 DEF Enforced
  <2>8. row.stale \subseteq 1..posted'
    BY <2>2, SpotlightsTyped DEF CountSpotlights
  <2>. QED
    BY <1>0, <2>2, <2>3, <2>6, <2>7, <2>8, RowTurned, SpotlightsTyped DEF CountSpotlights
<1>2. CASE ~(subscribed /\ Cardinality(spotlights) > quota)
  <2>1. posters' = [posters EXCEPT ![p] = NotPosting] /\ unenforced' = (Cardinality(spotlights) > quota)
    BY <1>2 DEF CountSpotlights
  <2>2. posters'[p] = NotPosting
    BY <2>1, SpotlightsTyped
  <2>3. TakesNoMore(p)'
    BY <2>2, NotPostingIs DEF TakesNoMore
  <2>4. Enforced'
    <3>1. Cardinality(spotlights) > quota \/ Cardinality(spotlights) <= quota
      BY <1>0
    <3>2. Cardinality(spotlights) > quota => unenforced'
      BY <2>1, Zenon
    <3>. QED
      BY <3>1, <3>2 DEF Enforced, CountSpotlights
  <2>5. unenforced' \in BOOLEAN
    <3>1. CASE Cardinality(spotlights) > quota
      BY <2>1, <3>1
    <3>2. CASE ~(Cardinality(spotlights) > quota)
      BY <2>1, <3>2
    <3>. QED
      BY <3>1, <3>2
  <2>. QED
    BY <2>1, <2>3, <2>4, <2>5, NotPostingIs, RowTurned, SpotlightsTyped DEF CountSpotlights
<1>. QED
  BY <1>1, <1>2

\* What is listed is enough, and nothing that is within the quota.
LEMMA ListStaleKept ==
  ASSUME SpotlightsInv, NEW p \in Posters, ListStale(p)
  PROVE  SpotlightsInv'
<1> DEFINE old == Oldest(spotlights, posters[p].over)
<1> DEFINE row == [posters[p] EXCEPT !.step = "listed", !.stale = old]
<1>0. /\ posters[p] \in PosterRow /\ quota \in Nat /\ Cardinality(spotlights) \in 0..MaxPosts
      /\ MaxPosts \in Nat /\ spotlights \in SUBSET PostIds /\ posters[p].step = "counted"
  BY SpotlightsTyped DEF ListStale
<1>1. old \in SUBSET spotlights
  BY DEF Oldest
<1>2. posters[p].over \in Nat
  BY <1>0 DEF PosterRow
<1> HIDE DEF old
<1>3. /\ row \in PosterRow /\ row.step = "listed" /\ row.stale = old
      /\ row.passed = posters[p].passed
  BY <1>0, <1>1 DEF PosterRow
<1>4. posters' = [posters EXCEPT ![p] = row]
  BY DEF ListStale, old
<1> HIDE DEF row
<1>5. posters' \in [Posters -> PosterRow] /\ posters'[p] = row
      /\ \A q \in Posters : q # p => posters'[q] = posters[q]
  BY <1>3, <1>4, SpotlightsTyped
<1>6. TakesEnough(p) => TakesEnough(p)'
  <2> SUFFICES ASSUME Cardinality(spotlights) <= quota + posters[p].over
               PROVE  Cardinality(spotlights \ old) <= quota
    BY <1>0, <1>3, <1>5 DEF TakesEnough, ListStale
  <2>1. spotlights \ old = {} \/ Cardinality(spotlights \ old) <= Cardinality(spotlights) - posters[p].over
    BY <1>0, <1>2, OldestEnough DEF old
  <2>2. spotlights \ old \in SUBSET PostIds /\ Cardinality({}) = 0
    BY <1>0, FS_EmptySet
  <2>3. Cardinality(spotlights \ old) \in Nat /\ Cardinality(spotlights) \in Nat
    BY <1>0, <2>2, PostsCounted
  <2>4. CASE spotlights \ old = {}
    BY <1>0, <2>2, <2>4
  <2>5. CASE Cardinality(spotlights \ old) <= Cardinality(spotlights) - posters[p].over
    BY <1>0, <1>2, <2>3, <2>5
  <2>. QED
    BY <2>1, <2>4, <2>5
<1>7. Enforced'
  BY <1>5, <1>6, StillEnforced DEF ListStale
<1>8. TakesNoMore(p)'
  <2> SUFFICES ASSUME ~posters[p].passed PROVE old \cap Latest(spotlights, quota) = {}
    BY <1>3, <1>5 DEF TakesNoMore, ListStale
  <2>1. Cardinality(spotlights) >= quota + posters[p].over
    BY <1>0 DEF SpotlightsInv, TakesNoMore
  <2>. QED
    BY <1>0, <1>2, <2>1, OldestApart DEF old
<1>9. row.stale \subseteq 1..posted'
  BY <1>1, <1>3, SpotlightsTyped DEF ListStale
<1>. QED
  BY <1>3, <1>4, <1>7, <1>8, <1>9, RowTurned, SpotlightsTyped DEF ListStale

\* Fewer spotlights, or a quota that has not fallen: who takes enough takes
\* enough, and who has counted is passed.
LEMMA PassedKept ==
  ASSUME SpotlightsInv, NEW but \in SUBSET Posters,
         \A p \in Posters \ but : posters'[p] = Passed(but)[p],
         \A p \in but : posters'[p] = NotPosting,
         posters' \in [Posters -> PosterRow],
         spotlights' \in SUBSET spotlights, quota' \in Quotas \cup {0},
         unenforced' \in BOOLEAN, unenforced' \/ quota' >= quota,
         UNCHANGED posted, subscribed' \in BOOLEAN, plans' \in 0..MaxPlans, crashes' \in 0..MaxCrashes,
         unenforced => unenforced' \/ Cardinality(spotlights') <= quota',
         \A p \in but : TakesEnough(p) => unenforced' \/ Cardinality(spotlights') <= quota'
  PROVE  SpotlightsInv'
<1>1. ASSUME NEW p \in Posters
      PROVE  \/ /\ posters'[p].step = posters[p].step /\ posters'[p].stale = posters[p].stale
                /\ posters'[p].over = posters[p].over
                /\ (posters[p].step \in {"counted", "listed"} => posters'[p].passed)
             \/ posters'[p] = NotPosting /\ p \in but
  <2>1. CASE p \in but
    BY <2>1
  <2>2. CASE p \notin but
    <3>1. posters'[p] = IF posters[p].step \in {"counted", "listed"}
                        THEN [posters[p] EXCEPT !.passed = TRUE] ELSE posters[p]
      BY <2>2 DEF Passed
    <3>2. posters[p] \in PosterRow
      BY SpotlightsTyped
    <3>. QED
      BY <3>1, <3>2 DEF PosterRow
  <2>. QED
    BY <2>1, <2>2
<1>2. \A p \in Posters : posters'[p].stale \subseteq 1..posted'
  BY <1>1, NotPostingIs, SpotlightsTyped
<1>3. \A p \in Posters : TakesNoMore(p)'
  BY <1>1, NotPostingIs DEF TakesNoMore
<1>4. /\ quota \in Nat /\ quota' \in Nat /\ spotlights' \in SUBSET PostIds
      /\ Cardinality(spotlights) \in Nat /\ Cardinality(spotlights') \in Nat
      /\ Cardinality(spotlights') <= Cardinality(spotlights)
  <2>1. quota \in Nat /\ quota' \in Nat
    BY SpotlightsTyped, SpotlightsAssumption
  <2>2. spotlights \in SUBSET PostIds /\ spotlights' \in SUBSET PostIds
    BY SpotlightsTyped
  <2>3. Cardinality(spotlights) \in 0..MaxPosts /\ Cardinality(spotlights') \in 0..MaxPosts
    BY <2>2, PostsCounted
  <2>4. Cardinality(spotlights') <= Cardinality(spotlights)
    BY <2>2, PostsCounted
  <2>. QED
    BY <2>1, <2>2, <2>3, <2>4
<1>5. Enforced'
  <2> SUFFICES ASSUME ~unenforced', Cardinality(spotlights') > quota'
               PROVE  \E p \in Posters : TakesEnough(p)'
    BY <1>4 DEF Enforced
  <2>1. quota' >= quota /\ ~unenforced /\ ~(Cardinality(spotlights) <= quota)
    BY <1>4
  <2>2. PICK p \in Posters : TakesEnough(p)
    BY <2>1 DEF SpotlightsInv, Enforced
  <2>3. p \notin but
    BY <1>4, <2>2
  <2>4. /\ posters'[p].step = posters[p].step /\ posters'[p].stale = posters[p].stale
        /\ posters'[p].over = posters[p].over
    BY <1>1, <2>3
  <2>5. posters[p].over \in Nat
    BY SpotlightsTyped DEF PosterRow
  <2>6. /\ Cardinality(spotlights \ posters[p].stale) \in Nat
        /\ Cardinality(spotlights' \ posters[p].stale) \in Nat
        /\ Cardinality(spotlights' \ posters[p].stale) <= Cardinality(spotlights \ posters[p].stale)
    <3>1. /\ spotlights \ posters[p].stale \in SUBSET PostIds
          /\ spotlights' \ posters[p].stale \in SUBSET PostIds
          /\ spotlights' \ posters[p].stale \in SUBSET (spotlights \ posters[p].stale)
      BY SpotlightsTyped
    <3>. QED
      BY <3>1, SpotlightsTyped, PostsCounted
  <2>7. TakesEnough(p)'
    BY <1>4, <2>1, <2>2, <2>4, <2>5, <2>6 DEF TakesEnough
  <2>. QED
    BY <2>7
<1>6. spotlights' \subseteq 1..posted'
  BY SpotlightsTyped
<1>. QED
  BY <1>2, <1>3, <1>4, <1>5, <1>6, SpotlightsTyped, SpotlightsTypedNext

LEMMA PassedTyped ==
  ASSUME SpotlightsInv, NEW but
  PROVE  Passed(but) \in [Posters -> PosterRow]
<1>1. ASSUME NEW p \in Posters PROVE Passed(but)[p] \in PosterRow
  <2>1. posters[p] \in PosterRow
    BY SpotlightsTyped
  <2>2. [posters[p] EXCEPT !.passed = TRUE] \in PosterRow
    BY <2>1 DEF PosterRow
  <2>. QED
    BY <2>1, <2>2 DEF Passed
<1>. QED
  BY <1>1 DEF Passed

LEMMA DeleteStaleKept ==
  ASSUME SpotlightsInv, NEW p \in Posters, DeleteStale(p)
  PROVE  SpotlightsInv'
<1>0. /\ posters[p] \in PosterRow /\ posters[p].step = "listed" /\ quota \in Nat
      /\ spotlights' = spotlights \ posters[p].stale /\ quota' = quota
      /\ spotlights' \in SUBSET PostIds
      /\ unenforced \in BOOLEAN
      /\ unenforced' = (unenforced /\ Cardinality(spotlights') > quota)
  BY SpotlightsTyped DEF DeleteStale
<1>1. Cardinality(spotlights') \in Nat
  BY <1>0, PostsCounted
<1>2. posters' = [Passed({p}) EXCEPT ![p] = NotPosting]
  BY DEF DeleteStale
<1>3. /\ posters' \in [Posters -> PosterRow] /\ posters'[p] = NotPosting
      /\ \A q \in Posters : q # p => posters'[q] = Passed({p})[q]
  BY <1>2, NotPostingIs, PassedTyped
<1>4. TakesEnough(p) => Cardinality(spotlights') <= quota'
  BY <1>0 DEF TakesEnough
<1>5. unenforced => unenforced' \/ Cardinality(spotlights') <= quota'
  <2>1. Cardinality(spotlights') > quota \/ Cardinality(spotlights') <= quota
    BY <1>0, <1>1
  <2>2. unenforced /\ Cardinality(spotlights') > quota => unenforced'
    BY <1>0, Zenon
  <2>. QED
    BY <1>0, <2>1, <2>2
<1>6. {p} \in SUBSET Posters /\ (\A q \in Posters \ {p} : posters'[q] = Passed({p})[q])
      /\ (\A q \in {p} : posters'[q] = NotPosting)
      /\ (\A q \in {p} : TakesEnough(q) => unenforced' \/ Cardinality(spotlights') <= quota')
  BY <1>3, <1>4
<1>a. unenforced' \in BOOLEAN
  BY <1>0, Zenon
<1>7. quota' >= quota /\ spotlights' \in SUBSET spotlights
  BY <1>0
<1>. QED
  BY <1>0, <1>3, <1>5, <1>6, <1>7, <1>a, PassedKept, SpotlightsTyped DEF DeleteStale

LEMMA DeleteOneKept ==
  ASSUME SpotlightsInv, NEW i, DeleteOne(i)
  PROVE  SpotlightsInv'
<1>1. posters' = Passed({}) /\ posters' \in [Posters -> PosterRow]
  BY PassedTyped DEF DeleteOne
<1>2. quota' = quota /\ quota \in Nat /\ unenforced' = unenforced /\ spotlights' \in SUBSET spotlights
  BY SpotlightsTyped DEF DeleteOne
<1>3. quota' >= quota
  BY <1>2
<1>4. {} \in SUBSET Posters /\ (\A p \in Posters \ {} : posters'[p] = Passed({})[p])
      /\ (\A p \in {} : posters'[p] = NotPosting)
      /\ (\A p \in {} : TakesEnough(p) => unenforced' \/ Cardinality(spotlights') <= quota')
  BY <1>1
<1>. QED
  BY <1>1, <1>2, <1>3, <1>4, PassedKept, SpotlightsTyped DEF DeleteOne

LEMMA ChangePlanKept ==
  ASSUME SpotlightsInv, ChangePlan
  PROVE  SpotlightsInv'
<1>1. posters' = Passed({}) /\ posters' \in [Posters -> PosterRow]
  BY PassedTyped DEF ChangePlan
<1>2. /\ quota' \in Quotas \cup {0} /\ subscribed' \in BOOLEAN /\ spotlights' = spotlights
      /\ UNCHANGED <<posted, crashes>> /\ quota \in Nat
  BY SpotlightsTyped DEF ChangePlan
<1>a. quota' \in Nat /\ plans' \in 0..MaxPlans
  BY <1>2, SpotlightsTyped, SpotlightsAssumption DEF ChangePlan
<1>b. unenforced' = (unenforced \/ quota' < quota) /\ unenforced \in BOOLEAN
  BY SpotlightsTyped DEF ChangePlan
<1>c. unenforced' \in BOOLEAN /\ (unenforced => unenforced') /\ (quota' < quota => unenforced')
  BY <1>b, Zenon
<1>d. quota' < quota \/ quota' >= quota
  BY <1>2, <1>a
<1>3. unenforced' \/ quota' >= quota
  BY <1>c, <1>d
<1>4. {} \in SUBSET Posters /\ (\A p \in Posters \ {} : posters'[p] = Passed({})[p])
      /\ (\A p \in {} : posters'[p] = NotPosting)
      /\ (\A p \in {} : TakesEnough(p) => unenforced' \/ Cardinality(spotlights') <= quota')
  BY <1>1
<1>. QED
  BY <1>1, <1>2, <1>3, <1>4, <1>a, <1>c, PassedKept, SpotlightsTyped

LEMMA CrashPostingKept ==
  ASSUME SpotlightsInv, NEW p \in Posters, Crash(p)
  PROVE  SpotlightsInv'
<1>1. posters' = [posters EXCEPT ![p] = NotPosting]
      /\ unenforced' = (unenforced \/ posters[p].step # "clear")
      /\ unenforced \in BOOLEAN
      /\ UNCHANGED <<spotlights, posted, quota, subscribed, plans>>
  BY SpotlightsTyped DEF Crash
<1>2. /\ posters' \in [Posters -> PosterRow] /\ posters'[p] = NotPosting
      /\ \A q \in Posters : q # p => posters'[q] = posters[q]
  BY <1>1, NotPostingIs, SpotlightsTyped
<1>3. unenforced' \in BOOLEAN /\ (unenforced => unenforced') /\ (TakesEnough(p) => unenforced')
  BY <1>1 DEF TakesEnough
<1>4. Enforced'
  BY <1>1, <1>2, <1>3, StillEnforced
<1>5. TakesNoMore(p)'
  BY <1>2, NotPostingIs DEF TakesNoMore
<1>6. crashes' \in 0..MaxCrashes
  BY SpotlightsTyped DEF Crash
<1>. QED
  BY <1>1, <1>3, <1>4, <1>5, <1>6, NotPostingIs, RowTurned

LEMMA SpotlightsStart == SpotlightsInit => SpotlightsInv
<1> SUFFICES ASSUME SpotlightsInit PROVE SpotlightsInv
  OBVIOUS
<1>1. MaxPosts \in Nat /\ MaxPlans \in Nat /\ MaxCrashes \in Nat /\ Quotas \subseteq Nat
  BY SpotlightsAssumption
<1>2. NotPosting \in PosterRow /\ NotPosting.step = "idle" /\ NotPosting.stale = {}
  BY <1>1 DEF NotPosting, PosterRow
<1>3. posters \in [Posters -> PosterRow] /\ \A p \in Posters : posters[p] = NotPosting
  BY <1>2 DEF SpotlightsInit
<1>4. SpotlightsTypeOK
  <2>1. spotlights \subseteq PostIds /\ quota \in Quotas \cup {0}
    BY DEF SpotlightsInit
  <2>a. unenforced \in BOOLEAN /\ subscribed \in BOOLEAN
    BY DEF SpotlightsInit
  <2>b. posted \in 0..MaxPosts
    BY <1>1 DEF SpotlightsInit
  <2>2. plans \in 0..MaxPlans /\ crashes \in 0..MaxCrashes
    BY <1>1 DEF SpotlightsInit
  <2>3. \A p \in Posters : posters[p] \in PosterRow
    BY <1>3
  <2>. QED
    BY <2>1, <2>2, <2>3, <2>a, <2>b DEF SpotlightsTypeOK, PosterRow
<1>5. Cardinality(spotlights) = 0 /\ quota \in Nat
  BY <1>1, FS_EmptySet DEF SpotlightsInit
<1>6. Enforced
  BY <1>5 DEF Enforced
<1>. QED
  BY <1>2, <1>3, <1>4, <1>6 DEF SpotlightsInv, SpotlightsInit, TakesNoMore

\* Whatever step comes next, a receiver that deletes deletes what it listed.
LEMMA SpotlightsStayed == SpotlightsInv => SpotlightsSteps
<1> SUFFICES ASSUME SpotlightsInv, NEW p \in Posters, DeleteStale(p), ~posters[p].passed
             PROVE  Latest(spotlights, quota) \subseteq spotlights'
  BY DEF SpotlightsSteps
<1>1. posters[p].stale \cap Latest(spotlights, quota) = {}
  BY DEF SpotlightsInv, TakesNoMore, DeleteStale
<1>2. Latest(spotlights, quota) \subseteq spotlights
  BY DEF Latest
<1>. QED
  BY <1>1, <1>2 DEF DeleteStale

LEMMA SpotlightsStep ==
  SpotlightsInv /\ [SpotlightsNext]_spotlightVars =>
    SpotlightsInv' /\ [SpotlightsSteps]_spotlightVars
<1> SUFFICES ASSUME SpotlightsInv, [SpotlightsNext]_spotlightVars
             PROVE  SpotlightsInv'
  BY SpotlightsStayed
<1>1. CASE UNCHANGED spotlightVars
  BY <1>1 DEF spotlightVars, SpotlightsInv, SpotlightsTypeOK, Enforced, TakesEnough, TakesNoMore
<1>2. CASE SpotlightsNext
  BY <1>2, LookAtQuotaKept, CreateSpotlightKept, CountSpotlightsKept, ListStaleKept,
     DeleteStaleKept, CrashPostingKept, DeleteOneKept, ChangePlanKept DEF SpotlightsNext
<1>. QED
  BY <1>1, <1>2

LEMMA SpotlightsShow == SpotlightsInv => SpotlightsTypeOK /\ QuotaKept
<1> SUFFICES ASSUME SpotlightsInv PROVE QuotaKept
  BY DEF SpotlightsInv
<1>1. Enforced
  BY DEF SpotlightsInv
<1>. QED
  BY <1>1 DEF Enforced, TakesEnough, QuotaKept

LEMMA SpotlightsHolds == SpotlightsSpec => []SpotlightsInv /\ [][SpotlightsSteps]_spotlightVars
  BY SpotlightsStart, SpotlightsStep, PTL DEF SpotlightsSpec

\* Every spotlight beyond the quota goes when the receivers have ended, for
\* any number of requests that overlap: one that has counted last takes enough.
THEOREM QuotaIsKept == SpotlightsSpec => [](SpotlightsTypeOK /\ QuotaKept)
  BY SpotlightsHolds, SpotlightsShow, PTL

\* A receiver takes away nothing that is within the quota, unless spotlights
\* were deleted or the plan changed since it counted.
THEOREM NewestDoStay == SpotlightsSpec => NewestStay
<1>1. SpotlightsSteps =>
        (\A p \in Posters :
           DeleteStale(p) /\ ~posters[p].passed => Latest(spotlights, quota) \subseteq spotlights')
  BY DEF SpotlightsSteps
<1>. QED
  BY <1>1, SpotlightsHolds, PTL DEF NewestStay

-----------------------------------------------------------------------------
(* The services together *)

\* Whatever the focus, each service takes a step of its own or none.
LEMMA EachSteps ==
  ASSUME [ServicesNext]_servicesVars
  PROVE  /\ [BillingNext]_billingVars /\ [CreditsNext]_creditVars /\ [BundleNext]_bundleVars
         /\ [LoyaltyNext]_loyaltyVars /\ [ExcellenceNext]_excellenceVars /\ [ReviewsNext]_reviewVars
         /\ [DeskNext]_deskVars /\ [TalkNext]_talkVars /\ [ProfileNext]_profileVars
         /\ [GalleryNext]_galleryVars /\ [SpotlightsNext]_spotlightVars
  BY DEF ServicesNext, servicesVars, moneyVars, peopleVars, showVars

\* A behaviour of the services is a behaviour of each of them.
LEMMA EachService ==
  ServicesSpec => /\ BillingSpec /\ CreditsSpec /\ BundleSpec /\ LoyaltySpec /\ ExcellenceSpec
                  /\ ReviewsSpec /\ DeskSpec /\ TalkSpec /\ ProfileSpec /\ GallerySpec
                  /\ SpotlightsSpec
<1>1. ServicesInit => /\ BillingInit /\ CreditsInit /\ BundleInit /\ LoyaltyInit /\ ExcellenceInit
                      /\ ReviewsInit /\ DeskInit /\ TalkInit /\ ProfileInit /\ GalleryInit
                      /\ SpotlightsInit
  BY DEF ServicesInit
<1>. QED
  BY <1>1, EachSteps, PTL
     DEF ServicesSpec, BillingSpec, CreditsSpec, BundleSpec, LoyaltySpec, ExcellenceSpec, ReviewsSpec,
         DeskSpec, TalkSpec, ProfileSpec, GallerySpec, SpotlightsSpec

\* Every service keeps the types of its state.
THEOREM ServicesTypeCorrect == ServicesSpec => []ServicesTypeOK
<1>1. /\ BillingTypeOK /\ CreditsTypeOK /\ BundleTypeOK /\ LoyaltyTypeOK /\ ExcellenceTypeOK
      /\ ReviewsTypeOK /\ DeskTypeOK /\ TalkTypeOK /\ ProfileTypeOK /\ GalleryTypeOK
      /\ SpotlightsTypeOK
      => ServicesTypeOK
  BY DEF ServicesTypeOK
<1>. QED
  BY <1>1, EachService, PaymentsCorrect, CreditsCorrect, PortalIsServed, LoyaltyCorrect, AwardsBacked,
     ReviewsCorrect, TicketIsMirrored, NewsComeBack, ProfileCorrect, GalleryStands, QuotaIsKept, PTL

\* What is used was paid for, who paid for the portal has it, and what others
\* see of a ticket, of a thread and of a provider is what it is, with the
\* exceptions that the conjuncts of ServedAndShown name.
THEOREM ServesAndShows == ServicesSpec => []ServedAndShown
<1>1. /\ UsedPaid /\ CreditsReachable /\ PortalServed /\ TicketMirrored /\ NothingNewRemoved
      /\ UrgentShown /\ MarkShown /\ CoverIsFirst /\ UploadOrder /\ GalleryWithinLimit /\ QuotaKept
      => ServedAndShown
  BY DEF ServedAndShown
<1>. QED
  BY <1>1, EachService, CreditsCorrect, PortalIsServed, TicketIsMirrored, NewsComeBack, ProfileCorrect,
     GalleryStands, QuotaIsKept, PTL

\* No step of a service takes back what stands: a payment in force, a closed
\* request for extras, an award, a closed ticket, a decision, a block, the
\* newest spotlights; who may all the same is named in each conjunct.
THEOREM NothingIsTakenBack == ServicesSpec => NothingTakenBack
  BY EachService, ReversalsFromOutside, BundleStands, AwardsStand, DeskStands, BlocksRespected,
     NewestDoStay DEF NothingTakenBack
================================================================================
