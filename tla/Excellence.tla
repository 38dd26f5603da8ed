------------------------------- MODULE Excellence -------------------------------
(***************************************************************************)
(* The excellence badge of one type of one provider (backend/apps/         *)
(* excellence): the candidates of each review cycle, the awards, and the   *)
(* badges that the profile shows, a cache of the awards.                   *)
(*                                                                         *)
(* An approval is a transaction that locks the active award.  The          *)
(* revocation by the staff and the hourly job that expires awards lock     *)
(* nothing and write the award, its candidate and the cache one after the  *)
(* other, from what they have read before.                                 *)
(***************************************************************************)
EXTENDS Naturals, FiniteSets

CONSTANTS
    MaxCycles,   \* bound on the review cycles
    MaxAwards    \* bound on the ExcellenceBadgeAward rows

ASSUME ExcellenceAssumption == MaxCycles \in Nat \ {0} /\ MaxAwards \in Nat

VARIABLES
    candidates,   \* status of the candidate of each cycle
    cycle,        \* the current one
    awards,       \* the awards, with the cycle of their candidate
    badgeCache,   \* excellence_badges_cache shows the badge
    closers,      \* the job and the staff who closes an award, with what they have read
    rebuilding,   \* what a rebuild of the cache has read, or "idle"
    renewedSince, \* an approval came while an award was being closed
    staleRevoked  \* an award that was no longer in force was revoked

excellenceVars ==
    <<candidates, cycle, awards, badgeCache, closers, rebuilding, renewedSince, staleRevoked>>

Cycles == 1..MaxCycles
Awards == 1..MaxAwards
Closers == {"job", "staff"}
Nothing == [step |-> "idle", award |-> 0, cand |-> 0, approved |-> FALSE]
NoAwardRow == [exists |-> FALSE, active |-> FALSE, lapsed |-> FALSE, revoked |-> FALSE, cand |-> 0]

ExcellenceTypeOK ==
    /\ candidates \in [Cycles -> {"none", "pending", "approved", "revoked", "expired"}]
    /\ cycle \in Cycles
    /\ awards \in [Awards -> [exists : BOOLEAN, active : BOOLEAN, lapsed : BOOLEAN,
                              revoked : BOOLEAN, cand : {0} \cup Cycles]]
    /\ badgeCache \in BOOLEAN /\ renewedSince \in BOOLEAN /\ staleRevoked \in BOOLEAN
    /\ closers \in [Closers -> [step : {"idle", "read", "saved", "unsynced"},
                                award : {0} \cup Awards, cand : {0} \cup Cycles,
                                approved : BOOLEAN]]
    /\ rebuilding \in {"idle", "shown", "hidden"}

ExcellenceInit ==
    /\ candidates = [c \in Cycles |-> "none"]
    /\ cycle = 1
    /\ awards = [a \in Awards |-> NoAwardRow]
    /\ badgeCache = FALSE /\ renewedSince = FALSE /\ staleRevoked = FALSE
    /\ closers = [k \in Closers |-> Nothing]
    /\ rebuilding = "idle"
-----------------------------------------------------------------------------
\* active_awards_queryset
InForce(a) == awards[a].active /\ ~awards[a].revoked /\ ~awards[a].lapsed
Deserved == \E a \in Awards : InForce(a)

\* Mutation: a candidate that was approved is looked at again as well
RefreshedAgain(status, eligible) ==
    IF eligible THEN (IF status = "approved" THEN "approved" ELSE "pending")
    ELSE (IF status = "none" THEN "none" ELSE "expired")

Refreshed(status, eligible) ==
    CASE eligible /\ status \in {"none", "expired"} -> "pending"
      [] ~eligible /\ status = "pending" -> "expired"
      [] OTHER -> status

\* refresh_excellence_candidates
RefreshCandidates(eligible) ==
    /\ candidates' = [candidates EXCEPT ![cycle] = Refreshed(@, eligible)]
    /\ UNCHANGED <<cycle, awards, badgeCache, closers, rebuilding, renewedSince, staleRevoked>>

NextCycle ==
    /\ cycle < MaxCycles /\ cycle' = cycle + 1
    /\ UNCHANGED <<candidates, awards, badgeCache, closers, rebuilding, renewedSince, staleRevoked>>

\* approve_candidate, whatever the status of the candidate: the active award
\* is renewed, or there is a new one.  The cache comes after the commit, if
\* the process still runs.
Approve(c) ==
    /\ candidates[c] # "none"
    /\ \E a \in Awards :
         /\ \/ awards[a].active
            \/ /\ ~\E b \in Awards : awards[b].active
               /\ ~awards[a].exists /\ \A b \in Awards : b < a => awards[b].exists
         /\ awards' = [awards EXCEPT ![a] =
              [exists |-> TRUE, active |-> TRUE, lapsed |-> FALSE, revoked |-> FALSE, cand |-> c]]
    /\ candidates' = [candidates EXCEPT ![c] = "approved"]
    /\ badgeCache' \in {badgeCache, TRUE}
    /\ renewedSince' = (renewedSince \/ \E k \in Closers : closers[k] # Nothing)
    /\ UNCHANGED <<cycle, closers, rebuilding, staleRevoked>>

\* valid_until passes
Lapse(a) ==
    /\ InForce(a)
    /\ awards' = [awards EXCEPT ![a].lapsed = TRUE]
    /\ UNCHANGED <<candidates, cycle, badgeCache, closers, rebuilding, renewedSince, staleRevoked>>
-----------------------------------------------------------------------------
(* Closing an award: expire_excellence_awards and revoke_award              *)

\* What the job takes
ToExpire(a) == awards[a].active /\ awards[a].lapsed

\* The staff may take any award
ReadAward(k, a) ==
    /\ closers[k] = Nothing /\ awards[a].exists
    /\ k = "job" => ToExpire(a)
    /\ closers' = [closers EXCEPT ![k] = [step |-> "read", award |-> a, cand |-> awards[a].cand,
                                          approved |-> k = "job" /\ candidates[awards[a].cand] = "approved"]]
    /\ staleRevoked' = (staleRevoked \/ (k = "staff" /\ ~awards[a].active))
    /\ UNCHANGED <<candidates, cycle, awards, badgeCache, rebuilding, renewedSince>>

SaveAward(k) ==
    /\ closers[k].step = "read"
    /\ awards' = [awards EXCEPT ![closers[k].award].active = FALSE,
                                ![closers[k].award].revoked = TRUE]
    /\ closers' = [closers EXCEPT ![k].step = "saved", ![k].award = 0]
    /\ UNCHANGED <<candidates, cycle, badgeCache, rebuilding, renewedSince, staleRevoked>>

\* The job expires a candidate that it has read as approved
SaveCandidate(k) ==
    /\ closers[k].step = "saved"
    /\ candidates' = [candidates EXCEPT ![closers[k].cand] =
         CASE k = "staff" -> "revoked"
           [] k = "job" /\ closers[k].approved -> "expired"
           [] OTHER -> @]
    /\ closers' = [closers EXCEPT ![k] = [Nothing EXCEPT !.step = "unsynced"]]
    /\ UNCHANGED <<cycle, awards, badgeCache, rebuilding, renewedSince, staleRevoked>>

\* schedule_provider_excellence_cache_sync
SyncBadge(k) ==
    /\ closers[k].step = "unsynced"
    /\ badgeCache' = Deserved
    /\ closers' = [closers EXCEPT ![k] = Nothing]
    /\ UNCHANGED <<candidates, cycle, awards, rebuilding, renewedSince, staleRevoked>>

DieClosing(k) ==
    /\ closers[k] # Nothing
    /\ closers' = [closers EXCEPT ![k] = Nothing]
    /\ UNCHANGED <<candidates, cycle, awards, badgeCache, rebuilding, renewedSince, staleRevoked>>
-----------------------------------------------------------------------------
(* rebuild_excellence_badges_cache, every night: it reads the awards,       *)
ReadBadge ==
    /\ rebuilding = "idle"
    /\ rebuilding' = IF Deserved THEN "shown" ELSE "hidden"
    /\ UNCHANGED <<candidates, cycle, awards, badgeCache, closers, renewedSince, staleRevoked>>

Written == rebuilding = "shown"

\* and writes the profile
WriteBadge ==
    /\ rebuilding # "idle"
    /\ badgeCache' = Written
    /\ rebuilding' = "idle"
    /\ UNCHANGED <<candidates, cycle, awards, closers, renewedSince, staleRevoked>>

ExcellenceNext ==
    \/ NextCycle \/ ReadBadge \/ WriteBadge
    \/ \E eligible \in BOOLEAN : RefreshCandidates(eligible)
    \/ \E c \in Cycles : Approve(c)
    \/ \E a \in Awards : Lapse(a) \/ \E k \in Closers : ReadAward(k, a)
    \/ \E k \in Closers : SaveAward(k) \/ SaveCandidate(k) \/ SyncBadge(k) \/ DieClosing(k)

ExcellenceSpec == ExcellenceInit /\ [][ExcellenceNext]_excellenceVars

\* Beat starts the rebuild for ever
FairExcellenceSpec ==
    ExcellenceSpec /\ WF_excellenceVars(ReadBadge) /\ WF_excellenceVars(WriteBadge)
-----------------------------------------------------------------------------
(* Properties *)

\* The award in force is of a candidate who is approved, through new cycles,
\* renewals and processes that die, unless it was approved while an award
\* was being closed, or an award that was over was revoked.
AwardBacked ==
    renewedSince \/ staleRevoked \/
    \A a \in Awards : InForce(a) => candidates[awards[a].cand] = "approved"

\* Only the staff takes away an award that is in force, unless it was
\* renewed after the job had read it.
AwardStands ==
    [][ renewedSince \/ \A a \in Awards : InForce(a) /\ ~awards'[a].active =>
          closers["staff"].step = "read" /\ closers["staff"].award = a ]_excellenceVars

\* A profile does not go on showing a badge that is over, whichever process
\* has died or has written what it read before.
BadgeGoes == (badgeCache /\ ~Deserved) ~> (~badgeCache \/ Deserved)
==================================================================================
