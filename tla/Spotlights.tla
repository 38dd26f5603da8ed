------------------------------ MODULE Spotlights ------------------------------
(***************************************************************************)
(* The spotlights of a provider and the quota of his plan                  *)
(* (backend/apps/providers).                                               *)
(*                                                                         *)
(* A request looks at the quota before it creates a spotlight; a receiver  *)
(* of the creation then deletes the oldest ones beyond the quota, in three *)
(* statements of its own: it counts, lists and deletes.  Nothing is locked *)
(* between any two of these.                                               *)
(***************************************************************************)
EXTENDS Naturals, FiniteSets

CONSTANTS
    Posters,     \* requests of the provider that overlap
    Quotas,      \* what his plans allow
    MaxPosts,    \* bound on the spotlights
    MaxPlans,    \* bound on the changes of his plan
    MaxCrashes   \* bound on the requests that die

ASSUME SpotlightsAssumption ==
    Quotas \subseteq Nat /\ MaxPosts \in Nat /\ MaxPlans \in Nat /\ MaxCrashes \in Nat

VARIABLES
    spotlights,  \* those that are there, by their ids
    posted,      \* how many were created
    quota,       \* what the subscription in force allows (0 without one)
    subscribed,  \* there is a subscription in force
    posters,     \* what each request does
    unenforced,  \* the quota fell, a receiver died, or found no subscription to enforce
    plans, crashes

spotlightVars ==
    <<spotlights, posted, quota, subscribed, posters, unenforced, plans, crashes>>

PostIds == 1..MaxPosts
NotPosting == [step |-> "idle", over |-> 0, stale |-> {}, passed |-> FALSE]

SpotlightsTypeOK ==
    /\ spotlights \subseteq PostIds /\ posted \in 0..MaxPosts
    /\ quota \in Quotas \cup {0} /\ subscribed \in BOOLEAN /\ unenforced \in BOOLEAN
    /\ plans \in 0..MaxPlans /\ crashes \in 0..MaxCrashes
    /\ \A p \in Posters :
         /\ posters[p].step \in {"idle", "clear", "created", "counted", "listed"}
         /\ posters[p].over \in 0..MaxPosts /\ posters[p].stale \subseteq PostIds
         /\ posters[p].passed \in BOOLEAN

SpotlightsInit ==
    /\ spotlights = {} /\ posted = 0
    /\ quota \in Quotas /\ subscribed = TRUE
    /\ posters = [p \in Posters |-> NotPosting]
    /\ unenforced = FALSE /\ plans = 0 /\ crashes = 0
-----------------------------------------------------------------------------

\* Those that come last when the first n are taken away
Latest(set, n) == {i \in set : Cardinality({j \in set : j > i}) < n}
Oldest(set, n) == {i \in set : Cardinality({j \in set : j < i}) < n}

\* What the receivers that have counted rely on has changed, but for these
Passed(but) ==
    [p \in Posters |->
       IF p \notin but /\ posters[p].step \in {"counted", "listed"}
       THEN [posters[p] EXCEPT !.passed = TRUE] ELSE posters[p]]

\* MyProviderSpotlightListCreateView.create looks at the quota,
LookAtQuota(p) ==
    /\ posters[p] = NotPosting
    /\ Cardinality(spotlights) < quota
    /\ posters' = [posters EXCEPT ![p].step = "clear"]
    /\ UNCHANGED <<spotlights, posted, quota, subscribed, unenforced, plans, crashes>>

\* and saves the spotlight
CreateSpotlight(p) ==
    /\ posters[p].step = "clear" /\ posted < MaxPosts
    /\ posted' = posted + 1
    /\ spotlights' = spotlights \cup {posted + 1}
    /\ posters' = [posters EXCEPT ![p].step = "created"]
    /\ UNCHANGED <<quota, subscribed, unenforced, plans, crashes>>

\* enforce_spotlight_quota counts, if there is a subscription,
CountSpotlights(p) ==
    /\ posters[p].step = "created"
    /\ IF subscribed /\ Cardinality(spotlights) > quota
       THEN /\ posters' = [posters EXCEPT ![p].step = "counted",
                                          ![p].over = Cardinality(spotlights) - quota]
            /\ UNCHANGED unenforced
       ELSE /\ posters' = [posters EXCEPT ![p] = NotPosting]
            /\ unenforced' = (Cardinality(spotlights) > quota)
    /\ UNCHANGED <<spotlights, posted, quota, subscribed, plans, crashes>>

\* lists as many of the oldest as are over,
ListStale(p) ==
    /\ posters[p].step = "counted"
    /\ posters' = [posters EXCEPT ![p].step = "listed",
                                  ![p].stale = Oldest(spotlights, posters[p].over)]
    /\ UNCHANGED <<spotlights, posted, quota, subscribed, unenforced, plans, crashes>>

\* and deletes them
DeleteStale(p) ==
    /\ posters[p].step = "listed"
    /\ spotlights' = spotlights \ posters[p].stale
    /\ posters' = [Passed({p}) EXCEPT ![p] = NotPosting]
    /\ unenforced' = (unenforced /\ Cardinality(spotlights') > quota)
    /\ UNCHANGED <<posted, quota, subscribed, plans, crashes>>

\* MyProviderSpotlightDetailView: the provider deletes one
DeleteOne(i) ==
    /\ i \in spotlights
    /\ spotlights' = spotlights \ {i}
    /\ posters' = Passed({})
    /\ UNCHANGED <<posted, quota, subscribed, unenforced, plans, crashes>>

\* The provider changes his plan, or his subscription ends
ChangePlan ==
    /\ plans < MaxPlans
    /\ plans' = plans + 1
    /\ \/ quota' \in Quotas /\ subscribed' = TRUE
       \/ quota' = 0 /\ subscribed' = FALSE
    /\ unenforced' = (unenforced \/ quota' < quota)
    /\ posters' = Passed({})
    /\ UNCHANGED <<spotlights, posted, crashes>>

Crash(p) ==
    /\ posters[p] # NotPosting /\ crashes < MaxCrashes
    /\ crashes' = crashes + 1
    /\ unenforced' = (unenforced \/ posters[p].step # "clear")
    /\ posters' = [posters EXCEPT ![p] = NotPosting]
    /\ UNCHANGED <<spotlights, posted, quota, subscribed, plans>>

SpotlightsNext ==
    \/ \E p \in Posters :
         \/ LookAtQuota(p) \/ CreateSpotlight(p) \/ CountSpotlights(p) \/ ListStale(p)
         \/ DeleteStale(p) \/ Crash(p)
    \/ \E i \in PostIds : DeleteOne(i)
    \/ ChangePlan

SpotlightsSpec == SpotlightsInit /\ [][SpotlightsNext]_spotlightVars
-----------------------------------------------------------------------------
(* Properties *)

\* When all receivers have ended there are not more spotlights than the
\* quota, however their requests overlapped, unless the quota has fallen, a
\* receiver has died or found no subscription, and none has ended well since.
QuotaKept ==
    \/ unenforced
    \/ \E p \in Posters : posters[p].step \in {"created", "counted", "listed"}
    \/ Cardinality(spotlights) <= quota

\* A receiver takes away only what is beyond the quota, unless spotlights
\* were deleted or the plan changed after it had counted.
NewestStay ==
    [][ \A p \in Posters :
          DeleteStale(p) /\ ~posters[p].passed =>
            Latest(spotlights, quota) \subseteq spotlights' ]_spotlightVars
================================================================================
