---------------------------- MODULE ProviderProfile ----------------------------
(***************************************************************************)
(* What the row of a provider says of him that is decided elsewhere: that  *)
(* he takes urgent requests, and the marks that he has earned              *)
(* (backend/apps/providers).                                               *)
(*                                                                         *)
(* His requests, from several devices, each load the row and work with     *)
(* that copy.  An edit of the profile writes all the columns of its copy   *)
(* back; the settings of his subcategories are followed by a comparison of *)
(* the flag with what they say.                                            *)
(***************************************************************************)
EXTENDS Naturals

CONSTANTS
    Subcategories,
    Devices,         \* requests of the provider that overlap
    MaxDecisions     \* bound on the decisions of the staff about subcategories

ASSUME ProfileAssumption == MaxDecisions \in Nat

VARIABLES
    profile,     \* his row: takes urgent requests, carries a mark
    earned,      \* he has earned the mark (verification, reviews, excellence)
    urgentIn,    \* the subcategories in which he takes urgent requests
    allowed,     \* the subcategories that allow them
    devices,     \* what each of his requests does
    unsynced,    \* the flag was not compared, or with a stale copy, since it could change
    markLost,    \* an edit wrote back a mark that was no longer so
    decisions

profileVars ==
    <<profile, earned, urgentIn, allowed, devices, unsynced, markLost, decisions>>

Row == [urgent : BOOLEAN, mark : BOOLEAN]

NoEdit == [step |-> "idle", copy |-> [urgent |-> FALSE, mark |-> FALSE],
           chosen |-> {}, wants |-> FALSE]

ProfileTypeOK ==
    /\ profile \in Row
    /\ earned \in BOOLEAN /\ unsynced \in BOOLEAN /\ markLost \in BOOLEAN
    /\ urgentIn \subseteq Subcategories /\ allowed \subseteq Subcategories
    /\ decisions \in 0..MaxDecisions
    /\ devices \in [Devices -> [step : {"idle", "loaded", "checked", "stored", "judged"},
                                copy : Row, chosen : SUBSET Subcategories, wants : BOOLEAN]]

ProfileInit ==
    /\ profile = [urgent |-> FALSE, mark |-> FALSE]
    /\ earned = FALSE /\ unsynced = FALSE /\ markLost = FALSE
    /\ urgentIn = {} /\ allowed \in SUBSET Subcategories
    /\ devices = [d \in Devices |-> NoEdit]
    /\ decisions = 0
-----------------------------------------------------------------------------

Takes(chosen, open) == chosen \cap open # {}

\* sync_provider_accepts_urgent_flag writes if its copy says otherwise
Compared(row, copy, wants) ==
    IF copy.urgent # wants THEN [row EXCEPT !.urgent = wants] ELSE row

\* A request begins, and loads the row
LoadProfile(d) ==
    /\ devices[d] = NoEdit
    /\ devices' = [devices EXCEPT ![d] = [NoEdit EXCEPT !.step = "loaded", !.copy = profile]]
    /\ UNCHANGED <<profile, earned, urgentIn, allowed, unsynced, markLost, decisions>>

\* MyProviderProfileView.update: every column of the copy is written, with
\* the flag as the form has it
SaveProfile(d) ==
    /\ devices[d].step = "loaded"
    /\ \E urgent \in BOOLEAN :
         /\ profile' = [devices[d].copy EXCEPT !.urgent = urgent]
         /\ unsynced' = (unsynced \/ urgent # profile.urgent)
    /\ markLost' = (markLost \/ devices[d].copy.mark # profile.mark)
    /\ devices' = [devices EXCEPT ![d] = NoEdit]
    /\ UNCHANGED <<earned, urgentIn, allowed, decisions>>

\* MyProviderSubcategoriesView.put: all settings are replaced and the flag
\* compared in one transaction, whatever the subcategories allow
ReplaceSettings(d) ==
    /\ devices[d].step = "loaded"
    /\ \E chosen \in SUBSET Subcategories :
         /\ urgentIn' = chosen
         /\ profile' = Compared(profile, devices[d].copy, Takes(chosen, allowed))
    /\ unsynced' = (devices[d].copy.urgent # profile.urgent)
    /\ devices' = [devices EXCEPT ![d] = NoEdit]
    /\ UNCHANGED <<earned, allowed, markLost, decisions>>

\* A service is created or changed: what it says of urgent requests is
\* checked against the subcategory,
CheckService(d) ==
    /\ devices[d].step = "loaded"
    /\ \E s \in Subcategories, urgent \in BOOLEAN :
         /\ urgent => s \in allowed
         /\ devices' = [devices EXCEPT ![d].step = "checked", ![d].chosen = {s},
                                       ![d].wants = urgent]
    /\ UNCHANGED <<profile, earned, urgentIn, allowed, unsynced, markLost, decisions>>

\* after the service has been saved, the setting is stored,
StoreSetting(d) ==
    /\ devices[d].step = "checked"
    /\ urgentIn' = IF devices[d].wants THEN urgentIn \cup devices[d].chosen
                                       ELSE urgentIn \ devices[d].chosen
    /\ unsynced' = TRUE
    /\ devices' = [devices EXCEPT ![d].step = "stored"]
    /\ UNCHANGED <<profile, earned, allowed, markLost, decisions>>

\* the settings are looked at again,
JudgeFlag(d) ==
    /\ devices[d].step = "stored"
    /\ devices' = [devices EXCEPT ![d].step = "judged", ![d].wants = Takes(urgentIn, allowed)]
    /\ UNCHANGED <<profile, earned, urgentIn, allowed, unsynced, markLost, decisions>>

\* and the flag is compared
WriteFlag(d) ==
    /\ devices[d].step = "judged"
    /\ profile' = Compared(profile, devices[d].copy, devices[d].wants)
    /\ unsynced' = (\/ devices[d].copy.urgent # profile.urgent
                    \/ devices[d].wants # Takes(urgentIn, allowed))
    /\ devices' = [devices EXCEPT ![d] = NoEdit]
    /\ UNCHANGED <<earned, urgentIn, allowed, markLost, decisions>>

\* The request dies where it is
DropEdit(d) ==
    /\ devices[d] # NoEdit
    /\ devices' = [devices EXCEPT ![d] = NoEdit]
    /\ UNCHANGED <<profile, earned, urgentIn, allowed, unsynced, markLost, decisions>>

\* content_categories: the staff allows urgent requests in a subcategory, or
\* not any more; no profile is looked at
ToggleUrgent(s) ==
    /\ decisions < MaxDecisions
    /\ allowed' = IF s \in allowed THEN allowed \ {s} ELSE allowed \cup {s}
    /\ unsynced' = (unsynced \/ Takes(urgentIn, allowed') # Takes(urgentIn, allowed))
    /\ decisions' = decisions + 1
    /\ UNCHANGED <<profile, earned, urgentIn, devices, markLost>>

\* The mark is earned or lost, and written in its own columns
DecideMark ==
    /\ decisions < MaxDecisions
    /\ earned' = ~earned
    /\ profile' = [profile EXCEPT !.mark = earned']
    /\ markLost' = FALSE
    /\ decisions' = decisions + 1
    /\ UNCHANGED <<urgentIn, allowed, devices, unsynced>>

ProfileNext ==
    \/ \E d \in Devices :
         \/ LoadProfile(d) \/ SaveProfile(d) \/ ReplaceSettings(d)
         \/ CheckService(d) \/ StoreSetting(d) \/ JudgeFlag(d) \/ WriteFlag(d) \/ DropEdit(d)
    \/ \E s \in Subcategories : ToggleUrgent(s)
    \/ DecideMark

ProfileSpec == ProfileInit /\ [][ProfileNext]_profileVars
-----------------------------------------------------------------------------
(* Properties *)

\* The dispatcher asks for the flag and for the setting.  The flag agrees
\* with the settings unless it was written by hand, the staff changed what a
\* subcategory allows, or requests overlapped and one judged what was passed.
UrgentShown == unsynced \/ profile.urgent = Takes(urgentIn, allowed)

\* A mark is shown as it was earned, unless an edit of the profile that had
\* loaded the row before wrote it back.
MarkShown == markLost \/ profile.mark = earned
================================================================================
