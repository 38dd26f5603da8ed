------------------------ MODULE ServiceRequestHistory ------------------------
(***************************************************************************)
(* ServiceRequest with one history variable, for what the row and its log  *)
(* do not remember: whether the execution of the current round, the one    *)
(* since the request was last in the pool or accepted, was agreed.         *)
(***************************************************************************)
EXTENDS ServiceRequest

VARIABLE agreed    \* an approval of the client, or the staff, started this round

historyVars == <<sr, logged, offers, profiles, worker, agreed>>

\* The step is the client's rejection of what the provider submitted
IsRejection ==
    /\ sr.status = "awaiting_client" /\ sr.approved = "undecided"
    /\ sr'.approved = "rejected"

HistoryInit == Init /\ agreed = FALSE

HistoryNext ==
    /\ Next
    /\ agreed' = CASE sr'.status = "in_progress" /\ ~IsRejection           -> TRUE
                   [] sr'.status \notin {"awaiting_client", "in_progress"} -> FALSE
                   [] OTHER                                                -> agreed

HistorySpec == HistoryInit /\ [][HistoryNext]_historyVars

-----------------------------------------------------------------------------

\* "The client approved the provider's inputs and execution began"
\* (services/actions.py:687): execution begins with an approval, or by the
\* staff, and rejecting the details of a round does not begin it.
ExecutionAgreed == sr.status = "in_progress" => agreed
==============================================================================
