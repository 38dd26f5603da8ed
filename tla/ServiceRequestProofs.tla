------------------------ MODULE ServiceRequestProofs ------------------------
(***************************************************************************)
(* Proofs about ServiceRequest, for any providers, workers and responses.  *)
(***************************************************************************)
EXTENDS ServiceRequest, TLAPS

(* What the helpers return. *)

LEMMA ClearedRow ==
  ASSUME NEW r \in Request, NEW s \in RequestStatus \cup {"deleted"}
  PROVE  /\ [Cleared(r) EXCEPT !.status = s] \in Request
         /\ [Cleared(r) EXCEPT !.status = s].status = s
         /\ [Cleared(r) EXCEPT !.status = s].provider = NoProvider
  BY DEF Cleared, Request

LEMMA CancelledType ==
  ASSUME TypeOK
  PROVE  /\ Cancelled \in Request
         /\ Cancelled.status = "cancelled"
         /\ Cancelled.provider \in {NoProvider, sr.provider}
<1>1. "cancelled" \in RequestStatus \cup {"deleted"}
  BY DEF RequestStatus
<1>2. CASE sr.status \in PreExecution
  BY <1>1, <1>2, ClearedRow DEF Cancelled, TypeOK
<1>3. CASE sr.status \notin PreExecution
  BY <1>1, <1>3 DEF Cancelled, TypeOK, Request
<1>. QED BY <1>2, <1>3

LEMMA RelistType ==
  ASSUME TypeOK, RelistToPool
  PROVE  /\ sr' \in Request
         /\ sr'.status = "new" /\ sr'.provider = NoProvider
         /\ logged' = logged \cup {"new"}
         /\ logged' \subseteq RequestStatus
         /\ offers' \in [Providers -> OfferStatus]
         /\ \A p \in Providers : offers'[p] \in {"none", offers[p]}
<1>1. "new" \in RequestStatus
  BY DEF RequestStatus, PreExecution
<1>2. sr' \in Request /\ sr'.status = "new" /\ sr'.provider = NoProvider
  BY <1>1, ClearedRow DEF RelistToPool, TypeOK
<1>. QED
  BY <1>1, <1>2 DEF RelistToPool, LogStatus, TypeOK, NoOffers, OfferStatus

LEMMA AcceptedType ==
  ASSUME TypeOK, NEW p \in Providers
  PROVE  /\ Accepted(p) \in Request
         /\ Accepted(p).status = "provider_accepted"
         /\ Accepted(p).provider = p
  BY DEF Accepted, TypeOK, Request, RequestStatus, PreExecution

LEMMA JobTypes ==
  /\ Idle \in Task
  /\ \A p \in Providers :
        /\ Job("legacy_accept", p, {}) \in Task
        /\ Job("legacy_log", p, {}) \in Task
        /\ Job("create_offer", p, {}) \in Task
  /\ \A answer \in SUBSET Responses : Job("approve", NoProvider, answer) \in Task
  /\ Job("redispatch", NoProvider, {}) \in Task
  /\ Job("edit", NoProvider, {}) \in Task
  BY DEF Idle, Job, Task

-----------------------------------------------------------------------------

LEMMA InitType == Init => TypeOK
<1> SUFFICES ASSUME Init PROVE TypeOK
  OBVIOUS
<1>1. sr \in Request
  BY ConstantsAssumption
     DEF Init, NewRequest, InitialProvider, Request, AllTypes, RequestStatus, PreExecution
<1>. QED
  BY <1>1, JobTypes DEF Init, TypeOK, NoOffers, OfferStatus

LEMMA TypeKept ==
  ASSUME TypeOK, [Next]_vars
  PROVE  TypeOK'
<1>1. ASSUME NEW p \in Providers, UrgentAccept(p)
     PROVE  TypeOK'
  BY <1>1, AcceptedType DEF TypeOK, UrgentAccept, LogStatus, RequestStatus, PreExecution
<1>2. ASSUME NEW p \in Providers, AssignedAccept(p)
     PROVE  TypeOK'
  BY <1>2, AcceptedType DEF TypeOK, AssignedAccept, LogStatus, RequestStatus, PreExecution
<1>3. ASSUME NEW p \in Providers, ProviderReject(p)
     PROVE  TypeOK'
  <2>1. CASE RelistToPool
    BY <1>3, <2>1, RelistType DEF ProviderReject, TypeOK
  <2>2. CASE sr' = Cancelled /\ LogStatus("cancelled") /\ UNCHANGED offers
    BY <1>3, <2>2, CancelledType
       DEF ProviderReject, TypeOK, LogStatus, RequestStatus, PreExecution
  <2>. QED
    BY <1>3, <2>1, <2>2 DEF ProviderReject
<1>4. ASSUME NEW p \in Providers, NEW required \in SUBSET Responses, NEW d \in BOOLEAN, ProgressUpdate(p, required, d)
     PROVE  TypeOK'
  BY <1>4 DEF TypeOK, ProgressUpdate, LogStatus, Request, RequestStatus, PreExecution
<1>5. ASSUME NEW p \in Providers, SubmitDetails(p)
     PROVE  TypeOK'
  BY <1>5 DEF TypeOK, SubmitDetails, LogStatus, Request, RequestStatus, PreExecution
<1>6. ASSUME NEW p \in Providers, Complete(p)
     PROVE  TypeOK'
  BY <1>6 DEF TypeOK, Complete, LogStatus, Request, RequestStatus, PreExecution
<1>7. ASSUME NEW p \in Providers, ProviderCancel(p)
     PROVE  TypeOK'
  BY <1>7 DEF TypeOK, ProviderCancel, LogStatus, Request, RequestStatus, PreExecution
<1>8. ASSUME NEW p \in Providers, StaffAccept(p)
     PROVE  TypeOK'
  BY <1>8, AcceptedType DEF TypeOK, StaffAccept, LogStatus, RequestStatus, PreExecution
<1>9. ASSUME NEW p \in Providers, AcceptOffer(p)
     PROVE  TypeOK'
  BY <1>9 DEF TypeOK, AcceptOffer, LogStatus, Request, RequestStatus, PreExecution, OfferStatus
<1>10. ASSUME NEW p \in Providers, DeleteProviderAccount(p)
     PROVE  TypeOK'
  BY <1>10 DEF TypeOK, DeleteProviderAccount, Request, OfferStatus
<1>11. CASE EngagedCancel
  BY <1>11, CancelledType DEF TypeOK, EngagedCancel, LogStatus, RequestStatus, PreExecution
<1>12. CASE ClientCancel
  BY <1>12, CancelledType DEF TypeOK, ClientCancel, LogStatus, RequestStatus, PreExecution
<1>13. CASE Relist
  BY <1>13, RelistType DEF Relist, TypeOK
<1>14. CASE PageApprove
  BY <1>14 DEF TypeOK, PageApprove, ApproveInputs, LogStatus, Request, RequestStatus, PreExecution
<1>15. CASE RejectInputs
  BY <1>15 DEF TypeOK, RejectInputs, ReturnStatus, LogStatus, Request, RequestStatus, PreExecution
<1>16. CASE HardDelete
  <2>1. [Cleared(sr) EXCEPT !.status = "deleted"] \in Request
    BY ClearedRow DEF TypeOK
  <2>. QED
    BY <1>16, <2>1 DEF TypeOK, HardDelete, RowDeleted, NoOffers, OfferStatus
<1>17. CASE StaffStart
  BY <1>17 DEF TypeOK, StaffStart, LogStatus, Request, RequestStatus, PreExecution
<1>18. CASE StaffComplete
  BY <1>18 DEF TypeOK, StaffComplete, LogStatus, Request, RequestStatus, PreExecution
<1>19. CASE DeleteClientAccount
  <2>1. [Cleared(sr) EXCEPT !.status = "deleted"] \in Request
    BY ClearedRow DEF TypeOK
  <2>. QED
    BY <1>19, <2>1 DEF TypeOK, DeleteClientAccount, RowDeleted, NoOffers, OfferStatus
<1>20. ASSUME NEW w \in Workers, NEW p \in Providers, LegacyAcceptRead(w, p)
     PROVE  TypeOK'
  BY <1>20, JobTypes DEF TypeOK, LegacyAcceptRead, Hold
<1>21. ASSUME NEW w \in Workers, NEW p \in Providers, CreateOfferCheck(w, p)
     PROVE  TypeOK'
  BY <1>21, JobTypes DEF TypeOK, CreateOfferCheck, Hold
<1>22. ASSUME NEW w \in Workers, NEW answer \in SUBSET Responses, DecisionCheck(w, answer)
     PROVE  TypeOK'
  BY <1>22, JobTypes DEF TypeOK, DecisionCheck, Hold
<1>23. ASSUME NEW w \in Workers, LegacyAcceptUpdate(w)
     PROVE  TypeOK'
  <2>1. worker[w].who \in Providers \cup {NoProvider}
    BY DEF TypeOK, Task
  <2>2. CASE AcceptGuard(worker[w].who)
    BY <1>23, <2>1, <2>2, AcceptedType, JobTypes
       DEF LegacyAcceptUpdate, AcceptGuard, Hold, TypeOK
  <2>3. CASE ~AcceptGuard(worker[w].who)
    BY <1>23, <2>3, JobTypes DEF LegacyAcceptUpdate, Release, TypeOK
  <2>. QED
    BY <2>2, <2>3
<1>24. ASSUME NEW w \in Workers, LegacyAcceptLog(w)
     PROVE  TypeOK'
  BY <1>24, JobTypes DEF TypeOK, LegacyAcceptLog, Release, LogStatus, RequestStatus, PreExecution
<1>25. ASSUME NEW w \in Workers, CreateOfferInsert(w)
     PROVE  TypeOK'
  BY <1>25, JobTypes DEF TypeOK, CreateOfferInsert, Release, OfferStatus
<1>26. ASSUME NEW w \in Workers, DecisionApply(w)
     PROVE  TypeOK'
  BY <1>26, JobTypes DEF TypeOK, DecisionApply, Release, ApproveInputs, LogStatus, Request, RequestStatus, PreExecution
<1>27. ASSUME NEW w \in Workers, Reopen(w)
     PROVE  TypeOK'
  BY <1>27, JobTypes DEF TypeOK, Reopen, Hold, LogStatus, Request, RequestStatus, PreExecution
<1>28. ASSUME NEW w \in Workers, Redispatch(w)
     PROVE  TypeOK'
  BY <1>28, JobTypes DEF TypeOK, Redispatch, Release, NoOffers, OfferStatus
<1>29. ASSUME NEW w \in Workers, WorkerLost(w)
     PROVE  TypeOK'
  BY <1>29, JobTypes DEF TypeOK, WorkerLost, Release
<1>30. ASSUME NEW w \in Workers, EditCheck(w) \/ EditSave(w)
       PROVE  TypeOK'
  BY <1>30, JobTypes DEF TypeOK, EditCheck, EditSave, Hold, Release, LogStatus, RequestStatus, PreExecution
<1>31. CASE UNCHANGED vars
  BY <1>31 DEF TypeOK, vars
<1>32. ASSUME NEW p \in Providers, ProviderStep(p)
       PROVE  TypeOK'
  BY <1>32, <1>1, <1>2, <1>3, <1>4, <1>5, <1>6, <1>7, <1>8, <1>9, <1>10 DEF ProviderStep
<1>33. CASE RequestStep
  BY <1>33, <1>11, <1>12, <1>13, <1>14, <1>15, <1>16, <1>17, <1>18, <1>19 DEF RequestStep
<1>34. ASSUME NEW w \in Workers, WorkerStep(w)
       PROVE  TypeOK'
  BY <1>34, <1>20, <1>21, <1>22, <1>23, <1>24, <1>25, <1>26, <1>27, <1>28, <1>29, <1>30 DEF WorkerStep
<1>. QED
  BY <1>31, <1>32, <1>33, <1>34 DEF Next

\* The variables keep their types along every behaviour.
THEOREM TypeCorrect == Spec => []TypeOK
<1>1. Init => TypeOK
  BY InitType
<1>2. TypeOK /\ [Next]_vars => TypeOK'
  BY TypeKept
<1>. QED
  BY <1>1, <1>2, PTL DEF Spec

-----------------------------------------------------------------------------
(* What a step does to the row and to its log, whoever takes it.  Several   *)
(* handlers have the same effect; the invariants are proved on the effects. *)

\* The log tells the same stage as before
SameStage == "in_progress" \in logged' <=> "in_progress" \in logged

\* A reopening waits for its callback
Reopening == \E w \in Workers : worker[w].op = "redispatch"

Untouched == sr' = sr /\ profiles' = profiles /\ SameStage

Accepts(p) ==
    /\ sr.status = "new" /\ sr.provider \in {NoProvider, p}
    /\ sr' = Accepted(p)
    /\ profiles' = profiles
    /\ SameStage

Submits(p) ==
    /\ sr.provider = p
    /\ sr.status \in PreExecution \cup {"in_progress"}
    /\ sr'.status = "awaiting_client" /\ sr'.provider = p
    /\ sr'.rtype = sr.rtype
    /\ sr'.approved = "undecided"
    /\ BeforeExecution => sr'.details
    /\ sr.details => sr'.details
    /\ profiles' = profiles
    /\ SameStage

Approves == ApproveInputs /\ profiles' = profiles

Finishes ==
    /\ sr.status = "in_progress"
    /\ sr' = [sr EXCEPT !.status = "completed"]
    /\ profiles' = profiles
    /\ SameStage

Cancels ==
    /\ sr.status \in PreExecution \cup {"in_progress"}
    /\ sr' = Cancelled
    /\ profiles' = profiles
    /\ SameStage

Relists == RelistToPool /\ profiles' = profiles

Reopens ==
    /\ sr.status = "cancelled" /\ sr.rtype \in PoolTypes
    /\ sr' = [sr EXCEPT !.status = "new", !.provider = NoProvider]
    /\ profiles' = profiles
    /\ SameStage
    /\ Reopening'

Vanishes == sr.status # "deleted" /\ RowDeleted /\ profiles' \subseteq profiles

Effect ==
    \/ Untouched
    \/ \E p \in Providers : \/ Accepts(p) \/ Submits(p)
                            \/ AcceptOffer(p) \/ DeleteProviderAccount(p)
    \/ Approves \/ RejectInputs \/ StaffStart \/ Finishes
    \/ Cancels \/ Relists \/ Reopens \/ Vanishes

\* Every step of the system has one of these effects.
LEMMA StepEffect ==
  ASSUME TypeOK, [Next]_vars
  PROVE  Effect
<1>1. ASSUME NEW p \in Providers, ProviderStep(p)
      PROVE  Effect
  <2>1. CASE UrgentAccept(p)
    BY <2>1 DEF UrgentAccept, LogStatus, Accepts, SameStage, Effect
  <2>2. CASE AssignedAccept(p)
    BY <2>2 DEF AssignedAccept, LogStatus, Accepts, SameStage, Effect
  <2>3. CASE StaffAccept(p)
    BY <2>3 DEF StaffAccept, AcceptGuard, LogStatus, Accepts, SameStage, Effect
  <2>4. CASE ProviderReject(p)
    BY <2>4 DEF ProviderReject, BeforeExecution, LogStatus, Cancels, Relists, SameStage, Effect
  <2>5. ASSUME NEW required \in SUBSET Responses, NEW d \in BOOLEAN,
               ProgressUpdate(p, required, d)
        PROVE  Submits(p)
    BY <2>5 DEF ProgressUpdate, BeforeExecution, LogStatus, Submits, SameStage, TypeOK, Request
  <2>6. ASSUME SubmitDetails(p) PROVE Submits(p)
    BY <2>6 DEF SubmitDetails, BeforeExecution, LogStatus, Submits, SameStage, TypeOK, Request, PreExecution
  <2>7. CASE Complete(p)
    BY <2>7 DEF Complete, LogStatus, Finishes, SameStage, Effect
  <2>8. CASE ProviderCancel(p)
    <3>1. sr.status \notin PreExecution
      BY <2>8 DEF ProviderCancel, PreExecution
    <3>. QED
      BY <2>8, <3>1 DEF ProviderCancel, Cancelled, LogStatus, Cancels, SameStage, Effect
  <2>9. CASE AcceptOffer(p) \/ DeleteProviderAccount(p)
    BY <2>9 DEF Effect
  <2>. QED
    BY <1>1, <2>1, <2>2, <2>3, <2>4, <2>5, <2>6, <2>7, <2>8, <2>9
       DEF ProviderStep, Effect
<1>2. ASSUME RequestStep
      PROVE  Effect
  <2>1. CASE EngagedCancel
    BY <2>1 DEF EngagedCancel, LogStatus, Cancels, SameStage, Effect
  <2>2. CASE ClientCancel
    BY <2>2 DEF ClientCancel, BeforeExecution, PreExecution, LogStatus, Cancels, SameStage, Effect
  <2>3. CASE Relist
    BY <2>3 DEF Relist, Relists, Effect
  <2>4. CASE PageApprove
    BY <2>4 DEF PageApprove, Approves, Effect
  <2>5. CASE HardDelete
    BY <2>5 DEF HardDelete, BeforeExecution, PreExecution, Vanishes, Effect
  <2>6. CASE DeleteClientAccount
    BY <2>6 DEF DeleteClientAccount, Vanishes, Effect
  <2>7. CASE StaffComplete
    BY <2>7 DEF StaffComplete, LogStatus, Finishes, SameStage, Effect
  <2>8. CASE RejectInputs \/ StaffStart
    BY <2>8 DEF Effect
  <2>. QED
    BY <1>2, <2>1, <2>2, <2>3, <2>4, <2>5, <2>6, <2>7, <2>8 DEF RequestStep
<1>3. ASSUME NEW w \in Workers, WorkerStep(w)
      PROVE  Effect
  <2>1. ASSUME NEW p \in Providers, LegacyAcceptRead(w, p) \/ CreateOfferCheck(w, p)
        PROVE  Untouched
    BY <2>1 DEF LegacyAcceptRead, CreateOfferCheck, Untouched, SameStage
  <2>2. ASSUME NEW answer \in SUBSET Responses, DecisionCheck(w, answer)
        PROVE  Untouched
    BY <2>2 DEF DecisionCheck, Untouched, SameStage
  <2>3. CASE LegacyAcceptUpdate(w)
    <3>1. CASE AcceptGuard(worker[w].who)
      <4>1. worker[w].who \in Providers
        BY <3>1 DEF AcceptGuard, TypeOK
      <4>2. Accepts(worker[w].who)
        BY <2>3, <3>1 DEF LegacyAcceptUpdate, AcceptGuard, Accepts, SameStage
      <4>. QED
        BY <4>1, <4>2 DEF Effect
    <3>2. CASE ~AcceptGuard(worker[w].who)
      BY <2>3, <3>2 DEF LegacyAcceptUpdate, Untouched, SameStage, Effect
    <3>. QED
      BY <3>1, <3>2
  <2>4. CASE LegacyAcceptLog(w)
    BY <2>4 DEF LegacyAcceptLog, LogStatus, Untouched, SameStage, Effect
  <2>5. CASE CreateOfferInsert(w) \/ Redispatch(w) \/ WorkerLost(w)
    BY <2>5 DEF CreateOfferInsert, Redispatch, WorkerLost, Untouched, SameStage, Effect
  <2>6. CASE DecisionApply(w)
    BY <2>6 DEF DecisionApply, Approves, Untouched, SameStage, Effect
  <2>7. CASE Reopen(w)
    <3>1. Reopening'
      BY <2>7 DEF Reopen, Hold, Job, TypeOK, Reopening
    <3>. QED
      BY <2>7, <3>1 DEF Reopen, LogStatus, Reopens, SameStage, Effect
  <2>8. CASE EditCheck(w) \/ EditSave(w)
    BY <2>8 DEF EditCheck, EditSave, LogStatus, Untouched, SameStage, Effect
  <2>. QED
    BY <1>3, <2>1, <2>2, <2>3, <2>4, <2>5, <2>6, <2>7, <2>8 DEF WorkerStep, Effect
<1>. QED
  BY <1>1, <1>2, <1>3 DEF Next, vars, Untouched, SameStage, Effect

-----------------------------------------------------------------------------
(* The stage of a submission.  AwaitingUndecided and SubmissionComplete are  *)
(* inductive only together with ExecutionLogged: an update sent from a       *)
(* request in progress may lack details, and the log is what excuses it.     *)

StageInv == TypeOK /\ ExecutionLogged /\ AwaitingUndecided /\ SubmissionComplete

LEMMA StageInductive ==
  ASSUME StageInv, [Next]_vars
  PROVE  ExecutionLogged' /\ AwaitingUndecided' /\ SubmissionComplete'
<1> USE DEF ExecutionLogged, AwaitingUndecided, SubmissionComplete
<1>1. TypeOK /\ Effect
  BY StepEffect DEF StageInv
<1>2. sr \in Request
  BY <1>1 DEF TypeOK
<1>3. CASE Untouched
  BY <1>3 DEF StageInv, Untouched, SameStage
<1>4. ASSUME NEW p \in Providers, Accepts(p)
      PROVE  ExecutionLogged' /\ AwaitingUndecided' /\ SubmissionComplete'
  BY <1>1, <1>4, AcceptedType DEF Accepts
<1>5. ASSUME NEW p \in Providers, Submits(p)
      PROVE  ExecutionLogged' /\ AwaitingUndecided' /\ SubmissionComplete'
  BY <1>5 DEF StageInv, Submits, SameStage, BeforeExecution, ProgressStage
<1>6. ASSUME NEW p \in Providers, AcceptOffer(p)
      PROVE  ExecutionLogged' /\ AwaitingUndecided' /\ SubmissionComplete'
  BY <1>2, <1>6 DEF AcceptOffer, Request
<1>7. ASSUME NEW p \in Providers, DeleteProviderAccount(p)
      PROVE  ExecutionLogged' /\ AwaitingUndecided' /\ SubmissionComplete'
  BY <1>2, <1>7 DEF StageInv, DeleteProviderAccount, Request
<1>8. CASE Approves
  BY <1>2, <1>8 DEF Approves, ApproveInputs, LogStatus, Request
<1>9. CASE RejectInputs
  BY <1>2, <1>9 DEF StageInv, RejectInputs, ReturnStatus, ProgressStage, LogStatus, Request
<1>10. CASE StaffStart
  BY <1>2, <1>10 DEF StaffStart, LogStatus, Request
<1>11. CASE Finishes
  BY <1>2, <1>11 DEF StageInv, Finishes, SameStage, Request
<1>12. CASE Cancels
  BY <1>1, <1>12, CancelledType DEF Cancels
<1>13. CASE Relists
  BY <1>1, <1>13, RelistType DEF Relists
<1>14. CASE Reopens
  BY <1>2, <1>14 DEF Reopens, Request
<1>15. CASE Vanishes
  BY <1>2, <1>15, ClearedRow DEF Vanishes, RowDeleted
<1>. QED
  BY <1>1, <1>3, <1>4, <1>5, <1>6, <1>7, <1>8, <1>9, <1>10, <1>11, <1>12,
     <1>13, <1>14, <1>15 DEF Effect

\* Execution and completion are in the log, what waits for the client is
\* undecided, and a first submission is complete.
THEOREM StagesCorrect ==
  Spec => []StagesInOrder
<1>1. Init => ExecutionLogged /\ AwaitingUndecided /\ SubmissionComplete
  BY DEF Init, NewRequest, ExecutionLogged, AwaitingUndecided, SubmissionComplete
<1>2. StageInv /\ [Next]_vars => ExecutionLogged' /\ AwaitingUndecided' /\ SubmissionComplete'
  BY StageInductive
<1>. QED
  BY <1>1, <1>2, TypeCorrect, PTL DEF Spec, StageInv, StagesInOrder

-----------------------------------------------------------------------------
(* Who the request belongs to. *)

LEMMA AssignedInductive ==
  ASSUME TypeOK, AssignedWhenEngaged, [Next]_vars
  PROVE  AssignedWhenEngaged'
<1> USE DEF AssignedWhenEngaged
<1>1. Effect /\ sr \in Request /\ profiles \subseteq Providers
  BY StepEffect DEF TypeOK
<1>2. CASE Untouched
  BY <1>2 DEF Untouched
<1>3. ASSUME NEW p \in Providers, Accepts(p) PROVE AssignedWhenEngaged'
  BY <1>3, AcceptedType, NoProviderAssumption DEF Accepts
<1>4. ASSUME NEW p \in Providers, Submits(p) PROVE AssignedWhenEngaged'
  BY <1>4, NoProviderAssumption DEF Submits
<1>5. ASSUME NEW p \in Providers, AcceptOffer(p) PROVE AssignedWhenEngaged'
  BY <1>1, <1>5 DEF AcceptOffer, Request
<1>6. ASSUME NEW p \in Providers, DeleteProviderAccount(p) PROVE AssignedWhenEngaged'
  BY <1>1, <1>6 DEF DeleteProviderAccount
<1>7. CASE Approves \/ StaffStart \/ Finishes
  BY <1>1, <1>7 DEF Approves, ApproveInputs, StaffStart, Finishes, Request
<1>8. CASE RejectInputs
  BY <1>1, <1>8 DEF RejectInputs, ReturnStatus, Request
<1>9. CASE Cancels \/ Relists
  BY <1>9, CancelledType, RelistType DEF Cancels, Relists
<1>10. CASE Reopens
  BY <1>1, <1>10 DEF Reopens, Request
<1>11. CASE Vanishes
  BY <1>1, <1>11, ClearedRow DEF Vanishes, RowDeleted
<1>. QED
  BY <1>1, <1>2, <1>3, <1>4, <1>5, <1>6, <1>7, <1>8, <1>9, <1>10, <1>11 DEF Effect

\* An accepted or submitted request has a provider, unless an account was
\* deleted.
THEOREM AssignmentCorrect == Spec => []AssignedWhenEngaged
<1>1. Init => AssignedWhenEngaged
  BY DEF Init, NewRequest, AssignedWhenEngaged
<1>2. TypeOK /\ AssignedWhenEngaged /\ [Next]_vars => AssignedWhenEngaged'
  BY AssignedInductive
<1>. QED
  BY <1>1, <1>2, TypeCorrect, PTL DEF Spec

\* Offers exist, and are about to be inserted, on competitive requests only:
\* that is why the choice of an offer never touches another type.
OffersCompetitive ==
    /\ \A p \in Providers : offers[p] # "none" => sr.rtype = "competitive"
    /\ \A w \in Workers : worker[w].op = "create_offer" => sr.rtype = "competitive"

LEMMA TypeConstant ==
  ASSUME TypeOK, [Next]_vars
  PROVE  sr'.rtype = sr.rtype
<1>1. Effect /\ sr \in Request
  BY StepEffect DEF TypeOK
<1>2. ASSUME NEW p \in Providers,
             Accepts(p) \/ Submits(p) \/ AcceptOffer(p) \/ DeleteProviderAccount(p)
      PROVE  sr'.rtype = sr.rtype
  BY <1>1, <1>2 DEF Accepts, Accepted, Submits, AcceptOffer, DeleteProviderAccount, Request
<1>3. CASE Cancels \/ Relists \/ Reopens \/ Vanishes
  BY <1>1, <1>3 DEF Cancels, Cancelled, Relists, RelistToPool, Reopens, Vanishes,
                    RowDeleted, Cleared, Request
<1>4. CASE Untouched \/ Approves \/ RejectInputs \/ StaffStart \/ Finishes
  BY <1>1, <1>4 DEF Untouched, Approves, ApproveInputs, RejectInputs, StaffStart,
                    Finishes, Request
<1>. QED
  BY <1>1, <1>2, <1>3, <1>4 DEF Effect

LEMMA OffersInductive ==
  ASSUME TypeOK, OffersCompetitive, [Next]_vars
  PROVE  OffersCompetitive'
<1> USE DEF OffersCompetitive
<1>1. sr'.rtype = sr.rtype
  BY TypeConstant
<1>2. ASSUME NEW p \in Providers, ProviderStep(p) PROVE OffersCompetitive'
  <2>1. worker' = worker
    BY <1>2 DEF ProviderStep, UrgentAccept, AssignedAccept, StaffAccept, ProviderReject,
                ProgressUpdate, SubmitDetails, Complete, ProviderCancel, AcceptOffer,
                DeleteProviderAccount
  <2>2. CASE AcceptOffer(p) \/ DeleteProviderAccount(p)
    BY <1>1, <2>1, <2>2 DEF AcceptOffer, DeleteProviderAccount, TypeOK
  <2>3. CASE ProviderReject(p)
    BY <1>1, <2>1, <2>3 DEF ProviderReject, RelistToPool, NoOffers
  <2>4. CASE ~(AcceptOffer(p) \/ DeleteProviderAccount(p) \/ ProviderReject(p))
    <3>1. offers' = offers
      BY <1>2, <2>4 DEF ProviderStep, UrgentAccept, AssignedAccept, StaffAccept,
                        ProgressUpdate, SubmitDetails, Complete, ProviderCancel
    <3>. QED
      BY <1>1, <2>1, <3>1
  <2>. QED
    BY <2>2, <2>3, <2>4
<1>3. CASE RequestStep
  <2>1. worker' = worker
    BY <1>3 DEF RequestStep, EngagedCancel, ClientCancel, Relist, PageApprove,
                RejectInputs, HardDelete, StaffStart, StaffComplete, DeleteClientAccount
  <2>2. \A p \in Providers : offers'[p] \in {"none", offers[p]}
    BY <1>3 DEF RequestStep, EngagedCancel, ClientCancel, Relist, RelistToPool,
                PageApprove, RejectInputs, HardDelete, StaffStart, StaffComplete,
                DeleteClientAccount, RowDeleted, NoOffers
  <2>. QED
    BY <1>1, <2>1, <2>2
<1>4. ASSUME NEW w \in Workers, WorkerStep(w) PROVE OffersCompetitive'
  <2>1. CASE CreateOfferInsert(w)
    BY <1>1, <2>1 DEF CreateOfferInsert, Release, Idle, Job, TypeOK
  <2>2. CASE Redispatch(w)
    BY <1>1, <2>2 DEF Redispatch, Release, Idle, Job, NoOffers, TypeOK
  <2>3. ASSUME NEW p \in Providers, LegacyAcceptRead(w, p) \/ CreateOfferCheck(w, p)
        PROVE  OffersCompetitive'
    BY <1>1, <2>3 DEF LegacyAcceptRead, CreateOfferCheck, Hold, Job, TypeOK
  <2>4. ASSUME NEW answer \in SUBSET Responses, DecisionCheck(w, answer)
        PROVE  OffersCompetitive'
    BY <1>1, <2>4 DEF DecisionCheck, Hold, Job, TypeOK
  <2>5. CASE \/ LegacyAcceptUpdate(w) \/ LegacyAcceptLog(w) \/ DecisionApply(w)
             \/ EditCheck(w) \/ EditSave(w) \/ Reopen(w) \/ WorkerLost(w)
    BY <1>1, <2>5 DEF LegacyAcceptUpdate, LegacyAcceptLog, DecisionApply, EditCheck,
                      EditSave, Reopen, WorkerLost, Hold, Release, Idle, Job, TypeOK
  <2>. QED
    BY <1>4, <2>1, <2>2, <2>3, <2>4, <2>5 DEF WorkerStep
<1>5. CASE UNCHANGED vars
  BY <1>5 DEF vars
<1>. QED
  BY <1>2, <1>3, <1>4, <1>5 DEF Next

LEMMA ExclusiveStep ==
  ASSUME TypeOK, OffersCompetitive, [Next]_vars
  PROVE  PassesOnlyByOffer
<1> SUFFICES ASSUME sr.provider # NoProvider,
                    sr'.provider \notin {NoProvider, sr.provider}
             PROVE  /\ sr.rtype = "competitive"
                    /\ sr.status = "new" /\ sr'.status = "new"
                    /\ offers'[sr'.provider] = "selected"
  BY DEF PassesOnlyByOffer
<1>1. Effect /\ sr \in Request
  BY StepEffect DEF TypeOK
<1>2. ASSUME NEW p \in Providers, AcceptOffer(p)
      PROVE  /\ sr.rtype = "competitive"
             /\ sr.status = "new" /\ sr'.status = "new"
             /\ offers'[sr'.provider] = "selected"
  <2>1. sr'.provider = p /\ sr'.status = "new" /\ sr.status = "new"
    BY <1>1, <1>2 DEF AcceptOffer, Request
  <2>2. offers'[p] = "selected" /\ sr.rtype = "competitive"
    BY <1>2 DEF AcceptOffer, OffersCompetitive
  <2>. QED
    BY <2>1, <2>2
<1>3. ASSUME NEW p \in Providers, Accepts(p) \/ Submits(p) \/ DeleteProviderAccount(p)
      PROVE  FALSE
  BY <1>1, <1>3, AcceptedType DEF Accepts, Submits, DeleteProviderAccount, Request
<1>4. CASE Cancels \/ Relists
  BY <1>4, CancelledType, RelistType DEF Cancels, Relists
<1>5. CASE Reopens
  BY <1>1, <1>5 DEF Reopens, Request
<1>6. CASE Vanishes
  BY <1>1, <1>6, ClearedRow DEF Vanishes, RowDeleted
<1>7. CASE Untouched \/ Approves \/ RejectInputs \/ StaffStart \/ Finishes
  BY <1>1, <1>7 DEF Untouched, Approves, ApproveInputs, RejectInputs, StaffStart,
                    Finishes, Request
<1>. QED
  BY <1>1, <1>2, <1>3, <1>4, <1>5, <1>6, <1>7 DEF Effect

\* A request passes from one provider to another only by the client's choice
\* of an offer, on a competitive request that is still NEW.
THEOREM AssignmentExclusive == Spec => ExclusiveAssignment
<1>1. Init => OffersCompetitive
  BY DEF Init, NoOffers, Idle, Job, OffersCompetitive
<1>2. TypeOK /\ OffersCompetitive /\ [Next]_vars => OffersCompetitive'
  BY OffersInductive
<1>3. TypeOK /\ OffersCompetitive /\ [Next]_vars => [PassesOnlyByOffer]_vars
  BY ExclusiveStep
<1>. QED
  BY <1>1, <1>2, <1>3, TypeCorrect, PTL DEF Spec, ExclusiveAssignment

-----------------------------------------------------------------------------
(* The contract.  Each effect is one of its actions, or leaves phase and    *)
(* owner as they are.                                                       *)

\* Before execution means open or engaged, and the phases end as the statuses do.
PhaseFacts ==
    /\ sr.status = "new" => Phase = "open"
    /\ sr.status = "provider_accepted" => Phase = "engaged"
    /\ sr.status = "in_progress" => Phase = "executing"
    /\ sr.status = "awaiting_client" =>
         Phase = IF "in_progress" \in logged THEN "executing" ELSE "engaged"
    /\ sr.status = "completed" => Phase = "completed"
    /\ sr.status = "cancelled" => Phase = "cancelled"
    /\ sr.status = "deleted" => Phase = "gone"
    /\ BeforeExecution => Phase \in {"open", "engaged"}

LEMMA PhaseNow == ASSUME TypeOK PROVE PhaseFacts
  BY DEF TypeOK, Request, RequestStatus, PreExecution, Phase, ProgressStage,
         BeforeExecution, PhaseFacts

LEMMA PhaseNext == ASSUME TypeOK' PROVE PhaseFacts'
  BY DEF TypeOK, Request, RequestStatus, PreExecution, Phase, ProgressStage,
         BeforeExecution, PhaseFacts

\* The contract's step, spelled out on the row.
ContractStep == Contract!Next \/ UNCHANGED Contract!vars

LEMMA EffectImplements ==
  ASSUME TypeOK, TypeOK', ExecutionLogged, [Next]_vars
  PROVE  ContractStep
<1> USE DEF ContractStep
<1>1. /\ Effect /\ sr \in Request
      /\ PhaseFacts /\ PhaseFacts'
  BY StepEffect, PhaseNow, PhaseNext DEF TypeOK
<1>2. CASE Untouched
  <2>1. Phase' = Phase
    BY <1>1, <1>2 DEF Untouched, SameStage, Phase, ProgressStage
  <2>. QED
    BY <1>2, <2>1 DEF Untouched, Contract!vars
<1>3. ASSUME NEW p \in Providers, Accepts(p) PROVE ContractStep
  <2>1. Phase = "open" /\ Phase' = "engaged" /\ sr'.provider = p /\ sr.provider \in {NoProvider, p}
    BY <1>1, <1>3, AcceptedType DEF Accepts, PhaseFacts
  <2>. QED
    BY <2>1 DEF Contract!Next, Contract!Take
<1>4. ASSUME NEW p \in Providers, Submits(p) PROVE ContractStep
  <2>1. sr'.provider = sr.provider /\ sr.provider # NoProvider
    BY <1>4, NoProviderAssumption DEF Submits
  <2>2. sr'.status = "awaiting_client" /\ SameStage
    BY <1>4 DEF Submits
  <2>3. CASE sr.status = "new"
    BY <1>1, <2>1, <2>2, <2>3 DEF PhaseFacts, SameStage, Contract!Next, Contract!Submit,
                                  Contract!Start, Contract!Waiting
  <2>4. CASE sr.status = "provider_accepted"
    BY <1>1, <2>1, <2>2, <2>4 DEF PhaseFacts, SameStage, Contract!Next, Contract!Start,
                                  Contract!Waiting, Contract!vars
  <2>5. CASE sr.status \in {"awaiting_client", "in_progress"}
    BY <1>1, <2>1, <2>2, <2>5 DEF ExecutionLogged, PhaseFacts, SameStage, Contract!vars
  <2>. QED
    BY <1>4, <2>3, <2>4, <2>5 DEF Submits, PreExecution
<1>5. ASSUME NEW p \in Providers, AcceptOffer(p) PROVE ContractStep
  <2>1. sr'.status = "new" /\ sr'.provider = p /\ sr.status = "new"
    BY <1>1, <1>5 DEF AcceptOffer, Request
  <2>. QED
    BY <1>1, <2>1 DEF PhaseFacts, Contract!Next, Contract!Choose
<1>6. ASSUME NEW p \in Providers, DeleteProviderAccount(p) PROVE ContractStep
  <2>1. Phase' = Phase
    BY <1>1, <1>6 DEF DeleteProviderAccount, Request, Phase, ProgressStage
  <2>2. sr'.provider = sr.provider \/ (sr'.provider = NoProvider /\ sr.provider # NoProvider)
    BY <1>1, <1>6, NoProviderAssumption DEF DeleteProviderAccount, Request
  <2>. QED
    BY <2>1, <2>2 DEF Contract!Next, Contract!Orphan, Contract!vars
<1>7. CASE Approves \/ StaffStart
  <2>1. sr'.status = "in_progress" /\ sr'.provider = sr.provider
    BY <1>1, <1>7 DEF Approves, ApproveInputs, StaffStart, Request
  <2>2. sr.status \in PreExecution \cup {"in_progress"}
    BY <1>7 DEF Approves, ApproveInputs, StaffStart, PreExecution
  <2>3. Phase \in {"open", "engaged", "executing"} /\ Phase' = "executing"
    BY <1>1, <2>1, <2>2 DEF PhaseFacts, PreExecution
  <2>. QED
    BY <2>1, <2>3 DEF Contract!Next, Contract!Start, Contract!Waiting, Contract!vars
<1>8. CASE RejectInputs
  <2>1. sr'.provider = sr.provider /\ sr'.status = ReturnStatus
    BY <1>1, <1>8 DEF RejectInputs, Request
  <2>2. CASE ProgressStage
    BY <1>1, <2>1, <2>2 DEF ReturnStatus, ProgressStage, PhaseFacts, Contract!vars
  <2>3. CASE ~ProgressStage
    <3>1. Phase = "engaged"
      BY <1>1, <1>8, <2>3 DEF RejectInputs, ProgressStage, PhaseFacts
    <3>2. Phase' \in {"engaged", "open"}
      BY <1>1, <2>1, <2>3 DEF ReturnStatus, PhaseFacts
    <3>. QED
      BY <2>1, <3>1, <3>2 DEF Contract!Next, Contract!SendBack, Contract!vars
  <2>. QED
    BY <2>2, <2>3
<1>9. CASE Finishes
  BY <1>1, <1>9 DEF Finishes, Request, PhaseFacts, Contract!Next, Contract!Finish
<1>10. CASE Cancels
  <2>1. Phase \in {"open", "engaged", "executing"} /\ Phase' = "cancelled"
    BY <1>1, <1>10, CancelledType DEF Cancels, PhaseFacts, PreExecution
  <2>2. sr'.provider = NoProvider \/ (Phase = "executing" /\ sr'.provider = sr.provider)
    <3>1. CASE sr.status \in PreExecution
      BY <1>10, <3>1, <1>1 DEF Cancels, Cancelled, Cleared, Request
    <3>2. CASE sr.status = "in_progress"
      BY <1>1, <1>10, <3>2, CancelledType DEF Cancels, Cancelled, PreExecution, Request, PhaseFacts
    <3>. QED
      BY <1>10, <3>1, <3>2 DEF Cancels
  <2>. QED
    BY <2>1, <2>2 DEF Contract!Next, Contract!Cancel, Contract!Waiting
<1>11. CASE Relists
  <2>1. Phase \in {"open", "engaged"} /\ Phase' = "open" /\ sr'.provider = NoProvider
    BY <1>1, <1>11, RelistType DEF Relists, RelistToPool, PhaseFacts
  <2>. QED
    BY <2>1 DEF Contract!Next, Contract!Withdraw, Contract!Waiting
<1>12. CASE Reopens
  <2>1. sr'.status = "new" /\ sr'.provider = NoProvider /\ sr.status = "cancelled"
    BY <1>1, <1>12 DEF Reopens, Request
  <2>. QED
    BY <1>1, <2>1 DEF PhaseFacts, Contract!Next, Contract!Reopen
<1>13. CASE Vanishes
  <2>1. sr'.status = "deleted" /\ sr'.provider = NoProvider /\ sr.status # "deleted"
    BY <1>1, <1>13, ClearedRow DEF Vanishes, RowDeleted
  <2>2. Phase # "gone"
    BY <1>1, <2>1 DEF PhaseFacts, Request, RequestStatus, PreExecution
  <2>. QED
    BY <1>1, <2>1, <2>2 DEF PhaseFacts, Contract!Next, Contract!Delete
<1>. QED
  BY <1>1, <1>2, <1>3, <1>4, <1>5, <1>6, <1>7, <1>8, <1>9, <1>10, <1>11, <1>12,
     <1>13 DEF Effect

LEMMA ContractStarts == Init => Contract!Init
<1> SUFFICES ASSUME Init PROVE Contract!Init
  OBVIOUS
<1>1. sr.status = "new" /\ sr.provider \in Providers \cup {NoProvider}
  BY ConstantsAssumption DEF Init, NewRequest, InitialProvider, AllTypes
<1>2. Phase = "open"
  BY <1>1, InitType, PhaseNow DEF PhaseFacts
<1>. QED
  BY <1>1, <1>2 DEF Contract!Init

\* The marketplace implements the contract of a request.
THEOREM ContractImplemented == Spec => ImplementsContract
<1>1. TypeOK /\ TypeOK' /\ ExecutionLogged /\ [Next]_vars => ContractStep
  BY EffectImplements
<1>2. ContractStep => [Contract!Next]_(Contract!vars)
  BY DEF ContractStep
<1>. QED
  BY <1>1, <1>2, ContractStarts, TypeCorrect, StagesCorrect, PTL
     DEF Spec, ImplementsContract, Contract!Spec, StagesInOrder

\* Execution that has started never returns to the pool or to acceptance.
THEOREM NoWayBack == Spec => NeverBackToPool
<1>1. ASSUME TypeOK, TypeOK', ExecutionLogged, [Next]_vars
      PROVE  StaysOutOfPool
  <2> SUFFICES ASSUME sr.status \in {"awaiting_client", "in_progress"},
                      "in_progress" \in logged
               PROVE  sr'.status \notin {"new", "provider_accepted"}
    BY DEF StaysOutOfPool
  <2>1. Phase = "executing"
    BY <1>1, PhaseNow DEF PhaseFacts
  <2>2. Phase' \notin {"open", "engaged"}
    BY <1>1, <2>1, EffectImplements
       DEF ContractStep, Contract!Next, Contract!Take, Contract!Choose, Contract!Submit,
           Contract!SendBack, Contract!Withdraw, Contract!Start, Contract!Finish,
           Contract!Cancel, Contract!Reopen, Contract!Delete, Contract!Orphan,
           Contract!Waiting, Contract!vars
  <2>. QED
    BY <1>1, <2>2, PhaseNext DEF PhaseFacts
<1>. QED
  BY <1>1, TypeCorrect, StagesCorrect, PTL DEF Spec, NeverBackToPool, StagesInOrder

-----------------------------------------------------------------------------
(* The offers of a request that was decided.  A reopening leaves them to its *)
(* callback, so the invariants speak of the states in which none is pending; *)
(* they hold of processes that do not die, for a reopening that loses its    *)
(* callback keeps the offers of the earlier round.                           *)

\* The owner of a selected offer has the request, or it was cancelled before
\* its execution.
SelectedOwned ==
    ~Reopening =>
        \A p \in Providers : offers[p] = "selected" =>
            sr.provider = p \/ (sr.provider = NoProvider /\ sr.status = "cancelled")

\* Offers are decided on a request that has a provider, or was cancelled.
DecidedHeld ==
    ~Reopening =>
        \A p \in Providers : offers[p] \in {"selected", "rejected"} =>
            sr.provider # NoProvider \/ sr.status = "cancelled"

\* Only its callback ends a reopening.
LEMMA ReopeningEnds ==
  ASSUME TypeOK, [Next]_vars, ~Crashes, Reopening, ~Reopening'
  PROVE  \E w \in Workers : Redispatch(w)
<1> USE DEF Reopening
<1>1. PICK u \in Workers : worker[u].op = "redispatch"
  OBVIOUS
<1>2. worker'[u].op # "redispatch"
  OBVIOUS
<1>3. ASSUME NEW p \in Providers, ProviderStep(p) PROVE FALSE
  BY <1>1, <1>2, <1>3
     DEF ProviderStep, UrgentAccept, AssignedAccept, StaffAccept, ProviderReject,
         ProgressUpdate, SubmitDetails, Complete, ProviderCancel, AcceptOffer,
         DeleteProviderAccount
<1>4. ASSUME RequestStep PROVE FALSE
  BY <1>1, <1>2, <1>4
     DEF RequestStep, EngagedCancel, ClientCancel, Relist, PageApprove,
         RejectInputs, HardDelete, StaffStart, StaffComplete, DeleteClientAccount
<1>5. ASSUME NEW w \in Workers, WorkerStep(w), ~Redispatch(w) PROVE FALSE
  <2>1. ASSUME w = u, IsIdle(w) PROVE FALSE
    BY <1>1, <2>1 DEF IsIdle
  <2>2. w = u
    BY <1>1, <1>2, <1>5
       DEF WorkerStep, LegacyAcceptRead, CreateOfferCheck, DecisionCheck, LegacyAcceptUpdate,
           LegacyAcceptLog, CreateOfferInsert, DecisionApply, EditCheck, EditSave, Reopen,
           WorkerLost, Hold, Release, TypeOK
  <2>. QED
    BY <1>1, <1>5, <2>1, <2>2
       DEF WorkerStep, LegacyAcceptRead, CreateOfferCheck, DecisionCheck, LegacyAcceptUpdate,
           LegacyAcceptLog, CreateOfferInsert, DecisionApply, EditCheck, EditSave, Reopen,
           WorkerLost
<1>. QED
  BY <1>2, <1>1, <1>3, <1>4, <1>5 DEF Next, vars

\* Only the client decides offers; any other step makes one, keeps it or
\* deletes it.
LEMMA OffersDecided ==
  ASSUME TypeOK, [Next]_vars
  PROVE  \/ \E p \in Providers : AcceptOffer(p)
         \/ \A p \in Providers : offers'[p] \in {"none", "pending", offers[p]}
<1>1. ASSUME NEW p \in Providers, ProviderStep(p), ~AcceptOffer(p)
      PROVE  \A q \in Providers : offers'[q] \in {"none", "pending", offers[q]}
  BY <1>1, RelistType
     DEF ProviderStep, UrgentAccept, AssignedAccept, StaffAccept, ProviderReject,
         ProgressUpdate, SubmitDetails, Complete, ProviderCancel,
         DeleteProviderAccount, TypeOK
<1>2. CASE RequestStep
  BY <1>2, RelistType
     DEF RequestStep, EngagedCancel, ClientCancel, Relist, PageApprove, RejectInputs,
         HardDelete, StaffStart, StaffComplete, DeleteClientAccount, RowDeleted, NoOffers
<1>3. ASSUME NEW w \in Workers, WorkerStep(w)
      PROVE  \A q \in Providers : offers'[q] \in {"none", "pending", offers[q]}
  BY <1>3
     DEF WorkerStep, LegacyAcceptRead, CreateOfferCheck, DecisionCheck, LegacyAcceptUpdate,
         LegacyAcceptLog, CreateOfferInsert, DecisionApply, EditCheck, EditSave, Reopen,
         Redispatch, WorkerLost, NoOffers, TypeOK
<1>. QED
  BY <1>1, <1>2, <1>3 DEF Next, vars

\* The callback of a reopening, a relisting and a deletion leave no offer.
LEMMA OffersGone ==
  ASSUME TypeOK, OffersCompetitive,
         Relists \/ Vanishes \/ \E w \in Workers : Redispatch(w)
  PROVE  \A p \in Providers : offers'[p] = "none"
  BY DEF OffersCompetitive, Relists, RelistToPool, Vanishes, RowDeleted, Redispatch, NoOffers

LEMMA SelectedInductive ==
  ASSUME ~Crashes, TypeOK, OffersCompetitive, SelectedOwned, [Next]_vars
  PROVE  SelectedOwned'
<1> SUFFICES ASSUME ~Reopening', NEW p \in Providers, offers'[p] = "selected"
             PROVE  sr'.provider = p \/ (sr'.provider = NoProvider /\ sr'.status = "cancelled")
  BY DEF SelectedOwned
<1>1. Effect /\ sr \in Request
  BY StepEffect DEF TypeOK
<1>2. ASSUME NEW q \in Providers, AcceptOffer(q)
      PROVE  sr'.provider = p
  BY <1>1, <1>2 DEF AcceptOffer, Request
<1>3. CASE ~\E q \in Providers : AcceptOffer(q)
  <2>1. ~Relists /\ ~Vanishes /\ ~\E w \in Workers : Redispatch(w)
    BY OffersGone
  <2>2. offers[p] = "selected"
    BY <1>3, OffersDecided
  <2>3. sr.provider = p \/ (sr.provider = NoProvider /\ sr.status = "cancelled")
    BY <2>1, <2>2, ReopeningEnds DEF SelectedOwned
  <2>4. p # NoProvider
    BY NoProviderAssumption
  <2>5. ASSUME NEW q \in Providers, Accepts(q) PROVE sr'.provider = p
    BY <2>3, <2>4, <2>5, AcceptedType DEF Accepts
  <2>6. ASSUME NEW q \in Providers, Submits(q) PROVE sr'.provider = p
    BY <2>3, <2>6, NoProviderAssumption DEF Submits
  <2>7. ASSUME NEW q \in Providers, DeleteProviderAccount(q)
        PROVE  sr'.provider = p \/ (sr'.provider = NoProvider /\ sr'.status = "cancelled")
    <3>1. q # p
      BY <2>2, <2>7 DEF DeleteProviderAccount, TypeOK
    <3>. QED
      BY <1>1, <2>3, <2>7, <3>1 DEF DeleteProviderAccount, Request
  <2>8. CASE Cancels
    BY <2>3, <2>8, CancelledType DEF Cancels
  <2>9. CASE Untouched
    BY <2>3, <2>9 DEF Untouched
  <2>10. CASE Approves \/ RejectInputs \/ StaffStart \/ Finishes
    BY <1>1, <2>3, <2>10
       DEF Approves, ApproveInputs, RejectInputs, StaffStart, Finishes, Request, PreExecution
  <2>. QED
    BY <1>1, <1>3, <2>1, <2>5, <2>6, <2>7, <2>8, <2>9, <2>10 DEF Effect, Reopens
<1>. QED
  BY <1>2, <1>3

\* While processes do not die, a request that has a provider has no offer
\* selected but that provider's own, however it was relisted, cancelled,
\* reopened and accepted, and whichever accounts were deleted.
THEOREM SelectionCorrect ==
  ASSUME ~Crashes
  PROVE  Spec => []SelectedOfferOwner
<1>1. Init => OffersCompetitive /\ SelectedOwned
  BY DEF Init, NoOffers, Idle, Job, OffersCompetitive, SelectedOwned
<1>2. TypeOK /\ OffersCompetitive /\ SelectedOwned /\ [Next]_vars
        => OffersCompetitive' /\ SelectedOwned'
  BY OffersInductive, SelectedInductive
<1>3. SelectedOwned => SelectedOfferOwner
  BY DEF SelectedOwned, SelectedOfferOwner, Reopening
<1>. QED
  BY <1>1, <1>2, <1>3, TypeCorrect, PTL DEF Spec

LEMMA AccountsStay ==
  ASSUME ~AccountDeletion, [Next]_vars
  PROVE  profiles' = profiles /\ ~\E p \in Providers : DeleteProviderAccount(p)
<1>1. \A p \in Providers : ~DeleteProviderAccount(p)
  BY DEF DeleteProviderAccount
<1>2. ASSUME NEW p \in Providers, ProviderStep(p) PROVE profiles' = profiles
  BY <1>1, <1>2
     DEF ProviderStep, UrgentAccept, AssignedAccept, StaffAccept, ProviderReject,
         ProgressUpdate, SubmitDetails, Complete, ProviderCancel, AcceptOffer
<1>3. CASE RequestStep
  <2>1. ~DeleteClientAccount
    BY DEF DeleteClientAccount
  <2>. QED
    BY <1>1, <1>3, <2>1
       DEF RequestStep, EngagedCancel, ClientCancel, Relist, PageApprove,
           RejectInputs, HardDelete, StaffStart, StaffComplete
<1>4. ASSUME NEW w \in Workers, WorkerStep(w) PROVE profiles' = profiles
  BY <1>4
     DEF WorkerStep, LegacyAcceptRead, CreateOfferCheck, DecisionCheck, LegacyAcceptUpdate,
         LegacyAcceptLog, CreateOfferInsert, DecisionApply, EditCheck, EditSave, Reopen,
         Redispatch, WorkerLost
<1>. QED
  BY <1>1, <1>2, <1>3, <1>4 DEF Next, vars

LEMMA DecidedInductive ==
  ASSUME ~Crashes, ~AccountDeletion, TypeOK, OffersCompetitive, DecidedHeld, [Next]_vars
  PROVE  DecidedHeld'
<1> SUFFICES ASSUME ~Reopening', NEW p \in Providers, offers'[p] \in {"selected", "rejected"}
             PROVE  sr'.provider # NoProvider \/ sr'.status = "cancelled"
  BY DEF DecidedHeld
<1>1. Effect /\ sr \in Request
  BY StepEffect DEF TypeOK
<1>2. ASSUME NEW q \in Providers, AcceptOffer(q)
      PROVE  sr'.provider # NoProvider
  BY <1>1, <1>2, NoProviderAssumption DEF AcceptOffer, Request
<1>3. CASE ~\E q \in Providers : AcceptOffer(q)
  <2>1. ~Relists /\ ~Vanishes /\ ~\E w \in Workers : Redispatch(w)
    BY OffersGone
  <2>2. offers[p] \in {"selected", "rejected"}
    BY <1>3, OffersDecided
  <2>3. sr.provider # NoProvider \/ sr.status = "cancelled"
    BY <2>1, <2>2, ReopeningEnds DEF DecidedHeld
  <2>4. ASSUME NEW q \in Providers, Accepts(q) PROVE sr'.provider # NoProvider
    BY <2>4, AcceptedType, NoProviderAssumption DEF Accepts
  <2>5. ASSUME NEW q \in Providers, Submits(q) PROVE sr'.provider # NoProvider
    BY <2>5, NoProviderAssumption DEF Submits
  <2>6. CASE Cancels
    BY <2>6, CancelledType DEF Cancels
  <2>7. CASE Untouched
    BY <2>3, <2>7 DEF Untouched
  <2>8. CASE Approves \/ RejectInputs \/ StaffStart \/ Finishes
    BY <1>1, <2>3, <2>8
       DEF Approves, ApproveInputs, RejectInputs, StaffStart, Finishes, Request, PreExecution
  <2>. QED
    BY <1>1, <1>3, <2>1, <2>4, <2>5, <2>6, <2>7, <2>8, AccountsStay DEF Effect, Reopens
<1>. QED
  BY <1>2, <1>3

\* While processes do not die and accounts stay, a competitive request back
\* in the pool carries no decided offer of an earlier round.
THEOREM PoolFresh ==
  ASSUME ~Crashes, ~AccountDeletion
  PROVE  Spec => []PoolOffersFresh
<1>1. Init => OffersCompetitive /\ DecidedHeld
  BY DEF Init, NoOffers, Idle, Job, OffersCompetitive, DecidedHeld
<1>2. TypeOK /\ OffersCompetitive /\ DecidedHeld /\ [Next]_vars
        => OffersCompetitive' /\ DecidedHeld'
  BY OffersInductive, DecidedInductive
<1>3. TypeOK /\ DecidedHeld => PoolOffersFresh
  BY DEF DecidedHeld, PoolOffersFresh, Reopening, TypeOK, OfferStatus
<1>. QED
  BY <1>1, <1>2, <1>3, TypeCorrect, PTL DEF Spec

-----------------------------------------------------------------------------
(* The status log.  Every handler writes it with the row, but one: the       *)
(* legacy acceptance commits its UPDATE first.                                *)

\* An acceptance of the request page waits for its log
Logging == \E w \in Workers : worker[w].op = "legacy_log"

StatusLogged ==
    /\ sr.status \in logged \cup {"new", "provider_accepted", "deleted"}
    /\ sr.status = "provider_accepted" => "provider_accepted" \in logged \/ Logging

\* Whoever waits for the log of an acceptance still has an account.
LoggersKnown ==
    /\ profiles = Providers
    /\ \A w \in Workers : worker[w].op = "legacy_log" => worker[w].who \in Providers

LEMMA LoggersInductive ==
  ASSUME ~AccountDeletion, TypeOK, LoggersKnown, [Next]_vars
  PROVE  LoggersKnown'
<1> USE DEF LoggersKnown
<1>1. profiles' = profiles
  BY AccountsStay
<1>2. CASE worker' = worker
  BY <1>1, <1>2
<1>3. ASSUME NEW w \in Workers, WorkerStep(w) PROVE LoggersKnown'
  <2>1. CASE LegacyAcceptUpdate(w)
    BY <1>1, <2>1 DEF LegacyAcceptUpdate, AcceptGuard, Hold, Release, Idle, Job, TypeOK
  <2>2. ASSUME NEW p \in Providers, LegacyAcceptRead(w, p) \/ CreateOfferCheck(w, p)
        PROVE  LoggersKnown'
    BY <1>1, <2>2 DEF LegacyAcceptRead, CreateOfferCheck, Hold, Job, TypeOK
  <2>3. ASSUME NEW answer \in SUBSET Responses, DecisionCheck(w, answer)
        PROVE  LoggersKnown'
    BY <1>1, <2>3 DEF DecisionCheck, Hold, Job, TypeOK
  <2>4. CASE \/ LegacyAcceptLog(w) \/ DecisionApply(w) \/ CreateOfferInsert(w)
             \/ EditCheck(w) \/ EditSave(w) \/ Reopen(w) \/ Redispatch(w) \/ WorkerLost(w)
    BY <1>1, <2>4 DEF LegacyAcceptLog, DecisionApply, CreateOfferInsert, EditCheck,
                      EditSave, Reopen, Redispatch, WorkerLost, Hold, Release, Idle, Job, TypeOK
  <2>. QED
    BY <1>3, <2>1, <2>2, <2>3, <2>4 DEF WorkerStep
<1>4. ASSUME NEW p \in Providers, ProviderStep(p) PROVE worker' = worker
  BY <1>4
     DEF ProviderStep, UrgentAccept, AssignedAccept, StaffAccept, ProviderReject,
         ProgressUpdate, SubmitDetails, Complete, ProviderCancel, AcceptOffer,
         DeleteProviderAccount
<1>5. ASSUME RequestStep PROVE worker' = worker
  BY <1>5
     DEF RequestStep, EngagedCancel, ClientCancel, Relist, PageApprove,
         RejectInputs, HardDelete, StaffStart, StaffComplete, DeleteClientAccount
<1>. QED
  BY <1>2, <1>3, <1>4, <1>5 DEF Next, vars

\* A row that stays keeps its log.
LEMMA LogGrows ==
  ASSUME TypeOK, [Next]_vars
  PROVE  sr'.status = "deleted" \/ logged \subseteq logged'
<1>1. ASSUME NEW p \in Providers, ProviderStep(p) PROVE logged \subseteq logged'
  BY <1>1, RelistType
     DEF ProviderStep, UrgentAccept, AssignedAccept, StaffAccept, ProviderReject,
         ProgressUpdate, SubmitDetails, Complete, ProviderCancel, AcceptOffer,
         DeleteProviderAccount, LogStatus
<1>2. CASE RequestStep
  <2>1. CASE HardDelete \/ DeleteClientAccount
    BY <2>1, ClearedRow DEF HardDelete, DeleteClientAccount, RowDeleted, TypeOK
  <2>2. CASE ~(HardDelete \/ DeleteClientAccount)
    BY <1>2, <2>2, RelistType
       DEF RequestStep, EngagedCancel, ClientCancel, Relist, PageApprove, ApproveInputs,
           RejectInputs, StaffStart, StaffComplete, LogStatus
  <2>. QED
    BY <2>1, <2>2
<1>3. ASSUME NEW w \in Workers, WorkerStep(w) PROVE logged \subseteq logged'
  BY <1>3
     DEF WorkerStep, LegacyAcceptRead, CreateOfferCheck, DecisionCheck, LegacyAcceptUpdate,
         LegacyAcceptLog, CreateOfferInsert, DecisionApply, ApproveInputs, EditCheck, EditSave,
         Reopen, Redispatch, WorkerLost, LogStatus
<1>. QED
  BY <1>1, <1>2, <1>3 DEF Next, vars

\* A status the row reaches is logged, or its acceptance waits for the log.
LEMMA MovesLogged ==
  ASSUME TypeOK, [Next]_vars
  PROVE  \/ sr'.status \in {"deleted", sr.status}
         \/ sr'.status \in logged'
         \/ sr'.status = "provider_accepted" /\ Logging'
<1> DEFINE Moved == \/ sr'.status \in {"deleted", sr.status}
                    \/ sr'.status \in logged'
                    \/ sr'.status = "provider_accepted" /\ Logging'
<1> USE DEF LogStatus
<1>0. sr \in Request
  BY DEF TypeOK
<1>1. ASSUME NEW p \in Providers, ProviderStep(p) PROVE Moved
  <2>1. CASE UrgentAccept(p) \/ AssignedAccept(p) \/ StaffAccept(p)
    BY <2>1, AcceptedType DEF UrgentAccept, AssignedAccept, StaffAccept
  <2>2. CASE ProviderReject(p)
    BY <2>2, RelistType, CancelledType DEF ProviderReject
  <2>3. ASSUME NEW required \in SUBSET Responses, NEW d \in BOOLEAN,
               ProgressUpdate(p, required, d)
        PROVE  Moved
    BY <1>0, <2>3 DEF ProgressUpdate, Request
  <2>4. CASE SubmitDetails(p) \/ Complete(p) \/ ProviderCancel(p)
    BY <1>0, <2>4 DEF SubmitDetails, Complete, ProviderCancel, Request
  <2>5. CASE AcceptOffer(p) \/ DeleteProviderAccount(p)
    BY <1>0, <2>5 DEF AcceptOffer, DeleteProviderAccount, Request
  <2>. QED
    BY <1>1, <2>1, <2>2, <2>3, <2>4, <2>5 DEF ProviderStep
<1>2. CASE RequestStep
  <2>1. CASE HardDelete \/ DeleteClientAccount
    BY <2>1, ClearedRow DEF HardDelete, DeleteClientAccount, RowDeleted, TypeOK
  <2>2. CASE EngagedCancel \/ ClientCancel
    BY <2>2, CancelledType DEF EngagedCancel, ClientCancel
  <2>3. CASE Relist
    BY <2>3, RelistType DEF Relist
  <2>4. CASE PageApprove \/ RejectInputs \/ StaffStart \/ StaffComplete
    BY <1>0, <2>4 DEF PageApprove, ApproveInputs, RejectInputs, StaffStart, StaffComplete, Request
  <2>. QED
    BY <1>2, <2>1, <2>2, <2>3, <2>4 DEF RequestStep
<1>3. ASSUME NEW w \in Workers, WorkerStep(w) PROVE Moved
  <2>1. CASE LegacyAcceptUpdate(w)
    <3>1. CASE AcceptGuard(worker[w].who)
      <4>1. worker[w].who \in Providers
        BY <3>1 DEF AcceptGuard, TypeOK
      <4>2. sr'.status = "provider_accepted"
        BY <2>1, <3>1, <4>1, AcceptedType DEF LegacyAcceptUpdate
      <4>3. worker'[w].op = "legacy_log"
        BY <2>1, <3>1 DEF LegacyAcceptUpdate, Hold, Job, TypeOK
      <4>. QED
        BY <4>2, <4>3 DEF Logging
    <3>2. CASE ~AcceptGuard(worker[w].who)
      BY <2>1, <3>2 DEF LegacyAcceptUpdate
    <3>. QED
      BY <3>1, <3>2
  <2>2. CASE DecisionApply(w) \/ Reopen(w)
    BY <1>0, <2>2 DEF DecisionApply, ApproveInputs, Reopen, Request
  <2>3. CASE ~(LegacyAcceptUpdate(w) \/ DecisionApply(w) \/ Reopen(w))
    BY <1>3, <2>3
       DEF WorkerStep, LegacyAcceptRead, CreateOfferCheck, DecisionCheck, LegacyAcceptLog,
           CreateOfferInsert, EditCheck, EditSave, Redispatch, WorkerLost
  <2>. QED
    BY <2>1, <2>2, <2>3
<1>. QED
  BY <1>1, <1>2, <1>3 DEF Next, vars

\* Whoever waits to log an acceptance goes on waiting, or logs it.
LEMMA LoggingEnds ==
  ASSUME ~Crashes, TypeOK, LoggersKnown, Logging, [Next]_vars
  PROVE  sr'.status = "deleted" \/ "provider_accepted" \in logged' \/ Logging'
<1> SUFFICES ASSUME ~Logging' PROVE sr'.status = "deleted" \/ "provider_accepted" \in logged'
  OBVIOUS
<1>1. PICK u \in Workers : worker[u].op = "legacy_log"
  BY DEF Logging
<1>2. worker'[u].op # "legacy_log"
  BY DEF Logging
<1>3. ASSUME NEW p \in Providers, ProviderStep(p) PROVE FALSE
  BY <1>1, <1>2, <1>3
     DEF ProviderStep, UrgentAccept, AssignedAccept, StaffAccept, ProviderReject,
         ProgressUpdate, SubmitDetails, Complete, ProviderCancel, AcceptOffer,
         DeleteProviderAccount
<1>4. ASSUME RequestStep PROVE FALSE
  BY <1>1, <1>2, <1>4
     DEF RequestStep, EngagedCancel, ClientCancel, Relist, PageApprove,
         RejectInputs, HardDelete, StaffStart, StaffComplete, DeleteClientAccount
<1>5. ASSUME NEW w \in Workers, WorkerStep(w)
      PROVE  sr'.status = "deleted" \/ "provider_accepted" \in logged'
  <2>1. w = u
    BY <1>1, <1>2, <1>5
       DEF WorkerStep, LegacyAcceptRead, CreateOfferCheck, DecisionCheck, LegacyAcceptUpdate,
           LegacyAcceptLog, CreateOfferInsert, DecisionApply, EditCheck, EditSave, Reopen,
           Redispatch, WorkerLost, Hold, Release, TypeOK
  <2>2. LegacyAcceptLog(w)
    BY <1>1, <1>5, <2>1
       DEF WorkerStep, LegacyAcceptRead, CreateOfferCheck, DecisionCheck, LegacyAcceptUpdate,
           CreateOfferInsert, DecisionApply, EditCheck, EditSave, Reopen, Redispatch,
           WorkerLost, IsIdle
  <2>. QED
    BY <1>1, <2>1, <2>2 DEF LegacyAcceptLog, LoggersKnown, LogStatus
<1>. QED
  BY <1>1, <1>2, <1>3, <1>4, <1>5 DEF Next, vars

\* While processes do not die and accounts stay, every status the row reaches
\* is in its log, unless a legacy acceptance is between its two commits.
THEOREM TrailComplete ==
  ASSUME ~Crashes, ~AccountDeletion
  PROVE  Spec => []AuditTrail
<1>1. Init => LoggersKnown /\ StatusLogged
  BY DEF Init, NewRequest, Idle, Job, LoggersKnown, StatusLogged
<1>2. TypeOK /\ LoggersKnown /\ StatusLogged /\ [Next]_vars => LoggersKnown' /\ StatusLogged'
  <2> SUFFICES ASSUME TypeOK, LoggersKnown, StatusLogged, [Next]_vars
               PROVE  LoggersKnown' /\ StatusLogged'
    OBVIOUS
  <2>1. sr'.status \in logged' \cup {"new", "provider_accepted", "deleted"}
    BY MovesLogged, LogGrows DEF StatusLogged
  <2>2. ASSUME sr'.status = "provider_accepted"
        PROVE  "provider_accepted" \in logged' \/ Logging'
    BY <2>2, MovesLogged, LogGrows, LoggingEnds DEF StatusLogged
  <2>. QED
    BY <2>1, <2>2, LoggersInductive DEF StatusLogged
<1>3. StatusLogged => AuditTrail
  BY DEF StatusLogged, AuditTrail, Logging, RequestStatus, PreExecution
<1>. QED
  BY <1>1, <1>2, <1>3, TypeCorrect, PTL DEF Spec
=============================================================================
