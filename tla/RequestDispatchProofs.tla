------------------------ MODULE RequestDispatchProofs ------------------------
(***************************************************************************)
(* Proofs about RequestDispatch, for any providers, tiers and processes,   *)
(* with or without crashes.                                                *)
(***************************************************************************)
EXTENDS RequestDispatch, TLAPS

JobType == [step : Steps, todo : SUBSET Tiers, whom : SUBSET Providers, kept : SUBSET Providers]

WindowType == [status : DispatchStatus, due : BOOLEAN]

LEMMA JobTyped ==
  ASSUME NEW s \in Steps, NEW todo \in SUBSET Tiers,
         NEW whom \in SUBSET Providers, NEW kept \in SUBSET Providers
  PROVE  /\ JobAt(s, todo, whom, kept) \in JobType
         /\ JobAt(s, todo, whom, kept).step = s
         /\ JobAt(s, todo, whom, kept).todo = todo
         /\ JobAt(s, todo, whom, kept).whom = whom
  BY DEF JobAt, JobType

LEMMA NoJobTyped == NoJob \in JobType /\ NoJob.step = "idle"
  BY JobTyped DEF NoJob, Steps

LEMMA BecomeTyped ==
  ASSUME job \in [Runners -> JobType], NEW r \in Runners, NEW j \in JobType, Become(r, j)
  PROVE  /\ job' \in [Runners -> JobType]
         /\ job'[r] = j
         /\ \A q \in Runners : q # r => job'[q] = job[q]
  BY DEF Become

LEMMA NamedTyped ==
  ASSUME NEW p \in Providers \cup {NoProvider}
  PROVE  Named(p) \in SUBSET Providers
  BY DEF Named

LEMMA InviteTyped ==
  ASSUME told \subseteq Providers, inbox \in [Providers -> 0..2],
         NEW whom \in SUBSET Providers, Invite(whom)
  PROVE  told' \subseteq Providers /\ inbox' \in [Providers -> 0..2]
<1>1. \A p \in Providers : inbox[p] \in 0..2 /\ (inbox[p] < 2 => inbox[p] + 1 \in 0..2)
  OBVIOUS
<1>. QED
  BY <1>1 DEF Invite

LEMMA EmptiedTyped ==
  ASSUME inbox \in [Providers -> 0..2], NEW whom
  PROVE  /\ Emptied(whom) \in [Providers -> 0..2]
         /\ \A p \in Providers : Emptied(whom)[p] \in {0, inbox[p]}
         /\ \A p \in Providers : p \in whom => Emptied(whom)[p] = 0
  BY DEF Emptied

LEMMA WindowTyped ==
  ASSUME NEW s \in DispatchStatus, NEW d \in BOOLEAN
  PROVE  Window(s, d) \in WindowType /\ Window(s, d).status = s /\ Window(s, d).due = d
  BY DEF Window, WindowType

LEMMA NoWindowsTyped ==
  /\ NoWindows \in [Tiers -> WindowType]
  /\ \A t \in Tiers : NoWindows[t].status = "none"
  BY WindowTyped DEF NoWindows, DispatchStatus

-----------------------------------------------------------------------------
(* Types.  A step of the request keeps its own variables typed; the others   *)
(* are taken one by one.                                                     *)

RequestType ==
    /\ phase \in {"open", "engaged", "executing", "completed", "cancelled", "gone"}
    /\ owner \in Providers \cup {NoProvider}
    /\ round \in {"created", "reopened", "other"}

RestType ==
    /\ windows \in [Tiers -> WindowType]
    /\ told \subseteq Providers
    /\ inbox \in [Providers -> 0..2]
    /\ tier \in [Providers -> Tiers]
    /\ job \in [Runners -> JobType]
    /\ lost \subseteq Runners
    /\ unlogged \subseteq Providers

LEMMA TypeParts ==
  /\ DispatchTypeOK <=> RequestType /\ RestType
  /\ DispatchTypeOK' <=> RequestType' /\ RestType'
  BY DEF DispatchTypeOK, RequestType, RestType, JobType, WindowType

\* The steps that move the request
Moving ==
    \/ \E p \in Providers : AcceptAndClear(p) \/ \E r \in Web : AcceptThenClear(r, p)
    \/ \E r \in Web : RelistAndRedispatch(r) \/ ReopenAndRedispatch(r) \/ CancelAndWithdraw(r)
    \/ RemoveRequest \/ OtherStep

LEMMA RequestTyped ==
  ASSUME RequestType, Moving \/ UNCHANGED request
  PROVE  RequestType'
<1> USE DEF RequestType
<1>1. ASSUME Round PROVE round' \in {"created", "reopened", "other"}
  BY <1>1 DEF Round
<1>2. ASSUME NEW p \in Providers, AcceptAndClear(p) \/ \E r \in Web : AcceptThenClear(r, p)
      PROVE  RequestType'
  BY <1>1, <1>2 DEF AcceptAndClear, AcceptThenClear, Request!Take
<1>3. ASSUME NEW r \in Web, RelistAndRedispatch(r)
      PROVE  RequestType'
  BY <1>1, <1>3 DEF RelistAndRedispatch, Request!Withdraw
<1>4. ASSUME NEW r \in Web, ReopenAndRedispatch(r)
      PROVE  RequestType'
  BY <1>4 DEF ReopenAndRedispatch, Request!Reopen
<1>5. ASSUME NEW r \in Web, CancelAndWithdraw(r)
      PROVE  RequestType'
  BY <1>1, <1>5 DEF CancelAndWithdraw, Request!Cancel
<1>6. CASE RemoveRequest
  BY <1>1, <1>6 DEF RemoveRequest, Request!Delete
<1>7. CASE OtherStep
  BY <1>1, <1>7
     DEF OtherStep, Request!Take, Request!Submit, Request!SendBack, Request!Start,
         Request!Finish, Request!Cancel
<1>8. CASE UNCHANGED request
  BY <1>8 DEF request
<1>. QED
  BY <1>2, <1>3, <1>4, <1>5, <1>6, <1>7, <1>8 DEF Moving

LEMMA MovingTyped ==
  ASSUME RequestType, RestType, Moving
  PROVE  RestType'
<1> USE DEF RestType
<1>1. ASSUME NEW p \in Providers, AcceptAndClear(p)
      PROVE  RestType'
  BY <1>1, EmptiedTyped DEF AcceptAndClear
<1>2. ASSUME NEW r \in Web, NEW j \in JobType, Become(r, j),
             UNCHANGED <<windows, told, inbox, tier, lost, unlogged>>
      PROVE  RestType'
  BY <1>2, BecomeTyped DEF Runners
<1>3. ASSUME NEW p \in Providers, NEW r \in Web, AcceptThenClear(r, p)
      PROVE  RestType'
  <2>1. JobAt("accepted", {}, {p}, {}) \in JobType
    BY JobTyped DEF Steps
  <2>. QED
    BY <1>2, <1>3, <2>1 DEF AcceptThenClear
<1>4. ASSUME NEW r \in Web, RelistAndRedispatch(r)
      PROVE  RestType'
  <2>1. JobAt("clear", {}, {}, {owner}) \in JobType
    BY <1>4, JobTyped DEF Steps, RequestType, RelistAndRedispatch
  <2>. QED
    BY <1>2, <1>4, <2>1 DEF RelistAndRedispatch
<1>5. ASSUME NEW r \in Web, ReopenAndRedispatch(r)
      PROVE  RestType'
  <2>1. JobAt("clear", {}, {}, {}) \in JobType
    BY JobTyped DEF Steps
  <2>. QED
    BY <1>2, <1>5, <2>1 DEF ReopenAndRedispatch
<1>6. ASSUME NEW r \in Web, CancelAndWithdraw(r)
      PROVE  RestType'
  <2>1. JobAt("withdraw", {}, Named(owner), {}) \in JobType
    BY JobTyped, NamedTyped DEF Steps, RequestType
  <2>. QED
    BY <1>2, <1>6, <2>1 DEF CancelAndWithdraw
<1>7. CASE RemoveRequest
  BY <1>7, NoWindowsTyped DEF RemoveRequest
<1>8. CASE OtherStep
  BY <1>8 DEF OtherStep
<1>. QED
  BY <1>1, <1>3, <1>4, <1>5, <1>6, <1>7, <1>8 DEF Moving

LEMMA ArmTyped ==
  ASSUME RequestType, RestType, NEW r \in Runners, NEW t \in Tiers, Arm(r, t)
  PROVE  /\ windows' \in [Tiers -> WindowType]
         /\ \A s \in Tiers : windows'[s].status \in {windows[s].status, "pending"}
         /\ \A s \in Tiers : s # t \/ windows[s].status = "dispatched" => windows'[s].status = windows[s].status
         /\ job' \in [Runners -> JobType]
         /\ \A q \in Runners : q # r => job'[q] = job[q]
         /\ job'[r].step \in {"arm", "mark", "idle"}
         /\ job'[r].step = "arm" => job'[r].todo = job[r].todo \ {t}
<1> USE DEF RestType
<1>1. windows[t] \in WindowType
  OBVIOUS
<1>2. /\ windows' \in [Tiers -> WindowType]
      /\ \A s \in Tiers : windows'[s].status \in {windows[s].status, "pending"}
      /\ \A s \in Tiers : s # t \/ windows[s].status = "dispatched" => windows'[s].status = windows[s].status
  <2>1. CASE phase = "gone"
    BY <2>1 DEF Arm
  <2>2. CASE phase # "gone" /\ windows[t].status = "none"
    <3>1. windows' = [windows EXCEPT ![t] = Window("pending", FALSE)]
      BY <2>2 DEF Arm
    <3>2. Window("pending", FALSE) \in WindowType /\ Window("pending", FALSE).status = "pending"
      BY WindowTyped DEF DispatchStatus
    <3>. QED
      BY <2>2, <3>1, <3>2
  <2>3. CASE phase # "gone" /\ windows[t].status # "none"
    <3> DEFINE d == windows[t].due /\ windows[t].status = "dispatched"
               w == [windows[t] EXCEPT !.due = d]
    <3>1. windows' = [windows EXCEPT ![t] = w]
      BY <2>3 DEF Arm
    <3>2. w \in WindowType /\ w.status = windows[t].status
      <4>1. d \in BOOLEAN
        OBVIOUS
      <4> HIDE DEF d
      <4>. QED
        BY <1>1, <4>1 DEF WindowType
    <3> HIDE DEF w
    <3>. QED
      BY <3>1, <3>2
  <2>. QED
    BY <2>1, <2>2, <2>3
<1>3. PICK j \in JobType :
        /\ Become(r, j)
        /\ j.step \in {"arm", "mark", "idle"}
        /\ j.step = "arm" => j.todo = job[r].todo \ {t}
  <2>1. job[r] \in JobType /\ job[r].step = "arm"
    BY DEF Arm
  <2>2. CASE Become(r, [job[r] EXCEPT !.todo = @ \ {t}])
    <3>1. /\ [job[r] EXCEPT !.todo = @ \ {t}] \in JobType
          /\ [job[r] EXCEPT !.todo = @ \ {t}].step = "arm"
          /\ [job[r] EXCEPT !.todo = @ \ {t}].todo = job[r].todo \ {t}
      BY <2>1 DEF JobType
    <3>. QED
      BY <2>2, <3>1
  <2>3. CASE Become(r, JobAt("mark", {}, {}, {}))
    <3>1. JobAt("mark", {}, {}, {}) \in JobType /\ JobAt("mark", {}, {}, {}).step = "mark"
      BY JobTyped DEF Steps
    <3>. QED
      BY <2>3, <3>1
  <2>4. CASE Become(r, NoJob)
    BY <2>4, NoJobTyped
  <2>. QED
    BY <2>2, <2>3, <2>4 DEF Arm
<1>. QED
  BY <1>2, <1>3, BecomeTyped

\* Only statuses and inboxes of one tier move when its window is dispatched.
LEMMA WindowDispatched ==
  ASSUME RestType, NEW t \in Tiers, DispatchWindow(t)
  PROVE  /\ windows' \in [Tiers -> WindowType]
         /\ told' \subseteq Providers /\ inbox' \in [Providers -> 0..2]
         /\ \A s \in Tiers : s # t => windows'[s] = windows[s]
         /\ \/ UNCHANGED <<windows, told, inbox>>
            \/ /\ ~Dispatchable /\ windows[t].status \in {"pending", "ready", "failed"}
               /\ windows'[t].status = "failed" /\ UNCHANGED <<told, inbox>>
            \/ /\ Dispatchable /\ windows[t].status \in {"pending", "ready", "failed"}
               /\ windows[t].status = "pending" => windows[t].due
               /\ windows'[t].status = "dispatched"
               /\ Invite(Invited(t))
<1> USE DEF RestType
<1>1. windows[t] \in WindowType
  OBVIOUS
<1>2. ASSUME NEW s \in DispatchStatus, windows' = [windows EXCEPT ![t].status = s]
      PROVE  /\ windows' \in [Tiers -> WindowType]
             /\ windows'[t].status = s
             /\ \A u \in Tiers : u # t => windows'[u] = windows[u]
  <2> DEFINE w == [windows[t] EXCEPT !.status = s]
  <2>1. w \in WindowType /\ w.status = s
    BY <1>1 DEF WindowType
  <2>2. windows' = [windows EXCEPT ![t] = w]
    BY <1>2
  <2> HIDE DEF w
  <2>. QED
    BY <2>1, <2>2
<1>3. CASE UNCHANGED <<windows, told, inbox>>
  BY <1>3
<1>4. windows[t].status \in DispatchStatus
  BY <1>1 DEF WindowType
<1>5. ASSUME ~(windows[t].status \in {"none", "dispatched"}),
             ~(windows[t].status = "pending" /\ ~windows[t].due)
      PROVE  /\ windows[t].status \in {"pending", "ready", "failed"}
             /\ windows[t].status = "pending" => windows[t].due
             /\ \/ ~Dispatchable /\ windows' = WindowFailed(t) /\ UNCHANGED <<told, inbox>>
                \/ /\ Dispatchable /\ Invite(Invited(t))
                   /\ windows' = [windows EXCEPT ![t].status = "dispatched"]
  BY <1>4, <1>5 DEF DispatchWindow, DispatchStatus
<1>6. Invited(t) \in SUBSET Providers
  BY DispatchAssumption DEF Invited
<1>7. ASSUME ~UNCHANGED <<windows, told, inbox>>
      PROVE  /\ ~(windows[t].status \in {"none", "dispatched"})
             /\ ~(windows[t].status = "pending" /\ ~windows[t].due)
  BY <1>7 DEF DispatchWindow
<1>8. CASE ~UNCHANGED <<windows, told, inbox>>
  <2>1. CASE ~Dispatchable /\ windows' = WindowFailed(t) /\ UNCHANGED <<told, inbox>>
    <3>1. windows' = [windows EXCEPT ![t].status = "failed"] /\ "failed" \in DispatchStatus
      BY <2>1 DEF WindowFailed, DispatchStatus
    <3>. QED
      BY <1>2, <1>5, <1>7, <1>8, <2>1, <3>1
  <2>2. CASE Dispatchable /\ Invite(Invited(t)) /\ windows' = [windows EXCEPT ![t].status = "dispatched"]
    <3>1. "dispatched" \in DispatchStatus
      BY DEF DispatchStatus
    <3>2. told' \subseteq Providers /\ inbox' \in [Providers -> 0..2]
      BY <1>6, <2>2, InviteTyped
    <3>. QED
      BY <1>2, <1>5, <1>7, <1>8, <2>2, <3>1, <3>2
  <2>. QED
    BY <1>5, <1>7, <1>8, <2>1, <2>2
<1>. QED
  BY <1>3, <1>8

LEMMA JobStepTyped ==
  ASSUME RequestType, RestType, NEW r \in Runners, JobStep(r)
  PROVE  RestType' /\ UNCHANGED request
<1> USE DEF RestType
<1>1. ASSUME NEW j \in JobType, Become(r, j)
      PROVE  job' \in [Runners -> JobType]
  BY <1>1, BecomeTyped
<1>2. JobAt("arm", Tiers, {}, {}) \in JobType /\ JobAt("list", {}, {}, {}) \in JobType
      /\ \A whom \in SUBSET Providers : JobAt("forget", {}, whom, {}) \in JobType
      /\ \A todo \in SUBSET Tiers : JobAt("dispatch", todo, {}, {}) \in JobType
  BY JobTyped DEF Steps
<1>3. job[r] \in JobType /\ job[r].whom \subseteq Providers
  BY DEF JobType
<1>4. CASE Direct(r)
  <2>2. unlogged' \subseteq Providers
    BY <1>3, <1>4 DEF Direct
  <2>1. told' \subseteq Providers /\ inbox' \in [Providers -> 0..2]
    BY <1>3, <1>4, InviteTyped DEF Direct
  <2>. QED
    BY <1>1, <1>2, <1>4, <2>1, <2>2 DEF Direct, request
<1>5. CASE Accepted(r) \/ Withdraw(r)
  BY <1>1, <1>5, NoJobTyped, EmptiedTyped DEF Accepted, Withdraw, request
<1>6. CASE Clear(r)
  BY <1>1, <1>2, <1>6, EmptiedTyped DEF Clear, request
<1>7. CASE Forget(r)
  BY <1>1, <1>2, <1>7 DEF Forget, request
<1>8. ASSUME NEW t \in Tiers, Arm(r, t)
      PROVE  RestType' /\ UNCHANGED request
  BY <1>8, ArmTyped DEF Arm
<1>9. CASE Mark(r)
  <2>1. windows' \in [Tiers -> WindowType]
    <3>1. \A t \in Tiers : windows[t] \in WindowType
      OBVIOUS
    <3>2. \A w \in WindowType : [w EXCEPT !.status = "ready"] \in WindowType
      BY DEF WindowType, DispatchStatus
    <3>. QED
      BY <1>9, <3>1, <3>2 DEF Mark
  <2>. QED
    BY <1>1, <1>2, <1>9, <2>1 DEF Mark, request
<1>10. CASE ListReady(r)
  <2>1. Listed \in SUBSET Tiers
    BY DEF Listed
  <2>. QED
    BY <1>1, <1>2, <1>10, <2>1, NoJobTyped DEF ListReady, request
<1>11. ASSUME NEW t \in Tiers, Dispatch(r, t)
       PROVE  RestType' /\ UNCHANGED request
  <2>1. windows' \in [Tiers -> WindowType] /\ told' \subseteq Providers /\ inbox' \in [Providers -> 0..2]
    BY <1>11, WindowDispatched DEF Dispatch
  <2>2. [job[r] EXCEPT !.todo = @ \ {t}] \in JobType
    BY <1>3 DEF JobType
  <2>3. job' \in [Runners -> JobType]
    BY <1>1, <1>11, <2>2, NoJobTyped DEF Dispatch
  <2>. QED
    BY <1>11, <2>1, <2>3 DEF Dispatch, request
<1>. QED
  BY <1>4, <1>5, <1>6, <1>7, <1>8, <1>9, <1>10, <1>11 DEF JobStep

LEMMA DispatchTypeKept ==
  ASSUME DispatchTypeOK, [DispatchNext]_dispatchVars
  PROVE  DispatchTypeOK'
<1>1. RequestType /\ RestType
  BY TypeParts
<1>2. CASE Moving
  BY <1>1, <1>2, RequestTyped, MovingTyped, TypeParts
<1>3. ASSUME NEW r \in Runners, JobStep(r)
      PROVE  DispatchTypeOK'
  BY <1>1, <1>3, JobStepTyped, RequestTyped, TypeParts
<1>4. ASSUME NEW r \in Runners, Tick(r)
      PROVE  DispatchTypeOK'
  <2>1. JobAt("mark", {}, {}, {}) \in JobType
    BY JobTyped DEF Steps
  <2>2. job' \in [Runners -> JobType]
    BY <1>1, <1>4, <2>1, BecomeTyped DEF Tick, RestType
  <2>. QED
    BY <1>1, <1>4, <2>2, RequestTyped, TypeParts DEF Tick, RestType
<1>5. ASSUME NEW r \in Runners, RunnerLost(r)
      PROVE  DispatchTypeOK'
  <2>1. job' \in [Runners -> JobType]
    BY <1>1, <1>5, NoJobTyped, BecomeTyped DEF RunnerLost, RestType
  <2>. QED
    BY <1>1, <1>5, <2>1, RequestTyped, TypeParts DEF RunnerLost, RestType
<1>6. ASSUME NEW t \in Tiers, Due(t)
      PROVE  DispatchTypeOK'
  <2>1. windows' \in [Tiers -> WindowType]
    <3>1. [windows[t] EXCEPT !.due = TRUE] \in WindowType
      BY <1>1 DEF RestType, WindowType
    <3>. QED
      BY <1>1, <1>6, <3>1 DEF Due, RestType
  <2>. QED
    BY <1>1, <1>6, <2>1, RequestTyped, TypeParts DEF Due, RestType
<1>7. ASSUME NEW p \in Providers, NEW t \in Tiers, ChangeTier(p, t)
      PROVE  DispatchTypeOK'
  BY <1>1, <1>7, RequestTyped, TypeParts DEF ChangeTier, RestType
<1>8. CASE UNCHANGED dispatchVars
  BY <1>1, <1>8, TypeParts DEF dispatchVars, RequestType, RestType
<1>. QED
  BY <1>2, <1>3, <1>4, <1>5, <1>6, <1>7, <1>8 DEF DispatchNext, Moving

LEMMA DispatchInitType == DispatchInit => DispatchTypeOK
<1> SUFFICES ASSUME DispatchInit PROVE DispatchTypeOK
  OBVIOUS
<1>1. RequestType
  BY DEF DispatchInit, Request!Init, RequestType
<1>2. JobAt("direct", {}, Named(owner), {}) \in JobType
  BY <1>1, JobTyped, NamedTyped DEF Steps, RequestType
<1>3. job \in [Runners -> JobType]
  BY <1>2, NoJobTyped DEF DispatchInit
<1>4. windows \in [Tiers -> WindowType] /\ told \subseteq Providers /\ inbox \in [Providers -> 0..2]
      /\ tier \in [Providers -> Tiers] /\ lost \subseteq Runners /\ unlogged \subseteq Providers
  BY NoWindowsTyped DEF DispatchInit
<1>. QED
  BY <1>1, <1>3, <1>4, TypeParts DEF RestType

\* The windows, inboxes, jobs and rounds keep their types.
THEOREM DispatchTypeCorrect == DispatchSpec => []DispatchTypeOK
  BY DispatchInitType, DispatchTypeKept, PTL DEF DispatchSpec

-----------------------------------------------------------------------------
(* The round of the creation: it has one process that arms the windows, no   *)
(* callback clears anything yet, and what it dispatches is due.              *)

\* A runner in the part of the creation that comes before the dispatch
Creating(r) == job[r].step \in {"direct", "arm"}

RoundInv ==
    round = "created" =>
        /\ phase = "open"
        /\ \A r \in Runners : job[r].step \notin {"accepted", "withdraw", "clear", "forget"}
        /\ \A r \in Runners : job[r].step = "direct" =>
             \A t \in Tiers : windows[t].status = "none"
        /\ \A r \in Runners : job[r].step = "arm" =>
             \A t \in job[r].todo : windows[t].status = "none"
        /\ \A r, q \in Runners : Creating(r) /\ Creating(q) => r = q
        /\ \A t \in Tiers : windows[t].status # "failed"
        /\ \A t \in Tiers : windows[t].status = "ready" => windows[t].due
        /\ \A t \in Tiers : windows[t].status = "dispatched" =>
             \A p \in Eligible : tier[p] = t => p \in told

\* A step that moves the request ends the round.
LEMMA RoundEnds ==
  ASSUME RequestType, RoundInv, Moving
  PROVE  round' # "created"
<1> USE DEF RoundInv
<1>1. ASSUME Round, ~(phase = "open" /\ phase' = "open" /\ owner' = owner)
      PROVE  round' # "created"
  BY <1>1 DEF Round
<1>2. ASSUME NEW p \in Providers, AcceptAndClear(p) \/ \E r \in Web : AcceptThenClear(r, p)
      PROVE  round' # "created"
  BY <1>1, <1>2 DEF AcceptAndClear, AcceptThenClear, Request!Take
<1>3. ASSUME NEW r \in Web, RelistAndRedispatch(r)
      PROVE  round' # "created"
  BY <1>1, <1>3 DEF RelistAndRedispatch, Request!Withdraw
<1>4. ASSUME NEW r \in Web, ReopenAndRedispatch(r)
      PROVE  round' # "created"
  BY <1>4 DEF ReopenAndRedispatch
<1>5. ASSUME NEW r \in Web, CancelAndWithdraw(r)
      PROVE  round' # "created"
  BY <1>1, <1>5 DEF CancelAndWithdraw, Request!Cancel
<1>6. CASE RemoveRequest
  BY <1>1, <1>6 DEF RemoveRequest, Request!Delete
<1>7. CASE OtherStep
  BY <1>1, <1>7
     DEF OtherStep, Request!Take, Request!Submit, Request!SendBack, Request!Start,
         Request!Finish, Request!Cancel
<1>. QED
  BY <1>2, <1>3, <1>4, <1>5, <1>6, <1>7 DEF Moving

\* A runner takes up a step that is no part of the creation; the rest stays.
LEMMA RoundGoesOn ==
  ASSUME RestType, RoundInv, UNCHANGED <<request, tier>>,
         told \subseteq told',
         \A t \in Tiers : /\ windows'[t].status \notin {"ready", "failed", "dispatched"}
                               \/ windows'[t] = windows[t]
                          /\ windows[t].status = "none" => windows'[t].status = "none",
         NEW r \in Runners, NEW j \in JobType, Become(r, j),
         j.step \in {"idle", "mark", "list", "dispatch"}
  PROVE  RoundInv'
<1>1. /\ job'[r] = j
      /\ \A q \in Runners : q # r => job'[q] = job[q]
  BY BecomeTyped DEF RestType
<1>2. CASE round = "created"
  <2>1. \A q \in Runners : job'[q].step \notin {"accepted", "withdraw", "clear", "forget"}
    BY <1>1, <1>2 DEF RoundInv
  <2>2. \A q \in Runners : Creating(q)' => q # r /\ Creating(q) /\ job'[q] = job[q]
    BY <1>1 DEF Creating
  <2>3. \A q \in Runners : job'[q].step = "direct" => \A t \in Tiers : windows'[t].status = "none"
    BY <1>2, <2>2 DEF RoundInv, Creating
  <2>4. \A q \in Runners : job'[q].step = "arm" => \A t \in job'[q].todo : windows'[t].status = "none"
    <3>1. \A q \in Runners : job[q].todo \subseteq Tiers
      BY DEF RestType, JobType
    <3>. QED
      BY <1>2, <2>2, <3>1 DEF RoundInv, Creating
  <2>5. \A q, s \in Runners : Creating(q)' /\ Creating(s)' => q = s
    BY <1>2, <2>2 DEF RoundInv
  <2>6. \A t \in Tiers : /\ windows'[t].status # "failed"
                         /\ windows'[t].status = "ready" => windows'[t].due
                         /\ windows'[t].status = "dispatched" =>
                              \A p \in Eligible : tier'[p] = t => p \in told'
    BY <1>2 DEF RoundInv
  <2>. QED
    BY <1>2, <2>1, <2>3, <2>4, <2>5, <2>6 DEF RoundInv, request
<1>3. CASE round # "created"
  BY <1>3 DEF RoundInv, request
<1>. QED
  BY <1>2, <1>3

LEMMA RoundInductive ==
  ASSUME ~TierChanges, DispatchTypeOK, RoundInv, [DispatchNext]_dispatchVars
  PROVE  RoundInv'
<1>1. RequestType /\ RestType
  BY TypeParts
<1>2. CASE Moving
  BY <1>1, <1>2, RoundEnds DEF RoundInv
<1>3. CASE round # "created" /\ UNCHANGED request
  BY <1>3 DEF RoundInv, request
<1>4. ASSUME round = "created", NEW r \in Runners, JobStep(r) PROVE RoundInv'
  <2>1. job[r] \in JobType /\ \A q \in Runners : job[q].todo \subseteq Tiers
    BY <1>1 DEF RestType, JobType
  <2>2. job[r].step \notin {"accepted", "withdraw", "clear", "forget"}
    BY <1>4 DEF RoundInv
  <2>3. CASE Direct(r)
    <3>1. JobAt("arm", Tiers, {}, {}) \in JobType /\ JobAt("arm", Tiers, {}, {}).step = "arm"
          /\ JobAt("arm", Tiers, {}, {}).todo = Tiers
      BY JobTyped DEF Steps
    <3>2. job'[r].step = "arm" /\ job'[r].todo = Tiers /\ \A q \in Runners : q # r => job'[q] = job[q]
      BY <1>1, <2>3, <3>1, BecomeTyped DEF Direct, RestType
    <3>3. UNCHANGED <<request, windows, tier>> /\ told \subseteq told' /\ job[r].step = "direct"
      BY <2>3 DEF Direct, Invite
    <3>4. \A t \in Tiers : windows[t].status = "none"
      BY <1>4, <3>3 DEF RoundInv
    <3>5. \A q \in Runners : Creating(q)' => Creating(q)
      BY <3>2, <3>3 DEF Creating
    <3>6. \A q \in Runners : q # r => ~Creating(q)'
      BY <1>4, <3>3, <3>5 DEF RoundInv, Creating
    <3>7. \A q \in Runners : job'[q].step \notin {"accepted", "withdraw", "clear", "forget", "direct"}
      BY <1>4, <3>2, <3>6 DEF RoundInv, Creating
    <3>8. \A q \in Runners : job'[q].step = "arm" => q = r
      BY <3>6 DEF Creating
    <3>. QED
      BY <1>4, <3>2, <3>3, <3>4, <3>6, <3>7, <3>8 DEF RoundInv, request
  <2>4. ASSUME NEW t \in Tiers, Arm(r, t) PROVE RoundInv'
    <3>1. job[r].step = "arm" /\ t \in job[r].todo /\ UNCHANGED <<request, told, tier>> /\ phase = "open"
      BY <1>4, <2>4 DEF Arm, RoundInv
    <3>2. windows[t].status = "none"
      BY <1>4, <3>1 DEF RoundInv
    <3>3. windows' = [windows EXCEPT ![t] = Window("pending", FALSE)]
      BY <2>4, <3>1, <3>2 DEF Arm
    <3>4. \A s \in Tiers : s # t => windows'[s] = windows[s]
      BY <1>1, <3>3 DEF RestType
    <3>5. windows'[t].status = "pending"
      BY <1>1, <3>3, WindowTyped DEF RestType, DispatchStatus
    <3>6. /\ \A q \in Runners : q # r => job'[q] = job[q]
          /\ job'[r].step \in {"arm", "mark", "idle"}
          /\ job'[r].step = "arm" => job'[r].todo = job[r].todo \ {t}
      BY <1>1, <2>4, ArmTyped
    <3>7. \A q \in Runners : q # r => ~Creating(q)
      BY <1>4, <3>1 DEF RoundInv, Creating
    <3>8. \A q \in Runners : Creating(q)' => q = r
      BY <3>6, <3>7 DEF Creating
    <3>9. \A q \in Runners : job'[q].step \notin {"accepted", "withdraw", "clear", "forget", "direct"}
      BY <1>4, <3>6, <3>7 DEF RoundInv, Creating
    <3>10. \A q \in Runners : job'[q].step = "arm" =>
             \A s \in job'[q].todo : windows'[s].status = "none"
      BY <1>4, <2>1, <3>1, <3>4, <3>6, <3>8 DEF RoundInv, Creating
    <3>11. \A s \in Tiers : /\ windows'[s].status # "failed"
                            /\ windows'[s].status = "ready" => windows'[s].due
                            /\ windows'[s].status = "dispatched" =>
                                 \A p \in Eligible : tier'[p] = s => p \in told'
      BY <1>4, <3>1, <3>4, <3>5 DEF RoundInv
    <3>. QED
      BY <1>4, <3>1, <3>8, <3>9, <3>10, <3>11 DEF RoundInv, request
  <2>5. CASE Mark(r)
    <3>1. \A t \in Tiers : windows'[t] = IF windows[t].status = "pending" /\ windows[t].due
                                         THEN [windows[t] EXCEPT !.status = "ready"] ELSE windows[t]
      BY <2>5 DEF Mark
    <3>2. \A t \in Tiers : windows[t] \in WindowType
      BY <1>1 DEF RestType
    <3>3. \A t \in Tiers :
            \/ windows'[t] = windows[t]
            \/ windows[t].status = "pending" /\ windows'[t].status = "ready" /\ windows'[t].due
      BY <3>1, <3>2 DEF WindowType
    <3>4. JobAt("list", {}, {}, {}) \in JobType /\ JobAt("list", {}, {}, {}).step = "list"
      BY JobTyped DEF Steps
    <3>5. job'[r].step = "list" /\ \A q \in Runners : q # r => job'[q] = job[q]
      BY <1>1, <2>5, <3>4, BecomeTyped DEF Mark, RestType
    <3>6. UNCHANGED <<request, told, tier>>
      BY <2>5 DEF Mark
    <3>7. \A q \in Runners : Creating(q)' => Creating(q) /\ job'[q] = job[q]
      BY <3>5 DEF Creating
    <3>8. \A q \in Runners : job'[q].step \notin {"accepted", "withdraw", "clear", "forget"}
      BY <1>4, <3>5 DEF RoundInv
    <3>9. /\ \A q \in Runners : job'[q].step = "direct" => \A t \in Tiers : windows'[t].status = "none"
          /\ \A q \in Runners : job'[q].step = "arm" => \A t \in job'[q].todo : windows'[t].status = "none"
      BY <1>4, <2>1, <3>3, <3>7 DEF RoundInv, Creating
    <3>10. \A q, s \in Runners : Creating(q)' /\ Creating(s)' => q = s
      BY <1>4, <3>7 DEF RoundInv
    <3>11. \A s \in Tiers : /\ windows'[s].status # "failed"
                            /\ windows'[s].status = "ready" => windows'[s].due
                            /\ windows'[s].status = "dispatched" =>
                                 \A p \in Eligible : tier'[p] = s => p \in told'
      BY <1>4, <3>3, <3>6 DEF RoundInv
    <3>. QED
      BY <1>4, <3>6, <3>8, <3>9, <3>10, <3>11 DEF RoundInv, request
  <2>6. CASE ListReady(r)
    <3>1. PICK j \in JobType : Become(r, j) /\ j.step \in {"idle", "dispatch"}
      <4>1. JobAt("dispatch", Listed, {}, {}) \in JobType /\ JobAt("dispatch", Listed, {}, {}).step = "dispatch"
        BY JobTyped DEF Steps, Listed
      <4>. QED
        BY <2>6, <4>1, NoJobTyped DEF ListReady
    <3>. QED
      BY <1>1, <2>6, <3>1, RoundGoesOn DEF ListReady
  <2>7. ASSUME NEW t \in Tiers, Dispatch(r, t) PROVE RoundInv'
    <3>1. PICK j \in JobType : Become(r, j) /\ j.step \in {"idle", "dispatch"}
      <4>1. [job[r] EXCEPT !.todo = @ \ {t}] \in JobType /\ [job[r] EXCEPT !.todo = @ \ {t}].step = job[r].step
        BY <2>1 DEF JobType
      <4>. QED
        BY <2>7, <4>1, NoJobTyped DEF Dispatch
    <3>2. UNCHANGED <<request, tier>> /\ DispatchWindow(t) /\ Dispatchable
      BY <1>4, <2>7 DEF Dispatch, RoundInv, Dispatchable
    <3>3. CASE UNCHANGED <<windows, told, inbox>>
      BY <1>1, <3>1, <3>2, <3>3, RoundGoesOn
    <3>4. CASE ~UNCHANGED <<windows, told, inbox>>
      <4>1. /\ \A s \in Tiers : s # t => windows'[s] = windows[s]
            /\ windows[t].status \in {"pending", "ready", "failed"}
            /\ windows[t].status = "pending" => windows[t].due
            /\ windows'[t].status = "dispatched"
            /\ Invite(Invited(t))
        BY <1>1, <3>2, <3>4, WindowDispatched
      <4>2. windows[t].due
        BY <1>4, <4>1 DEF RoundInv
      <4>3. told \subseteq told' /\ \A p \in Eligible : tier[p] = t => p \in told'
        BY <4>1, <4>2 DEF Invite, Invited
      <4>4. job'[r].step \in {"idle", "dispatch"} /\ \A q \in Runners : q # r => job'[q] = job[q]
        BY <1>1, <3>1, BecomeTyped DEF RestType
      <4>5. \A q \in Runners : Creating(q)' => Creating(q) /\ job'[q] = job[q]
        BY <4>4 DEF Creating
      <4>6. \A q \in Runners : job'[q].step \notin {"accepted", "withdraw", "clear", "forget"}
        BY <1>4, <4>4 DEF RoundInv
      <4>7. /\ \A q \in Runners : job'[q].step = "direct" => \A s \in Tiers : windows'[s].status = "none"
            /\ \A q \in Runners : job'[q].step = "arm" => \A s \in job'[q].todo : windows'[s].status = "none"
        BY <1>4, <2>1, <4>1, <4>5 DEF RoundInv, Creating
      <4>8. \A q, s \in Runners : Creating(q)' /\ Creating(s)' => q = s
        BY <1>4, <4>5 DEF RoundInv
      <4>9. \A s \in Tiers : /\ windows'[s].status # "failed"
                             /\ windows'[s].status = "ready" => windows'[s].due
                             /\ windows'[s].status = "dispatched" =>
                                  \A p \in Eligible : tier'[p] = s => p \in told'
        BY <1>4, <3>2, <4>1, <4>3 DEF RoundInv
      <4>. QED
        BY <1>4, <3>2, <4>6, <4>7, <4>8, <4>9 DEF RoundInv, request
    <3>. QED
      BY <3>3, <3>4
  <2>. QED
    BY <1>4, <2>2, <2>3, <2>4, <2>5, <2>6, <2>7
       DEF JobStep, Accepted, Withdraw, Clear, Forget
<1>5. ASSUME NEW r \in Runners, Tick(r) PROVE RoundInv'
  <2>1. JobAt("mark", {}, {}, {}) \in JobType /\ JobAt("mark", {}, {}, {}).step = "mark"
    BY JobTyped DEF Steps
  <2>. QED
    BY <1>1, <1>5, <2>1, RoundGoesOn DEF Tick
<1>6. ASSUME NEW r \in Runners, RunnerLost(r) PROVE RoundInv'
  BY <1>1, <1>6, NoJobTyped, RoundGoesOn DEF RunnerLost
<1>7. ASSUME round = "created", NEW t \in Tiers, Due(t) PROVE RoundInv'
  <2>1. windows[t] \in WindowType
    BY <1>1 DEF RestType
  <2>2. /\ [windows[t] EXCEPT !.due = TRUE].status = windows[t].status
        /\ [windows[t] EXCEPT !.due = TRUE].due
    BY <2>1 DEF WindowType
  <2>3. /\ windows'[t].status = windows[t].status /\ windows'[t].due
        /\ \A s \in Tiers : s # t => windows'[s] = windows[s]
    BY <1>1, <1>7, <2>2 DEF Due, RestType
  <2>4. \A s \in Tiers : windows'[s].status = windows[s].status
                         /\ (windows[s].due => windows'[s].due)
    BY <2>3
  <2>5. \A q \in Runners : job[q].todo \subseteq Tiers
    BY <1>1 DEF RestType, JobType
  <2>. QED
    BY <1>7, <2>4, <2>5 DEF RoundInv, Due, Creating, request
<1>8. ASSUME NEW p \in Providers, NEW t \in Tiers PROVE ~ChangeTier(p, t)
  BY DEF ChangeTier
<1>9. CASE UNCHANGED dispatchVars
  BY <1>9 DEF dispatchVars, request, RoundInv, Creating
<1>10. ASSUME NEW r \in Runners, JobStep(r) PROVE UNCHANGED request
  BY <1>1, <1>10, JobStepTyped
<1>11. ASSUME NEW t \in Tiers, Due(t) PROVE UNCHANGED request
  BY <1>11 DEF Due
<1>. QED
  BY <1>2, <1>3, <1>4, <1>5, <1>6, <1>7, <1>8, <1>9, <1>10, <1>11 DEF DispatchNext, Moving

\* As long as no subscription changes its tier: once the windows of a request
\* that has stayed in the pool are decided, whoever may see it was told.
THEOREM PoolReached ==
  ASSUME ~TierChanges
  PROVE  DispatchSpec => []PoolInvited
<1>1. DispatchInit => RoundInv
  <2> SUFFICES ASSUME DispatchInit PROVE RoundInv
    OBVIOUS
  <2>1. PICK r \in Web : \A q \in Runners :
          /\ q = r => job[q].step = "direct"
          /\ q # r => job[q].step = "idle"
    <3>1. JobAt("direct", {}, Named(owner), {}).step = "direct"
      BY DEF JobAt
    <3>. QED
      BY <3>1, NoJobTyped DEF DispatchInit
  <2>2. phase = "open" /\ \A t \in Tiers : windows[t].status = "none"
    BY NoWindowsTyped DEF DispatchInit, Request!Init
  <2>. QED
    BY <2>1, <2>2 DEF RoundInv, Creating
<1>2. DispatchTypeOK /\ RoundInv /\ [DispatchNext]_dispatchVars => RoundInv'
  BY RoundInductive
<1>3. DispatchTypeOK /\ RoundInv => PoolInvited
  BY DispatchAssumption DEF DispatchTypeOK, RoundInv, PoolInvited, AllDecided
<1>. QED
  BY <1>1, <1>2, <1>3, DispatchTypeCorrect, PTL DEF DispatchSpec

-----------------------------------------------------------------------------
(* One invitation.  A provider can be invited by the creation, which has one *)
(* process and reads no event log, and by the window of his tier, which is   *)
(* dispatched once: until it is, only the creation has told him, and no      *)
(* callback that is about to forget him does so while he holds it.           *)

Directing == \E r \in Runners : job[r].step = "direct"

Fresh(p) ==
    windows[tier[p]].status # "dispatched" =>
        /\ Directing => inbox[p] = 0 /\ p \notin told
        /\ p \notin told => inbox[p] = 0
        /\ inbox[p] > 0 => ~Forgetting(p)

OneInv ==
    /\ \A r \in Runners : job[r].step = "direct" => r \in Web
    /\ \A r, q \in Runners : job[r].step = "direct" /\ job[q].step = "direct" => r = q
    /\ phase = "gone" => \A t \in Tiers : windows[t].status = "none"
    /\ phase # "gone" => \A p \in Providers \ unlogged : Fresh(p)

\* The jobs of the other runners stay; this one is in no part that matters.
LEMMA FreshStays ==
  ASSUME RestType, NEW p \in Providers, Fresh(p), tier' = tier, unlogged' = unlogged,
         windows'[tier[p]].status # "dispatched" => windows[tier[p]].status # "dispatched",
         inbox'[p] \in {0, inbox[p]}, told' = told,
         \A r \in Runners : /\ job'[r].step = "direct" => job[r].step = "direct"
                            /\ job'[r].step = "forget" => job'[r] = job[r]
  PROVE  Fresh(p)'
  BY DEF Fresh, Directing, Forgetting, RestType

LEMMA OneMoves ==
  ASSUME DispatchTypeOK, OneInv, Moving
  PROVE  OneInv'
<1>1. RequestType /\ RestType
  BY TypeParts
<1>2. phase # "gone"
  BY DEF Moving, AcceptAndClear, AcceptThenClear, RelistAndRedispatch, ReopenAndRedispatch,
         CancelAndWithdraw, RemoveRequest, OtherStep, Request!Take, Request!Withdraw,
         Request!Reopen, Request!Cancel, Request!Delete, Request!Submit, Request!SendBack,
         Request!Start, Request!Finish, Request!Waiting
<1>3. ASSUME NEW r \in Web, NEW j \in JobType, Become(r, j),
             j.step \in {"accepted", "clear", "withdraw"},
             UNCHANGED <<windows, told, inbox, tier, unlogged>>, phase' # "gone"
      PROVE  OneInv'
  <2>1. r \in Runners
    BY DEF Runners
  <2>2. job'[r].step \in {"accepted", "clear", "withdraw"} /\ \A q \in Runners : q # r => job'[q] = job[q]
    BY <1>1, <1>3, <2>1, BecomeTyped DEF RestType
  <2>3. \A q \in Runners : /\ job'[q].step = "direct" => job[q].step = "direct"
                           /\ job'[q].step = "forget" => job'[q] = job[q]
    BY <2>2
  <2>4. \A p \in Providers \ unlogged : Fresh(p)'
    BY <1>1, <1>2, <1>3, <2>3, FreshStays DEF OneInv
  <2>. QED
    BY <1>3, <2>3, <2>4 DEF OneInv
<1>4. ASSUME NEW p \in Providers, AcceptAndClear(p)
      PROVE  OneInv'
  <2>1. phase' # "gone" /\ UNCHANGED <<windows, told, tier, job, unlogged>> /\ inbox' = Emptied(told \cup {p})
    BY <1>4 DEF AcceptAndClear, Request!Take
  <2>2. \A q \in Providers : inbox'[q] \in {0, inbox[q]}
    BY <1>1, <2>1, EmptiedTyped DEF RestType
  <2>3. \A q \in Providers \ unlogged : Fresh(q)'
    BY <1>1, <1>2, <2>1, <2>2, FreshStays DEF OneInv
  <2>. QED
    BY <2>1, <2>3 DEF OneInv
<1>5. ASSUME NEW p \in Providers, NEW r \in Web, AcceptThenClear(r, p)
      PROVE  OneInv'
  <2>1. JobAt("accepted", {}, {p}, {}) \in JobType /\ JobAt("accepted", {}, {p}, {}).step = "accepted"
    BY JobTyped DEF Steps
  <2>. QED
    BY <1>3, <1>5, <2>1 DEF AcceptThenClear, Request!Take
<1>6. ASSUME NEW r \in Web, RelistAndRedispatch(r)
      PROVE  OneInv'
  <2>1. /\ JobAt("clear", {}, {}, {owner}) \in JobType
        /\ JobAt("clear", {}, {}, {owner}).step = "clear"
    BY <1>1, <1>6, JobTyped DEF Steps, RequestType, RelistAndRedispatch
  <2>. QED
    BY <1>3, <1>6, <2>1 DEF RelistAndRedispatch, Request!Withdraw
<1>7. ASSUME NEW r \in Web, ReopenAndRedispatch(r)
      PROVE  OneInv'
  <2>1. JobAt("clear", {}, {}, {}) \in JobType /\ JobAt("clear", {}, {}, {}).step = "clear"
    BY JobTyped DEF Steps
  <2>. QED
    BY <1>3, <1>7, <2>1 DEF ReopenAndRedispatch, Request!Reopen
<1>8. ASSUME NEW r \in Web, CancelAndWithdraw(r)
      PROVE  OneInv'
  <2>1. /\ JobAt("withdraw", {}, Named(owner), {}) \in JobType
        /\ JobAt("withdraw", {}, Named(owner), {}).step = "withdraw"
    BY <1>1, JobTyped, NamedTyped DEF Steps, RequestType
  <2>. QED
    BY <1>3, <1>8, <2>1 DEF CancelAndWithdraw, Request!Cancel
<1>9. CASE RemoveRequest
  BY <1>9, NoWindowsTyped DEF RemoveRequest, Request!Delete, OneInv
<1>10. CASE OtherStep
  <2>1. phase' # "gone" /\ UNCHANGED <<windows, told, inbox, tier, job, unlogged>>
    BY <1>10 DEF OtherStep, Request!Take, Request!Submit, Request!SendBack, Request!Start,
                 Request!Finish, Request!Cancel
  <2>2. \A q \in Providers \ unlogged : Fresh(q)'
    BY <1>1, <1>2, <2>1, FreshStays DEF OneInv
  <2>. QED
    BY <2>1, <2>2 DEF OneInv
<1>. QED
  BY <1>4, <1>5, <1>6, <1>7, <1>8, <1>9, <1>10 DEF Moving

\* A step that starts no creation, forgets nothing and tells nobody
LEMMA OneGoesOn ==
  ASSUME RestType, OneInv, UNCHANGED <<request, tier, told, unlogged>>,
         \A p \in Providers : inbox'[p] \in {0, inbox[p]},
         \A t \in Tiers : /\ windows[t].status = "dispatched" => windows'[t].status = "dispatched"
                          /\ phase = "gone" => windows'[t].status = windows[t].status,
         \A r \in Runners : /\ job'[r].step = "direct" => job[r].step = "direct"
                            /\ job'[r].step = "forget" => job'[r] = job[r]
  PROVE  OneInv'
<1>1. \A p \in Providers : tier[p] \in Tiers
  BY DEF RestType
<1>2. phase' = phase
  BY DEF request
<1>3. ASSUME phase # "gone", NEW p \in Providers \ unlogged PROVE Fresh(p)'
  BY <1>1, <1>3, FreshStays DEF OneInv
<1>4. phase = "gone" => \A t \in Tiers : windows'[t].status = "none"
  BY DEF OneInv
<1>. QED
  BY <1>2, <1>3, <1>4 DEF OneInv

\* The same, for the steps that end with another job of this kind
LEMMA OneGoesOnWith ==
  ASSUME RestType, OneInv, UNCHANGED <<request, tier, told, unlogged>>,
         \A p \in Providers : inbox'[p] \in {0, inbox[p]},
         \A t \in Tiers : /\ windows[t].status = "dispatched" => windows'[t].status = "dispatched"
                          /\ phase = "gone" => windows'[t].status = windows[t].status,
         NEW r \in Runners, NEW j \in JobType, Become(r, j), j.step \notin {"direct", "forget"}
  PROVE  OneInv'
<1>1. job'[r] = j /\ \A q \in Runners : q # r => job'[q] = job[q]
  BY BecomeTyped DEF RestType
<1>2. \A q \in Runners : /\ job'[q].step = "direct" => job[q].step = "direct"
                         /\ job'[q].step = "forget" => job'[q] = job[q]
  BY <1>1
<1>. QED
  BY <1>2, OneGoesOn

LEMMA OneInductive ==
  ASSUME ~TierChanges, DispatchTypeOK, OneInv, [DispatchNext]_dispatchVars
  PROVE  OneInv'
<1>1. RequestType /\ RestType
  BY TypeParts
<1>2. \A p \in Providers : inbox[p] \in 0..2 /\ tier[p] \in Tiers
  BY <1>1 DEF RestType
<1>3. ASSUME NEW r \in Runners, JobStep(r) PROVE OneInv'
  <2>1. job[r] \in JobType
    BY <1>1 DEF RestType
  <2>2. CASE Direct(r)
    <3> DEFINE whom == job[r].whom \cap Eligible
    <3>1. /\ UNCHANGED <<request, windows, tier>> /\ job[r].step = "direct"
          /\ Invite(whom) /\ unlogged' = unlogged \cup {p \in whom : Forgetting(p)}
      BY <2>2 DEF Direct
    <3> HIDE DEF whom
    <3>2. JobAt("arm", Tiers, {}, {}) \in JobType /\ JobAt("arm", Tiers, {}, {}).step = "arm"
      BY JobTyped DEF Steps
    <3>3. job'[r].step = "arm" /\ \A q \in Runners : q # r => job'[q] = job[q]
      BY <1>1, <2>2, <3>2, BecomeTyped DEF Direct, RestType
    <3>4. ~Directing'
      BY <3>1, <3>3 DEF OneInv, Directing
    <3>5. ASSUME phase # "gone", NEW p \in Providers \ unlogged' PROVE Fresh(p)'
      <4>1. Fresh(p)
        BY <3>1, <3>5 DEF OneInv
      <4>2. CASE windows[tier[p]].status = "dispatched"
        BY <3>1, <4>2 DEF Fresh
      <4>3. CASE windows[tier[p]].status # "dispatched"
        <5>1. inbox[p] = 0 /\ p \notin told
          BY <3>1, <4>1, <4>3 DEF Fresh, Directing
        <5>2. p \in whom => ~Forgetting(p)'
          BY <3>1, <3>3, <3>5 DEF Forgetting
        <5>3. p \notin whom => inbox'[p] = 0
          BY <1>2, <3>1, <5>1 DEF Invite
        <5>4. p \in whom => p \in told'
          BY <3>1 DEF Invite
        <5>. QED
          BY <3>4, <5>2, <5>3, <5>4 DEF Fresh
      <4>. QED
        BY <4>2, <4>3
    <3>6. \A q \in Runners : job'[q].step # "direct"
      BY <3>4 DEF Directing
    <3>. QED
      BY <3>1, <3>5, <3>6 DEF OneInv, request
  <2>3. CASE Accepted(r) \/ Withdraw(r)
    <3>1. UNCHANGED <<request, windows, tier, told, unlogged>> /\ Become(r, NoJob)
          /\ inbox' = Emptied(told \cup job[r].whom)
      BY <2>3 DEF Accepted, Withdraw
    <3>2. \A p \in Providers : inbox'[p] \in {0, inbox[p]}
      BY <1>1, <3>1, EmptiedTyped DEF RestType
    <3>. QED
      BY <1>1, <3>1, <3>2, NoJobTyped, OneGoesOnWith
  <2>4. CASE Clear(r)
    <3> DEFINE listed == IF told = {} THEN Providers ELSE told
    <3> DEFINE j == JobAt("forget", {}, listed \ job[r].kept, {})
    <3>1. UNCHANGED <<request, windows, tier, told>> /\ Become(r, j) /\ inbox' = Emptied(told)
          /\ job[r].step = "clear" /\ unlogged' = unlogged
      BY <2>4 DEF Clear
    <3>2. j \in JobType /\ j.step = "forget" /\ (told # {} => j.whom \subseteq told)
      BY <1>1, JobTyped DEF Steps, RestType
    <3> HIDE DEF j
    <3>3. job'[r] = j /\ \A q \in Runners : q # r => job'[q] = job[q]
      BY <1>1, <3>1, <3>2, BecomeTyped DEF RestType
    <3>4. \A q \in Runners : job'[q].step = "direct" => job[q].step = "direct"
      BY <3>2, <3>3
    <3>5. \A p \in Providers : inbox'[p] \in {0, inbox[p]} /\ (p \in told => inbox'[p] = 0)
      BY <1>1, <3>1, EmptiedTyped DEF RestType
    <3>6. ASSUME phase # "gone", NEW p \in Providers \ unlogged PROVE Fresh(p)'
      <4>1. Fresh(p)
        BY <3>6 DEF OneInv
      <4>2. inbox'[p] = 0 \/ windows[tier[p]].status = "dispatched"
        BY <3>5, <4>1 DEF Fresh
      <4>3. Directing' => Directing
        BY <3>4 DEF Directing
      <4>. QED
        BY <3>1, <4>1, <4>2, <4>3 DEF Fresh
    <3>. QED
      BY <3>1, <3>4, <3>6 DEF OneInv, request
  <2>5. CASE Forget(r)
    <3>1. UNCHANGED <<request, windows, tier, inbox, unlogged>> /\ job[r].step = "forget"
          /\ told' = told \ job[r].whom
      BY <2>5 DEF Forget
    <3>2. JobAt("arm", Tiers, {}, {}) \in JobType /\ JobAt("arm", Tiers, {}, {}).step = "arm"
      BY JobTyped DEF Steps
    <3>3. job'[r].step = "arm" /\ \A q \in Runners : q # r => job'[q] = job[q]
      BY <1>1, <2>5, <3>2, BecomeTyped DEF Forget, RestType
    <3>4. \A q \in Runners : job'[q].step = "direct" => job[q].step = "direct"
      BY <3>3
    <3>5. ASSUME phase # "gone", NEW p \in Providers \ unlogged PROVE Fresh(p)'
      <4>1. Fresh(p)
        BY <3>5 DEF OneInv
      <4>2. (Directing' => Directing) /\ (Forgetting(p)' => Forgetting(p))
        BY <3>3, <3>4 DEF Directing, Forgetting
      <4>3. ~Forgetting(p) => (p \in told => p \in told')
        BY <3>1 DEF Forgetting
      <4>. QED
        BY <1>2, <3>1, <4>1, <4>2, <4>3 DEF Fresh
    <3>. QED
      BY <3>1, <3>4, <3>5 DEF OneInv, request
  <2>6. ASSUME NEW t \in Tiers, Arm(r, t) PROVE OneInv'
    <3>1. UNCHANGED <<request, told, inbox, tier, unlogged>> /\ (phase = "gone" => windows' = windows)
      BY <2>6 DEF Arm
    <3>2. /\ \A s \in Tiers : windows[s].status = "dispatched" => windows'[s].status = "dispatched"
          /\ job'[r].step \in {"arm", "mark", "idle"}
          /\ \A q \in Runners : q # r => job'[q] = job[q]
      BY <1>1, <2>6, ArmTyped
    <3>. QED
      BY <1>1, <3>1, <3>2, OneGoesOn
  <2>7. CASE Mark(r)
    <3>1. \A t \in Tiers : windows'[t] = IF windows[t].status = "pending" /\ windows[t].due
                                         THEN [windows[t] EXCEPT !.status = "ready"] ELSE windows[t]
      BY <2>7 DEF Mark
    <3>2. \A t \in Tiers : windows[t].status # "pending" => windows'[t] = windows[t]
      BY <3>1
    <3>3. phase = "gone" => \A t \in Tiers : windows[t].status # "pending"
      BY DEF OneInv
    <3>4. JobAt("list", {}, {}, {}) \in JobType /\ JobAt("list", {}, {}, {}).step = "list"
      BY JobTyped DEF Steps
    <3>. QED
      BY <1>1, <2>7, <3>2, <3>3, <3>4, OneGoesOnWith DEF Mark
  <2>8. CASE ListReady(r)
    <3>1. JobAt("dispatch", Listed, {}, {}) \in JobType /\ JobAt("dispatch", Listed, {}, {}).step = "dispatch"
      BY JobTyped DEF Steps, Listed
    <3>2. PICK j \in JobType : Become(r, j) /\ j.step \notin {"direct", "forget"}
      BY <2>8, <3>1, NoJobTyped DEF ListReady
    <3>. QED
      BY <1>1, <2>8, <3>2, OneGoesOnWith DEF ListReady
  <2>9. ASSUME NEW t \in Tiers, Dispatch(r, t) PROVE OneInv'
    <3>1. PICK j \in JobType : Become(r, j) /\ j.step \notin {"direct", "forget"}
      <4>1. [job[r] EXCEPT !.todo = @ \ {t}] \in JobType /\ [job[r] EXCEPT !.todo = @ \ {t}].step = job[r].step
        BY <2>1 DEF JobType
      <4>. QED
        BY <2>9, <4>1, NoJobTyped DEF Dispatch
    <3>2. UNCHANGED <<request, tier, unlogged>> /\ DispatchWindow(t)
      BY <2>9 DEF Dispatch
    <3>3. \A s \in Tiers : s # t => windows'[s] = windows[s]
      BY <1>1, <3>2, WindowDispatched
    <3>4. CASE UNCHANGED <<windows, told, inbox>>
      BY <1>1, <3>1, <3>2, <3>4, OneGoesOnWith
    <3>5. CASE windows[t].status \in {"pending", "ready", "failed"} /\ UNCHANGED <<told, inbox>>
      <4>1. phase # "gone"
        BY <3>5 DEF OneInv
      <4>. QED
        BY <1>1, <3>1, <3>2, <3>3, <3>5, <4>1, OneGoesOnWith
    <3>6. CASE Dispatchable /\ windows'[t].status = "dispatched" /\ Invite(Invited(t))
      <4>1. phase = "open" /\ phase' = phase
        BY <3>2, <3>6 DEF Dispatchable, request
      <4>2. job'[r] = j /\ \A q \in Runners : q # r => job'[q] = job[q]
        BY <1>1, <3>1, BecomeTyped DEF RestType
      <4>3. \A q \in Runners : /\ job'[q].step = "direct" => job[q].step = "direct"
                               /\ job'[q].step = "forget" => job'[q] = job[q]
        BY <3>1, <4>2
      <4>4. ASSUME NEW p \in Providers \ unlogged PROVE Fresh(p)'
        <5>1. Fresh(p)
          BY <4>1 DEF OneInv
        <5>2. CASE tier[p] = t
          BY <3>2, <3>6, <5>2 DEF Fresh
        <5>3. CASE tier[p] # t
          <6>1. inbox'[p] = inbox[p] /\ (p \in told' <=> p \in told)
            BY <3>6, <5>3 DEF Invite, Invited
          <6>2. windows'[tier[p]] = windows[tier[p]] /\ tier' = tier
            BY <1>2, <3>2, <3>3, <5>3
          <6>3. (Directing' => Directing) /\ (Forgetting(p)' => Forgetting(p))
            BY <4>3 DEF Directing, Forgetting
          <6>. QED
            BY <5>1, <6>1, <6>2, <6>3 DEF Fresh
        <5>. QED
          BY <5>2, <5>3
      <4>. QED
        BY <3>2, <4>1, <4>3, <4>4 DEF OneInv
    <3>. QED
      BY <1>1, <3>2, <3>4, <3>5, <3>6, WindowDispatched
  <2>. QED
    BY <1>3, <2>2, <2>3, <2>4, <2>5, <2>6, <2>7, <2>8, <2>9 DEF JobStep
<1>4. ASSUME NEW r \in Runners, Tick(r) PROVE OneInv'
  <2>1. JobAt("mark", {}, {}, {}) \in JobType /\ JobAt("mark", {}, {}, {}).step = "mark"
    BY JobTyped DEF Steps
  <2>. QED
    BY <1>1, <1>4, <2>1, OneGoesOnWith DEF Tick
<1>5. ASSUME NEW r \in Runners, RunnerLost(r) PROVE OneInv'
  BY <1>1, <1>5, NoJobTyped, OneGoesOnWith DEF RunnerLost
<1>6. ASSUME NEW t \in Tiers, Due(t) PROVE OneInv'
  <2>1. [windows[t] EXCEPT !.due = TRUE].status = windows[t].status
    BY <1>1 DEF RestType, WindowType
  <2>2. \A s \in Tiers : windows'[s].status = windows[s].status
    BY <1>1, <1>6, <2>1 DEF Due, RestType
  <2>. QED
    BY <1>1, <1>6, <2>2, OneGoesOn DEF Due
<1>7. ASSUME NEW p \in Providers, NEW t \in Tiers PROVE ~ChangeTier(p, t)
  BY DEF ChangeTier
<1>8. CASE UNCHANGED dispatchVars
  BY <1>1, <1>8, OneGoesOn DEF dispatchVars, request
<1>. QED
  BY <1>3, <1>4, <1>5, <1>6, <1>7, <1>8, OneMoves DEF DispatchNext, Moving

\* An inbox only grows by the creation, or by the window of a provider who
\* has no invitation.
LEMMA OneStep ==
  ASSUME ~TierChanges, DispatchTypeOK, OneInv, [DispatchNext]_dispatchVars,
         NEW p \in Providers \ unlogged, inbox[p] > 0, inbox'[p] > inbox[p]
  PROVE  \E r \in Web : job[r].step = "direct"
<1>1. RequestType /\ RestType
  BY TypeParts
<1>2. inbox[p] \in 0..2 /\ tier[p] \in Tiers
  BY <1>1 DEF RestType
<1>3. \A whom : Emptied(whom)[p] \in {0, inbox[p]}
  BY <1>1, EmptiedTyped DEF RestType
<1>4. inbox' # inbox /\ inbox'[p] \notin {0, inbox[p]}
  BY <1>2
<1>5. ASSUME NEW r \in Runners, Direct(r) PROVE \E q \in Web : job[q].step = "direct"
  BY <1>5 DEF Direct, OneInv
<1>6. ASSUME NEW r \in Runners, NEW t \in Tiers, Dispatch(r, t) PROVE FALSE
  <2>1. Dispatchable /\ Invite(Invited(t)) /\ windows[t].status \in {"pending", "ready", "failed"}
    BY <1>1, <1>4, <1>6, WindowDispatched DEF Dispatch
  <2>2. p \in Invited(t)
    BY <1>4, <2>1 DEF Invite
  <2>3. tier[p] = t /\ p \notin told
    BY <2>2 DEF Invited
  <2>4. Fresh(p)
    BY <2>1 DEF Dispatchable, OneInv
  <2>. QED
    BY <1>2, <2>1, <2>3, <2>4 DEF Fresh
<1>7. ASSUME NEW r \in Runners, JobStep(r) PROVE \E q \in Web : job[q].step = "direct"
  BY <1>3, <1>4, <1>5, <1>6, <1>7 DEF JobStep, Accepted, Withdraw, Clear, Forget, Arm, Mark, ListReady
<1>8. ASSUME Moving PROVE FALSE
  BY <1>3, <1>4, <1>8
     DEF Moving, AcceptAndClear, AcceptThenClear, RelistAndRedispatch, ReopenAndRedispatch,
         CancelAndWithdraw, RemoveRequest, OtherStep
<1>. QED
  BY <1>4, <1>7, <1>8
     DEF DispatchNext, Moving, ChangeTier, Tick, RunnerLost, Due, dispatchVars

\* As long as no subscription changes its tier, a provider who holds an
\* invitation is sent a second one by the creation of the request only, or
\* after a callback has forgotten the creation's.
THEOREM InvitedOnce ==
  ASSUME ~TierChanges
  PROVE  DispatchSpec => OneInvitation
<1>1. DispatchInit => OneInv
  <2> SUFFICES ASSUME DispatchInit PROVE OneInv
    OBVIOUS
  <2>1. PICK r \in Web : \A q \in Runners :
          /\ q = r => job[q].step = "direct"
          /\ q # r => job[q].step = "idle"
    <3>1. JobAt("direct", {}, Named(owner), {}).step = "direct"
      BY DEF JobAt
    <3>. QED
      BY <3>1, NoJobTyped DEF DispatchInit
  <2>2. phase = "open" /\ told = {} /\ \A p \in Providers : inbox[p] = 0
    BY DEF DispatchInit, Request!Init
  <2>. QED
    BY <2>1, <2>2 DEF OneInv, Fresh, Forgetting, Directing
<1>2. DispatchTypeOK /\ OneInv /\ [DispatchNext]_dispatchVars => OneInv'
  BY OneInductive
<1>3. DispatchTypeOK /\ OneInv /\ [DispatchNext]_dispatchVars =>
        [ \A p \in Providers \ unlogged : inbox[p] > 0 /\ inbox'[p] > inbox[p] =>
            \E r \in Web : job[r].step = "direct" ]_dispatchVars
  BY OneStep
<1>. QED
  BY <1>1, <1>2, <1>3, DispatchTypeCorrect, PTL DEF DispatchSpec, OneInvitation
================================================================================
