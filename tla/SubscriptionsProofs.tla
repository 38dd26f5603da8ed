------------------------- MODULE SubscriptionsProofs -------------------------
(***************************************************************************)
(* Proofs about Subscriptions, for any number of rows, plans and web       *)
(* processes.                                                              *)
(***************************************************************************)
EXTENDS Subscriptions, FiniteSetTheorems, WellFoundedInduction, TLAPS

\* A set of naturals that is not empty has a least member.
LEMMA LeastId ==
  ASSUME NEW T \in SUBSET Nat, T # {}
  PROVE  \E m \in T : \A k \in T : m <= k
<1> DEFINE R == {ss \in Nat \X Nat : ss[1] < ss[2]}
<1>1. IsWellFoundedOn(R, Nat)
  BY NatLessThanWellFounded DEF OpToRel
<1>2. PICK m \in T : \A k \in T : <<k, m>> \notin R
  <2> HIDE DEF R
  <2>. QED
    BY <1>1, WFMin, Zenon
<1>3. ASSUME NEW k \in T PROVE m <= k
  <2>1. k \in Nat /\ m \in Nat /\ ~(k < m)
    BY <1>2
  <2>. QED
    BY <2>1
<1>. QED
  BY <1>3

\* A new row gets an id that was never used.
LEMMA NextIdUnborn ==
  ASSUME Unborn # {}
  PROVE  NextId \in Ids /\ subs[NextId].status = "none"
<1>1. Unborn \in SUBSET Nat
  BY SubscriptionsAssumption DEF Unborn, Ids
<1>2. \E i \in Unborn : \A j \in Unborn : i <= j
  BY <1>1, LeastId
<1>3. NextId \in Unborn
  BY <1>2 DEF NextId
<1>. QED
  BY <1>3 DEF Unborn

\* The latest of some rows is one of them.
LEMMA LatestIsOne ==
  ASSUME NEW ids \in SUBSET Ids, ids # {}
  PROVE  Latest(ids) \in ids
<1> DEFINE T == {MaxSubs - i : i \in ids}
<1>1. MaxSubs \in Nat /\ \A i \in ids : i \in Nat /\ i <= MaxSubs
  BY SubscriptionsAssumption DEF Ids
<1>2. T \in SUBSET Nat /\ T # {}
  BY <1>1
<1>3. PICK m \in T : \A k \in T : m <= k
  <2> HIDE DEF T
  <2>. QED BY <1>2, LeastId
<1>4. PICK i \in ids : m = MaxSubs - i
  BY <1>3
<1>5. ASSUME NEW j \in ids PROVE j <= i
  <2>1. m <= MaxSubs - j
    BY <1>3
  <2>. QED
    BY <1>1, <1>4, <2>1
<1>6. \E x \in ids : \A j \in ids : j <= x
  BY <1>5
<1>. QED
  BY <1>6 DEF Latest

-----------------------------------------------------------------------------
(* Rows and jobs *)

RowStates == SubStatus \cup {"none", "gone"}

RowType == [plan : Plans, status : RowStates, clock : {"none", "running", "ended", "over"},
            inv : InvoiceStates \cup {"none"}, whole : BOOLEAN]

WorkType == [op : Ops, sub : Ids \cup {0}, plan : Plans, others : SUBSET Ids]

\* The parts of the type invariant, under the names the lemmas use
LEMMA TypeParts ==
  SubscriptionsTypeOK <=>
    /\ subs \in [Ids -> RowType]
    /\ jobs \in [Workers -> WorkType]
    /\ unheard \subseteq Ids
    /\ overlap \in BOOLEAN
  BY DEF SubscriptionsTypeOK, RowType, RowStates, WorkType

LEMMA TypePartsNext ==
  SubscriptionsTypeOK' <=>
    /\ subs' \in [Ids -> RowType]
    /\ jobs' \in [Workers -> WorkType]
    /\ unheard' \subseteq Ids
    /\ overlap' \in BOOLEAN
  BY DEF SubscriptionsTypeOK, RowType, RowStates, WorkType

LEMMA RowTyped ==
  ASSUME NEW p \in Plans, NEW s \in RowStates, NEW v \in InvoiceStates \cup {"none"}
  PROVE  /\ Row(p, s, "none", v) \in RowType
         /\ Row(p, s, "none", v).plan = p
         /\ Row(p, s, "none", v).status = s
         /\ Row(p, s, "none", v).inv = v
         /\ Row(p, s, "none", v).whole = TRUE
  BY DEF Row, RowType

LEMMA JobTyped ==
  ASSUME NEW op \in Ops, NEW i \in Ids \cup {0}, NEW p \in Plans, NEW o \in SUBSET Ids
  PROVE  /\ Job(op, i, p, o) \in WorkType
         /\ Job(op, i, p, o).op = op
         /\ Job(op, i, p, o).sub = i
         /\ Job(op, i, p, o).plan = p
         /\ Job(op, i, p, o).others = o
  BY DEF Job, WorkType

LEMMA NoJobTyped == NoJob \in WorkType /\ NoJob.op = "idle"
  BY JobTyped, SubscriptionsAssumption DEF NoJob, Ops

LEMMA DoTyped ==
  ASSUME jobs \in [Workers -> WorkType], NEW w \in Workers, NEW job \in WorkType, Do(w, job)
  PROVE  /\ jobs' \in [Workers -> WorkType]
         /\ jobs'[w] = job
         /\ \A v \in Workers : v # w => jobs'[v] = jobs[v]
  BY DEF Do

\* A row is left as it was, or cancelled if it was current.
Dropped(rows, new, i) ==
    \/ new[i] = rows[i]
    \/ /\ i \in CurrentIn(rows)
       /\ new[i] = [rows[i] EXCEPT !.status = "cancelled"]

LEMMA CancelledRows ==
  ASSUME NEW rows \in [Ids -> RowType], NEW ids
  PROVE  /\ Cancelled(rows, ids) \in [Ids -> RowType]
         /\ \A i \in Ids : i \notin ids => Cancelled(rows, ids)[i] = rows[i]
         /\ \A i \in Ids : i \in ids =>
              Cancelled(rows, ids)[i] = [rows[i] EXCEPT !.status = "cancelled"]
<1>1. \A i \in Ids : rows[i] \in RowType /\ [rows[i] EXCEPT !.status = "cancelled"] \in RowType
  BY DEF RowType, RowStates, SubStatus
<1>. QED
  BY <1>1 DEF Cancelled

\* Normalising cancels current subscriptions and nothing else, and keeps one:
\* the preferred one if it is current.
LEMMA NormalizedKeeps ==
  ASSUME NEW rows \in [Ids -> RowType], NEW p, NEW new \in Normalized(rows, p)
  PROVE  /\ new \in [Ids -> RowType]
         /\ \A i \in Ids : Dropped(rows, new, i)
         /\ CurrentIn(rows) # {} => \E e \in CurrentIn(rows) : new[e] = rows[e]
         /\ p \in CurrentIn(rows) => new[p] = rows[p]
<1>1. CASE CurrentIn(rows) = {}
  BY <1>1 DEF Normalized, Dropped
<1>2. CASE CurrentIn(rows) # {}
  <2>1. PICK e \in CurrentIn(rows) :
          /\ new = Cancelled(rows, CurrentIn(rows) \ {e})
          /\ p \in CurrentIn(rows) => e = p
    BY <1>2 DEF Normalized, Effectives
  <2>2. e \in Ids /\ CurrentIn(rows) \subseteq Ids
    BY DEF CurrentIn
  <2>3. new[e] = rows[e]
    BY <2>1, <2>2, CancelledRows
  <2>. QED
    BY <2>1, <2>2, <2>3, CancelledRows DEF Dropped
<1>. QED
  BY <1>1, <1>2

LEMMA DroppedFields ==
  ASSUME NEW rows \in [Ids -> RowType], NEW new \in [Ids -> RowType],
         NEW i \in Ids, Dropped(rows, new, i)
  PROVE  /\ new[i].inv = rows[i].inv /\ new[i].whole = rows[i].whole /\ new[i].plan = rows[i].plan
         /\ new[i].status = rows[i].status \/ (i \in CurrentIn(rows) /\ new[i].status = "cancelled")
         /\ i \in CurrentIn(new) => i \in CurrentIn(rows)
<1>1. rows[i] \in RowType
  OBVIOUS
<1>. QED
  BY <1>1 DEF Dropped, CurrentIn, RowType

-----------------------------------------------------------------------------
(* The inductive invariant *)

\* What is paid for and what is provided agree, row by row.
RowsSound ==
    \A i \in Ids \ unheard :
      /\ subs[i].inv = "paid" => subs[i].status # "pending_payment" /\ subs[i].whole
      /\ subs[i].plan > 0 /\ subs[i].status \in {"awaiting_review", "active", "grace"}
           => subs[i].inv = "paid"

\* What a job has read of the rows and still may rely on
HeldIn(rows, un, job) ==
    /\ job.op \in {"found", "update", "remove", "activate", "bill"} => job.sub \in Ids
    /\ job.op \in {"found", "update", "remove"} => job.others = {}
    /\ job.op \in {"update", "remove"} =>
         /\ job.sub \in un \/ rows[job.sub].inv # "paid"
         /\ rows[job.sub].status # "none"
    /\ job.op = "remove" => rows[job.sub].status \in {"pending_payment", "expired", "cancelled"}
    /\ job.op = "activate" =>
         /\ rows[job.sub].inv = "paid"
         /\ rows[job.sub].status \in {"awaiting_review", "active"}
         /\ job.others \subseteq CurrentIn(rows) \ {job.sub}
    /\ job.op = "bill" =>
         /\ rows[job.sub].inv = "none"
         /\ rows[job.sub].status \in {"pending_payment", "gone"}

JobsHeld == \A w \in Workers : HeldIn(subs, unheard, jobs[w])

\* Locks exclude each other, and a row is billed by the job that made it.
LocksApart ==
    \A v, w \in Workers : v # w =>
      /\ Locks(v) \cap Locks(w) = {}
      /\ jobs[v].op = "bill" /\ jobs[w].op = "bill" => jobs[v].sub # jobs[w].sub

\* While entitlements were made one at a time, the job that is making one
\* knows all there is.
OneMaking ==
    ~overlap =>
      /\ \A a, b \in Current : a = b
      /\ \A v, w \in Making : v = w
      /\ \A w \in Workers :
           /\ jobs[w].op = "grant" => Current = {}
           /\ jobs[w].op = "activate" => Current \subseteq {jobs[w].sub} \cup jobs[w].others

SubscriptionsInv ==
    SubscriptionsTypeOK /\ RowsSound /\ JobsHeld /\ LocksApart /\ OneMaking

LocksOf(job) ==
    IF job.op \in {"update", "remove", "activate"} THEN {job.sub} \cup job.others ELSE {}

LEMMA LocksAre == \A w : Locks(w) = LocksOf(jobs[w])
  BY DEF Locks, LocksOf

LEMMA LocksAreNext == \A w : Locks(w)' = LocksOf(jobs'[w])
  BY DEF Locks, LocksOf

\* A job that a step does not touch keeps what it relies on, as long as its
\* rows do.
LEMMA HeldStays ==
  ASSUME NEW rows \in [Ids -> RowType], NEW new \in [Ids -> RowType], NEW un, NEW un2,
         NEW job \in WorkType, HeldIn(rows, un, job),
         \A i \in Ids : i \in LocksOf(job) =>
           /\ new[i].inv = rows[i].inv \/ (i \in un2 /\ job.op # "activate")
           /\ new[i].status = rows[i].status
           /\ i \in un => i \in un2,
         job.op = "bill" =>
           /\ new[job.sub].inv = "none"
           /\ new[job.sub].status \in {"pending_payment", "gone"}
  PROVE  HeldIn(new, un2, job)
<1>1. CASE job.op \in {"update", "remove"}
  <2>1. job.sub \in Ids /\ job.sub \in LocksOf(job)
    BY <1>1 DEF HeldIn, LocksOf
  <2>. QED
    BY <1>1, <2>1 DEF HeldIn
<1>2. CASE job.op = "activate"
  <2>1. job.sub \in Ids /\ LocksOf(job) = {job.sub} \cup job.others /\ job.others \subseteq Ids
    BY <1>2 DEF HeldIn, LocksOf, WorkType
  <2>2. job.others \subseteq CurrentIn(new)
    BY <1>2, <2>1 DEF HeldIn, CurrentIn
  <2>. QED
    BY <1>2, <2>1, <2>2 DEF HeldIn
<1>3. CASE job.op \notin {"update", "remove", "activate"}
  BY <1>3 DEF HeldIn
<1>. QED
  BY <1>1, <1>2, <1>3

\* A job that ends, or takes locks that are free, leaves locks exclusive.
LEMMA LocksStay ==
  ASSUME SubscriptionsInv, NEW w \in Workers, NEW job \in WorkType, Do(w, job),
         \A v \in Workers : v # w => LocksOf(job) \cap Locks(v) = {},
         \A v \in Workers : v # w /\ jobs[v].op = "bill" /\ job.op = "bill" => jobs[v].sub # job.sub
  PROVE  LocksApart'
<1>1. jobs'[w] = job /\ \A v \in Workers : v # w => jobs'[v] = jobs[v]
  BY TypeParts, DoTyped DEF SubscriptionsInv
<1>2. \A v \in Workers : v # w => Locks(v)' = Locks(v)
  BY <1>1, LocksAre, LocksAreNext
<1>3. Locks(w)' = LocksOf(job)
  BY <1>1, LocksAreNext
<1>4. LocksApart
  BY DEF SubscriptionsInv
<1>5. ASSUME NEW u \in Workers, NEW v \in Workers, u # v
      PROVE  /\ Locks(u)' \cap Locks(v)' = {}
             /\ jobs'[u].op = "bill" /\ jobs'[v].op = "bill" => jobs'[u].sub # jobs'[v].sub
  <2>1. CASE u = w
    BY <1>1, <1>2, <1>3, <1>5, <2>1
  <2>2. CASE v = w
    BY <1>1, <1>2, <1>3, <1>5, <2>2
  <2>3. CASE u # w /\ v # w
    BY <1>1, <1>2, <1>4, <1>5, <2>3 DEF LocksApart
  <2>. QED
    BY <2>1, <2>2, <2>3
<1>. QED
  BY <1>5 DEF LocksApart

LEMMA LocksStayIdle ==
  ASSUME SubscriptionsInv, UNCHANGED jobs
  PROVE  LocksApart'
  BY DEF SubscriptionsInv, LocksApart, Locks

\* The same for the making of entitlements, when no job begins one and
\* nothing becomes current
LEMMA MakingStays ==
  ASSUME SubscriptionsInv, Current' \subseteq Current, UNCHANGED overlap,
         \A w \in Workers : jobs'[w] = jobs[w] \/ jobs'[w].op \notin {"activate", "grant"}
  PROVE  OneMaking'
<1>1. ASSUME ~overlap, NEW w \in Workers, jobs'[w].op \in {"activate", "grant"}
      PROVE  jobs'[w] = jobs[w] /\ w \in Making
  BY <1>1 DEF Making
<1>2. Making' \subseteq {w \in Workers : jobs'[w].op \in {"activate", "grant"}}
  BY DEF Making
<1>3. ASSUME ~overlap
      PROVE  /\ \A a, b \in Current' : a = b
             /\ \A v, w \in Making' : v = w
             /\ \A w \in Workers :
                  /\ jobs'[w].op = "grant" => Current' = {}
                  /\ jobs'[w].op = "activate" => Current' \subseteq {jobs'[w].sub} \cup jobs'[w].others
  <2>1. /\ \A a, b \in Current : a = b
        /\ \A v, w \in Making : v = w
        /\ \A w \in Workers :
             /\ jobs[w].op = "grant" => Current = {}
             /\ jobs[w].op = "activate" => Current \subseteq {jobs[w].sub} \cup jobs[w].others
    BY <1>3 DEF SubscriptionsInv, OneMaking
  <2>2. \A v, w \in Making' : v = w
    BY <1>1, <1>2, <1>3, <2>1
  <2>3. ASSUME NEW w \in Workers
        PROVE  /\ jobs'[w].op = "grant" => Current' = {}
               /\ jobs'[w].op = "activate" => Current' \subseteq {jobs'[w].sub} \cup jobs'[w].others
    BY <1>1, <1>3, <2>1
  <2>. QED
    BY <2>1, <2>2, <2>3
<1>. QED
  BY <1>3 DEF OneMaking

\* A row is as good as before when it was left alone or cancelled.
LEMMA RowsStay ==
  ASSUME SubscriptionsInv, subs' \in [Ids -> RowType],
         \A i \in Ids \ unheard' : i \notin unheard /\ Dropped(subs, subs', i)
  PROVE  RowsSound'
<1>1. ASSUME NEW i \in Ids \ unheard'
      PROVE  /\ subs'[i].inv = "paid" => subs'[i].status # "pending_payment" /\ subs'[i].whole
             /\ subs'[i].plan > 0 /\ subs'[i].status \in {"awaiting_review", "active", "grace"}
                  => subs'[i].inv = "paid"
  <2>1. i \in Ids \ unheard /\ Dropped(subs, subs', i) /\ subs \in [Ids -> RowType]
    BY TypeParts DEF SubscriptionsInv
  <2>2. /\ subs'[i].inv = subs[i].inv /\ subs'[i].whole = subs[i].whole /\ subs'[i].plan = subs[i].plan
        /\ subs'[i].status = subs[i].status \/ subs'[i].status = "cancelled"
    BY <2>1, DroppedFields
  <2>. QED
    BY <2>1, <2>2 DEF SubscriptionsInv, RowsSound
<1>. QED
  BY <1>1 DEF RowsSound

-----------------------------------------------------------------------------
(* The steps *)

\* The rows that the other jobs rely on are left alone.
Respects(v) ==
    /\ \A i \in Ids : i \in Locks(v) =>
         /\ subs'[i].inv = subs[i].inv \/ (i \in unheard' /\ jobs[v].op # "activate")
         /\ subs'[i].status = subs[i].status
         /\ i \in unheard => i \in unheard'
    /\ jobs[v].op = "bill" =>
         /\ subs'[jobs[v].sub].inv = "none"
         /\ subs'[jobs[v].sub].status \in {"pending_payment", "gone"}

LEMMA JobStays ==
  ASSUME SubscriptionsInv, subs' \in [Ids -> RowType],
         NEW v \in Workers, jobs'[v] = jobs[v], Respects(v)
  PROVE  HeldIn(subs', unheard', jobs'[v])
<1>1. subs \in [Ids -> RowType] /\ jobs[v] \in WorkType /\ HeldIn(subs, unheard, jobs[v])
  BY TypeParts DEF SubscriptionsInv, JobsHeld
<1>2. Locks(v) = LocksOf(jobs[v])
  BY LocksAre
<1>. QED
  BY <1>1, <1>2, HeldStays DEF Respects

\* A step of a job
LEMMA WorkerStep ==
  ASSUME SubscriptionsInv, NEW w \in Workers, NEW job \in WorkType, Do(w, job),
         subs' \in [Ids -> RowType], UNCHANGED unheard, overlap' \in BOOLEAN,
         HeldIn(subs', unheard, job),
         \A v \in Workers : v # w => Respects(v) /\ LocksOf(job) \cap Locks(v) = {},
         \A v \in Workers : v # w /\ jobs[v].op = "bill" /\ job.op = "bill" => jobs[v].sub # job.sub
  PROVE  SubscriptionsTypeOK' /\ JobsHeld' /\ LocksApart'
<1>1. /\ jobs' \in [Workers -> WorkType]
      /\ jobs'[w] = job /\ \A v \in Workers : v # w => jobs'[v] = jobs[v]
  BY TypeParts, DoTyped DEF SubscriptionsInv
<1>2. LocksApart'
  BY LocksStay
<1>3. SubscriptionsTypeOK'
  BY <1>1, TypePartsNext, TypeParts DEF SubscriptionsInv
<1>4. ASSUME NEW v \in Workers PROVE HeldIn(subs', unheard', jobs'[v])
  <2>1. CASE v = w
    BY <1>1, <2>1
  <2>2. CASE v # w
    BY <1>1, <2>2, JobStays
  <2>. QED
    BY <2>1, <2>2
<1>. QED
  BY <1>2, <1>3, <1>4 DEF JobsHeld

\* A step that no job takes
LEMMA OtherStep ==
  ASSUME SubscriptionsInv, UNCHANGED <<jobs, overlap>>,
         subs' \in [Ids -> RowType], unheard' \subseteq Ids,
         \A v \in Workers : Respects(v)
  PROVE  SubscriptionsTypeOK' /\ JobsHeld' /\ LocksApart'
<1>1. LocksApart'
  BY LocksStayIdle
<1>2. SubscriptionsTypeOK'
  BY TypePartsNext, TypeParts DEF SubscriptionsInv
<1>3. \A v \in Workers : HeldIn(subs', unheard', jobs'[v])
  BY JobStays
<1>. QED
  BY <1>1, <1>2, <1>3 DEF JobsHeld

\* What the action properties ask of a step
NotRevived ==
    \A i \in Ids : subs[i].status \in {"expired", "cancelled", "gone"} =>
      subs'[i].status \in {subs[i].status, "gone"}

StillServed ==
    Current # {} /\ CurrentIn(subs') = {} =>
      \E i \in Current :
        \/ subs'[i].status = "expired" /\ subs[i].clock = "over"
        \/ subs'[i].status = "pending_payment" /\ subs'[i].inv # "paid"

NoneDeleted ==
    \A i \in Made : subs'[i].status = "gone" => subs[i].inv # "paid" \/ i \in unheard

StepSound == NotRevived /\ StillServed /\ NoneDeleted

\* A step that leaves every row alone, or cancels current ones but for one
LEMMA DroppingSound ==
  ASSUME SubscriptionsInv, subs' \in [Ids -> RowType],
         \A i \in Ids : Dropped(subs, subs', i),
         Current # {} => \E e \in Current : subs'[e] = subs[e]
  PROVE  StepSound /\ Current' \subseteq Current
<1>1. subs \in [Ids -> RowType]
  BY TypeParts DEF SubscriptionsInv
<1>2. \A i \in Ids :
        /\ subs'[i].status = subs[i].status
             \/ (subs[i].status \in {"active", "grace"} /\ subs'[i].status = "cancelled")
        /\ i \in CurrentIn(subs') => i \in CurrentIn(subs)
  BY <1>1, DroppedFields DEF CurrentIn
<1>3. Current' \subseteq Current /\ Current' = CurrentIn(subs')
  BY <1>2 DEF Current, CurrentIn
<1>4. NotRevived
  BY <1>2 DEF NotRevived
<1>5. StillServed
  BY DEF StillServed, Current, CurrentIn
<1>6. NoneDeleted
  BY <1>2 DEF NoneDeleted, Made
<1>. QED
  BY <1>3, <1>4, <1>5, <1>6 DEF StepSound

\* A job reads, takes its lock or ends.
LEMMA QuietStep ==
  ASSUME SubscriptionsInv, NEW w \in Workers, NEW job \in WorkType, Do(w, job),
         UNCHANGED <<subs, unheard, overlap>>,
         HeldIn(subs, unheard, job),
         \A v \in Workers : v # w => LocksOf(job) \cap Locks(v) = {},
         job.op \notin {"activate", "grant", "bill"}
  PROVE  SubscriptionsInv' /\ StepSound
<1>1. subs \in [Ids -> RowType] /\ jobs \in [Workers -> WorkType] /\ overlap \in BOOLEAN
  BY TypeParts DEF SubscriptionsInv
<1>2. \A v \in Workers : Respects(v)
  <2>1. \A v \in Workers : HeldIn(subs, unheard, jobs[v])
    BY DEF SubscriptionsInv, JobsHeld
  <2>. QED
    BY <2>1 DEF Respects, HeldIn
<1>3. SubscriptionsTypeOK' /\ JobsHeld' /\ LocksApart'
  BY <1>1, <1>2, WorkerStep
<1>4. \A i \in Ids : Dropped(subs, subs', i)
  BY DEF Dropped
<1>5. StepSound /\ Current' \subseteq Current
  BY <1>1, <1>4, DroppingSound
<1>6. RowsSound'
  BY <1>1, <1>4, RowsStay
<1>7. OneMaking'
  <2>1. \A v \in Workers : jobs'[v] = jobs[v] \/ jobs'[v].op \notin {"activate", "grant"}
    BY <1>1, DoTyped
  <2>. QED
    BY <1>5, <2>1, MakingStays
<1>. QED
  BY <1>3, <1>5, <1>6, <1>7 DEF SubscriptionsInv

LEMMA LocksOfFree ==
  ASSUME NEW job, job.op \notin {"update", "remove", "activate"}
  PROVE  LocksOf(job) = {}
  BY DEF LocksOf

LEMMA JobLostStep ==
  ASSUME SubscriptionsInv, NEW w \in Workers, JobLost(w)
  PROVE  SubscriptionsInv' /\ StepSound
<1>1. HeldIn(subs, unheard, NoJob)
  BY NoJobTyped DEF HeldIn
<1>2. LocksOf(NoJob) = {}
  BY NoJobTyped, LocksOfFree
<1>. QED
  BY <1>1, <1>2, NoJobTyped, QuietStep DEF JobLost

LEMMA StartCheckoutStep ==
  ASSUME SubscriptionsInv, NEW w \in Workers, NEW p \in Plans, StartCheckout(w, p)
  PROVE  SubscriptionsInv' /\ StepSound
<1>1. \E op \in {"found", "basic", "create"}, i \in Ids \cup {0} :
        Do(w, Job(op, i, p, {})) /\ (op = "found" => i \in Ids)
  <2>1. Payable(p) \in SUBSET Ids
    BY DEF Payable, Undecided, Made
  <2>2. Payable(p) # {} => Latest(Payable(p)) \in Ids
    BY <2>1, LatestIsOne
  <2>. QED
    BY <2>2 DEF StartCheckout
<1>2. PICK op \in {"found", "basic", "create"}, i \in Ids \cup {0} :
        Do(w, Job(op, i, p, {})) /\ (op = "found" => i \in Ids)
  BY <1>1
<1>3. /\ Job(op, i, p, {}) \in WorkType
      /\ Job(op, i, p, {}).op = op /\ Job(op, i, p, {}).sub = i
      /\ Job(op, i, p, {}).others = {}
  BY JobTyped DEF Ops
<1>4. HeldIn(subs, unheard, Job(op, i, p, {}))
  BY <1>2, <1>3 DEF HeldIn
<1>5. LocksOf(Job(op, i, p, {})) = {}
  BY <1>3, LocksOfFree
<1>. QED
  BY <1>2, <1>3, <1>4, <1>5, QuietStep DEF StartCheckout

LEMMA StartRenewalStep ==
  ASSUME SubscriptionsInv, NEW w \in Workers, NEW i \in Ids, StartRenewal(w, i)
  PROVE  SubscriptionsInv' /\ StepSound
<1> DEFINE job == Job("renew", 0, subs[i].plan, {})
<1>1. subs[i].plan \in Plans
  BY TypeParts DEF SubscriptionsInv, RowType
<1>2. job \in WorkType /\ job.op = "renew" /\ job.sub = 0
  BY <1>1, JobTyped DEF Ops
<1>3. Do(w, job) /\ UNCHANGED <<subs, unheard, overlap>>
  BY DEF StartRenewal
<1> HIDE DEF job
<1>4. HeldIn(subs, unheard, job) /\ LocksOf(job) = {}
  BY <1>2, LocksOfFree DEF HeldIn
<1>. QED
  BY <1>2, <1>3, <1>4, QuietStep

\* A row is taken that no job holds, with what was read under the lock.
LEMMA StartRemovalStep ==
  ASSUME SubscriptionsInv, NEW w \in Workers, NEW i \in Ids, StartRemoval(w, i)
  PROVE  SubscriptionsInv' /\ StepSound
<1> DEFINE job == Job("remove", i, 0, {})
<1>1. job \in WorkType /\ job.op = "remove" /\ job.sub = i /\ job.others = {}
  BY JobTyped, SubscriptionsAssumption DEF Ops
<1>2. Do(w, job) /\ UNCHANGED <<subs, unheard, overlap>> /\ Unlocked({i}) /\ Deletable(i)
  BY DEF StartRemoval
<1> HIDE DEF job
<1>3. LocksOf(job) = {i}
  BY <1>1 DEF LocksOf
<1>4. HeldIn(subs, unheard, job)
  BY <1>1, <1>2 DEF HeldIn, Deletable
<1>5. \A v \in Workers : LocksOf(job) \cap Locks(v) = {}
  BY <1>2, <1>3 DEF Unlocked
<1>. QED
  BY <1>1, <1>2, <1>4, <1>5, QuietStep

\* Under the lock the row is a checkout, so it is not paid unless its
\* receiver was not heard.
LEMMA LockPendingStep ==
  ASSUME SubscriptionsInv, NEW w \in Workers, LockPending(w)
  PROVE  SubscriptionsInv' /\ StepSound
<1>1. jobs[w] \in WorkType /\ HeldIn(subs, unheard, jobs[w]) /\ jobs[w].op = "found"
  BY TypeParts DEF SubscriptionsInv, JobsHeld, LockPending
<1>2. CASE StillPayable(jobs[w].sub)
  <2> DEFINE job == [jobs[w] EXCEPT !.op = "update"]
  <2>1. Do(w, job) /\ UNCHANGED <<subs, unheard, overlap>> /\ Unlocked({jobs[w].sub})
    BY <1>2 DEF LockPending
  <2>2. job \in WorkType /\ job.op = "update" /\ job.sub = jobs[w].sub /\ job.others = jobs[w].others
    BY <1>1 DEF WorkType, Ops
  <2> HIDE DEF job
  <2>3. job.sub \in Ids /\ job.others = {}
    BY <1>1, <2>2 DEF HeldIn
  <2>4. /\ job.sub \in unheard \/ subs[job.sub].inv # "paid"
        /\ subs[job.sub].status # "none"
    BY <1>2, <2>2, <2>3 DEF StillPayable, SubscriptionsInv, RowsSound
  <2>5. HeldIn(subs, unheard, job) /\ LocksOf(job) = {jobs[w].sub}
    BY <2>2, <2>3, <2>4 DEF HeldIn, LocksOf
  <2>6. \A v \in Workers : LocksOf(job) \cap Locks(v) = {}
    BY <2>1, <2>5 DEF Unlocked
  <2>. QED
    BY <2>1, <2>2, <2>5, <2>6, QuietStep
<1>3. CASE ~StillPayable(jobs[w].sub)
  <2>1. Do(w, NoJob) /\ UNCHANGED <<subs, unheard, overlap>>
    BY <1>3 DEF LockPending
  <2>2. HeldIn(subs, unheard, NoJob) /\ LocksOf(NoJob) = {}
    BY NoJobTyped, LocksOfFree DEF HeldIn
  <2>. QED
    BY <2>1, <2>2, NoJobTyped, QuietStep
<1>. QED
  BY <1>2, <1>3

-----------------------------------------------------------------------------
(* Steps that change rows *)

\* What is changed is locked by no other job, and is not a renewal that
\* waits for its invoice.
LEMMA FreeRespects ==
  ASSUME SubscriptionsInv, NEW v \in Workers, NEW C,
         Locks(v) \cap C = {}, jobs[v].op = "bill" => jobs[v].sub \notin C,
         \A j \in Ids \ C :
           /\ subs'[j].inv = subs[j].inv /\ subs'[j].status = subs[j].status
           /\ j \in unheard => j \in unheard'
  PROVE  Respects(v)
<1>1. HeldIn(subs, unheard, jobs[v])
  BY DEF SubscriptionsInv, JobsHeld
<1>. QED
  BY <1>1 DEF Respects, HeldIn

\* Rows that no job has are held by none.
LEMMA UnbornFree ==
  ASSUME SubscriptionsInv, NEW v \in Workers, NEW i \in Ids, subs[i].status = "none"
  PROVE  i \notin Locks(v) /\ (jobs[v].op = "bill" => jobs[v].sub # i)
<1>1. HeldIn(subs, unheard, jobs[v])
  BY DEF SubscriptionsInv, JobsHeld
<1>2. Locks(v) = LocksOf(jobs[v])
  BY LocksAre
<1>. QED
  BY <1>1, <1>2 DEF HeldIn, LocksOf, CurrentIn

LEMMA CurrentNotBilled ==
  ASSUME SubscriptionsInv, NEW v \in Workers, jobs[v].op = "bill"
  PROVE  jobs[v].sub \notin Current /\ subs[jobs[v].sub].inv = "none"
  BY DEF SubscriptionsInv, JobsHeld, HeldIn, Current, CurrentIn

\* Rows are born, deleted without a payment, or keep their status.
LEMMA PlainSound ==
  ASSUME \A i \in Ids :
           \/ subs'[i].status = subs[i].status
           \/ subs[i].status = "none" /\ subs'[i].status \in {"pending_payment", "active"}
           \/ /\ subs[i].status \in {"pending_payment", "expired", "cancelled"}
              /\ subs'[i].status = "gone"
              /\ subs[i].inv # "paid" \/ i \in unheard
  PROVE  StepSound
<1>1. NotRevived
  BY DEF NotRevived
<1>2. StillServed
  BY DEF StillServed, Current, CurrentIn
<1>3. NoneDeleted
  BY DEF NoneDeleted, Made
<1>. QED
  BY <1>1, <1>2, <1>3 DEF StepSound

LEMMA CurrentSame ==
  ASSUME \A i \in Ids : subs'[i].status \in {"active", "grace"} => subs[i].status \in {"active", "grace"}
  PROVE  Current' \subseteq Current
  BY DEF Current, CurrentIn

LEMMA EndsMaking ==
  ASSUME SubscriptionsInv, NEW w \in Workers, NEW job \in WorkType, Do(w, job),
         job.op \notin {"activate", "grant"}
  PROVE  \A v \in Workers : jobs'[v] = jobs[v] \/ jobs'[v].op \notin {"activate", "grant"}
  BY TypeParts, DoTyped DEF SubscriptionsInv

LEMMA BirthStep ==
  ASSUME SubscriptionsInv, NEW w \in Workers, NEW job \in WorkType, Do(w, job), Unborn # {},
         NEW p \in Plans, NEW s \in {"pending_payment", "active"}, NEW v \in {"unpaid", "none"},
         s = "active" => p = 0,
         subs' = [subs EXCEPT ![NextId] = Row(p, s, "none", v)],
         UNCHANGED <<unheard, overlap>>,
         \/ job.op = "idle"
         \/ job.op = "bill" /\ job.sub = NextId /\ s = "pending_payment" /\ v = "none"
  PROVE  /\ SubscriptionsTypeOK' /\ JobsHeld' /\ LocksApart' /\ RowsSound'
         /\ StepSound
         /\ Current' \subseteq IF s = "active" THEN Current \cup {NextId} ELSE Current
         /\ \A u \in Workers : jobs'[u] = jobs[u] \/ jobs'[u].op \notin {"activate", "grant"}
<1> DEFINE row == Row(p, s, "none", v)
<1>1. NextId \in Ids /\ subs[NextId].status = "none"
  BY NextIdUnborn
<1>2. subs \in [Ids -> RowType] /\ overlap \in BOOLEAN
  BY TypeParts DEF SubscriptionsInv
<1>3. row \in RowType /\ row.plan = p /\ row.status = s /\ row.inv = v
  <2>1. s \in RowStates /\ v \in InvoiceStates \cup {"none"}
    BY DEF RowStates, SubStatus, InvoiceStates
  <2>2. /\ Row(p, s, "none", v) \in RowType /\ Row(p, s, "none", v).plan = p
        /\ Row(p, s, "none", v).status = s /\ Row(p, s, "none", v).inv = v
    BY <2>1 DEF Row, RowType
  <2>. QED
    BY <2>2
<1>4. subs' = [subs EXCEPT ![NextId] = row]
  OBVIOUS
<1> HIDE DEF row
<1>5. /\ subs' \in [Ids -> RowType]
      /\ subs'[NextId] = row
      /\ \A i \in Ids : i # NextId => subs'[i] = subs[i]
  BY <1>1, <1>2, <1>3, <1>4
<1>6. ASSUME NEW u \in Workers
      PROVE  Respects(u) /\ (jobs[u].op = "bill" => jobs[u].sub # NextId)
  <2>1. NextId \notin Locks(u) /\ (jobs[u].op = "bill" => jobs[u].sub # NextId)
    BY <1>1, UnbornFree
  <2>2. Locks(u) \cap {NextId} = {} /\ (jobs[u].op = "bill" => jobs[u].sub \notin {NextId})
    BY <2>1
  <2>3. \A j \in Ids \ {NextId} :
          /\ subs'[j].inv = subs[j].inv /\ subs'[j].status = subs[j].status
          /\ j \in unheard => j \in unheard'
    BY <1>5
  <2>4. Respects(u)
    BY <2>2, <2>3, FreeRespects
  <2>. QED
    BY <2>1, <2>4
<1>7. HeldIn(subs', unheard, job)
  BY <1>1, <1>3, <1>5 DEF HeldIn
<1>8. LocksOf(job) = {}
  BY LocksOfFree
<1>9. SubscriptionsTypeOK' /\ JobsHeld' /\ LocksApart'
  <2>1. \A u \in Workers : u # w => Respects(u) /\ LocksOf(job) \cap Locks(u) = {}
    BY <1>6, <1>8
  <2>2. \A u \in Workers : u # w /\ jobs[u].op = "bill" /\ job.op = "bill" => jobs[u].sub # job.sub
    BY <1>6
  <2>. QED
    BY <1>2, <1>5, <1>7, <2>1, <2>2, WorkerStep
<1>10. RowsSound'
  <2>1. ASSUME NEW i \in Ids \ unheard'
        PROVE  /\ subs'[i].inv = "paid" => subs'[i].status # "pending_payment" /\ subs'[i].whole
               /\ subs'[i].plan > 0 /\ subs'[i].status \in {"awaiting_review", "active", "grace"}
                    => subs'[i].inv = "paid"
    <3>1. CASE i = NextId
      BY <1>3, <1>5, <3>1
    <3>2. CASE i # NextId
      BY <1>5, <2>1, <3>2 DEF SubscriptionsInv, RowsSound
    <3>. QED
      BY <3>1, <3>2
  <2>. QED
    BY <2>1 DEF RowsSound
<1>11. StepSound
  BY <1>1, <1>3, <1>5, PlainSound
<1>12. Current' \subseteq IF s = "active" THEN Current \cup {NextId} ELSE Current
  BY <1>1, <1>3, <1>5 DEF Current, CurrentIn
<1>13. \A u \in Workers : jobs'[u] = jobs[u] \/ jobs'[u].op \notin {"activate", "grant"}
  BY EndsMaking
<1>. QED
  BY <1>9, <1>10, <1>11, <1>12, <1>13

LEMMA CreatePendingStep ==
  ASSUME SubscriptionsInv, NEW w \in Workers, CreatePending(w)
  PROVE  SubscriptionsInv' /\ StepSound
<1>1. jobs[w].plan \in Plans
  BY TypeParts DEF SubscriptionsInv, WorkType
<1>2. /\ SubscriptionsTypeOK' /\ JobsHeld' /\ LocksApart' /\ RowsSound'
      /\ StepSound
      /\ Current' \subseteq Current
      /\ \A u \in Workers : jobs'[u] = jobs[u] \/ jobs'[u].op \notin {"activate", "grant"}
  BY <1>1, NoJobTyped, BirthStep DEF CreatePending
<1>3. OneMaking'
  BY <1>2, MakingStays DEF CreatePending
<1>. QED
  BY <1>2, <1>3 DEF SubscriptionsInv

LEMMA RenewalRowStep ==
  ASSUME SubscriptionsInv, NEW w \in Workers, RenewalRow(w)
  PROVE  SubscriptionsInv' /\ StepSound
<1> DEFINE job == Job("bill", NextId, jobs[w].plan, {})
<1>1. jobs[w].plan \in Plans
  BY TypeParts DEF SubscriptionsInv, WorkType
<1>2. job \in WorkType /\ job.op = "bill" /\ job.sub = NextId
  BY <1>1, NextIdUnborn, JobTyped DEF Ops, RenewalRow
<1>3. /\ Do(w, job) /\ Unborn # {} /\ UNCHANGED <<unheard, overlap>>
      /\ subs' = [subs EXCEPT ![NextId] = Row(jobs[w].plan, "pending_payment", "none", "none")]
  BY DEF RenewalRow
<1> HIDE DEF job
<1>4. /\ SubscriptionsTypeOK' /\ JobsHeld' /\ LocksApart' /\ RowsSound'
      /\ StepSound
      /\ Current' \subseteq Current
      /\ \A u \in Workers : jobs'[u] = jobs[u] \/ jobs'[u].op \notin {"activate", "grant"}
  BY <1>1, <1>2, <1>3, BirthStep
<1>5. OneMaking'
  BY <1>3, <1>4, MakingStays
<1>. QED
  BY <1>4, <1>5 DEF SubscriptionsInv

\* The free subscription comes when nothing is current, unless another
\* entitlement was in the making.
LEMMA GrantBasicStep ==
  ASSUME SubscriptionsInv, NEW w \in Workers, GrantBasic(w)
  PROVE  SubscriptionsInv' /\ StepSound
<1>1. /\ SubscriptionsTypeOK' /\ JobsHeld' /\ LocksApart' /\ RowsSound'
      /\ StepSound
      /\ Current' \subseteq Current \cup {NextId}
      /\ \A u \in Workers : jobs'[u] = jobs[u] \/ jobs'[u].op \notin {"activate", "grant"}
  BY SubscriptionsAssumption, NoJobTyped, BirthStep DEF GrantBasic
<1>2. ASSUME ~overlap
      PROVE  /\ \A a, b \in Current' : a = b
             /\ Making' = {}
  <2>1. Current = {} /\ \A u, v \in Making : u = v
    BY <1>2 DEF SubscriptionsInv, OneMaking, GrantBasic
  <2>2. w \in Making
    BY DEF GrantBasic, Making
  <2>3. jobs'[w].op = "idle"
    BY NoJobTyped, TypeParts, DoTyped DEF GrantBasic, SubscriptionsInv
  <2>4. \A u \in Workers : jobs'[u].op \in {"activate", "grant"} => u \in Making
    BY <1>1 DEF Making
  <2>5. Making' = {u \in Workers : jobs'[u].op \in {"activate", "grant"}}
    BY DEF Making
  <2>6. Making' = {}
    BY <2>1, <2>2, <2>3, <2>4, <2>5
  <2>. QED
    BY <1>1, <2>1, <2>6
<1>3. OneMaking'
  <2>1. overlap' = overlap
    BY DEF GrantBasic
  <2>2. Making' = {u \in Workers : jobs'[u].op \in {"activate", "grant"}}
    BY DEF Making
  <2>3. ASSUME ~overlap
        PROVE  \A u \in Workers : jobs'[u].op \notin {"activate", "grant"}
    BY <1>2, <2>2, <2>3
  <2>. QED
    BY <1>2, <2>1, <2>3 DEF OneMaking
<1>. QED
  BY <1>1, <1>3 DEF SubscriptionsInv

LEMMA UpdatePendingStep ==
  ASSUME SubscriptionsInv, NEW w \in Workers, UpdatePending(w)
  PROVE  SubscriptionsInv' /\ StepSound
<1> DEFINE i == jobs[w].sub
<1>1. subs \in [Ids -> RowType] /\ overlap \in BOOLEAN
  BY TypeParts DEF SubscriptionsInv
<1>2. i \in Ids /\ (i \in unheard \/ subs[i].inv # "paid")
  BY DEF SubscriptionsInv, JobsHeld, HeldIn, UpdatePending
<1>3. /\ subs' \in [Ids -> RowType]
      /\ \A j \in Ids : /\ subs'[j].inv = subs[j].inv /\ subs'[j].status = subs[j].status
                        /\ subs'[j].plan = subs[j].plan
                        /\ j # i => subs'[j].whole = subs[j].whole
  <2> DEFINE b == subs[i].whole /\ subs[i].inv # "paid"
  <2>1. subs' = [subs EXCEPT ![i].whole = b] /\ b \in BOOLEAN
    BY <1>1, <1>2 DEF UpdatePending, RowType
  <2> HIDE DEF b, i
  <2>. QED
    BY <1>1, <1>2, <2>1 DEF RowType
<1>4. HeldIn(subs', unheard, NoJob) /\ LocksOf(NoJob) = {}
  BY NoJobTyped, LocksOfFree DEF HeldIn
<1>5. Do(w, NoJob) /\ UNCHANGED <<unheard, overlap>>
  BY DEF UpdatePending
<1> HIDE DEF i
<1>6. ASSUME NEW v \in Workers PROVE Respects(v)
  <2>1. \A j \in Ids \ {} :
          /\ subs'[j].inv = subs[j].inv /\ subs'[j].status = subs[j].status
          /\ j \in unheard => j \in unheard'
    BY <1>3, <1>5
  <2>2. Locks(v) \cap {} = {} /\ (jobs[v].op = "bill" => jobs[v].sub \notin {})
    OBVIOUS
  <2>. QED
    BY <2>1, <2>2, FreeRespects
<1>7. SubscriptionsTypeOK' /\ JobsHeld' /\ LocksApart'
  BY <1>1, <1>3, <1>4, <1>5, <1>6, NoJobTyped, WorkerStep
<1>8. RowsSound'
  BY <1>2, <1>3, <1>5 DEF SubscriptionsInv, RowsSound
<1>9. StepSound /\ Current' \subseteq Current
  BY <1>3, PlainSound, CurrentSame
<1>10. OneMaking'
  BY <1>5, <1>9, NoJobTyped, EndsMaking, MakingStays
<1>. QED
  BY <1>7, <1>8, <1>9, <1>10 DEF SubscriptionsInv

\* The renewal bills the row it has made, which nobody could pay before.
LEMMA RenewalInvoiceStep ==
  ASSUME SubscriptionsInv, NEW w \in Workers, RenewalInvoice(w)
  PROVE  SubscriptionsInv' /\ StepSound
<1> DEFINE i == jobs[w].sub
           b == IF subs[i].status = "gone" THEN subs[i].inv ELSE "unpaid"
<1>1. subs \in [Ids -> RowType] /\ overlap \in BOOLEAN
  BY TypeParts DEF SubscriptionsInv
<1>2. i \in Ids /\ subs[i].inv = "none" /\ subs[i].status \in {"pending_payment", "gone"}
  BY DEF SubscriptionsInv, JobsHeld, HeldIn, RenewalInvoice
<1>3. subs' = [subs EXCEPT ![i].inv = b] /\ b \in {"none", "unpaid"}
  BY <1>1, <1>2 DEF RenewalInvoice
<1>4. Do(w, NoJob) /\ UNCHANGED <<unheard, overlap>> /\ Unlocked({i}) /\ jobs[w].op = "bill"
  BY DEF RenewalInvoice
<1>5. \A v \in Workers : v # w /\ jobs[v].op = "bill" => jobs[v].sub # i
  BY <1>4 DEF SubscriptionsInv, LocksApart
<1> HIDE DEF b, i
<1>6. /\ subs' \in [Ids -> RowType]
      /\ subs'[i].inv = b
      /\ \A j \in Ids : /\ j # i => subs'[j] = subs[j]
                        /\ subs'[j].status = subs[j].status
  BY <1>1, <1>2, <1>3 DEF RowType, InvoiceStates
<1>7. HeldIn(subs', unheard, NoJob) /\ LocksOf(NoJob) = {}
  BY NoJobTyped, LocksOfFree DEF HeldIn
<1>8. ASSUME NEW v \in Workers, v # w PROVE Respects(v)
  <2>1. Locks(v) \cap {i} = {} /\ (jobs[v].op = "bill" => jobs[v].sub \notin {i})
    BY <1>4, <1>5, <1>8 DEF Unlocked
  <2>2. \A j \in Ids \ {i} :
          /\ subs'[j].inv = subs[j].inv /\ subs'[j].status = subs[j].status
          /\ j \in unheard => j \in unheard'
    BY <1>4, <1>6
  <2>. QED
    BY <2>1, <2>2, FreeRespects
<1>9. SubscriptionsTypeOK' /\ JobsHeld' /\ LocksApart'
  BY <1>1, <1>4, <1>6, <1>7, <1>8, NoJobTyped, WorkerStep
<1>10. RowsSound'
  <2>1. ASSUME NEW j \in Ids \ unheard'
        PROVE  /\ subs'[j].inv = "paid" => subs'[j].status # "pending_payment" /\ subs'[j].whole
               /\ subs'[j].plan > 0 /\ subs'[j].status \in {"awaiting_review", "active", "grace"}
                    => subs'[j].inv = "paid"
    <3>1. CASE j = i
      BY <1>2, <1>3, <1>6, <3>1
    <3>2. CASE j # i
      BY <1>4, <1>6, <2>1, <3>2 DEF SubscriptionsInv, RowsSound
    <3>. QED
      BY <3>1, <3>2
  <2>. QED
    BY <2>1 DEF RowsSound
<1>11. StepSound /\ Current' \subseteq Current
  BY <1>6, PlainSound, CurrentSame
<1>12. OneMaking'
  BY <1>4, <1>11, NoJobTyped, EndsMaking, MakingStays
<1>. QED
  BY <1>9, <1>10, <1>11, <1>12 DEF SubscriptionsInv

\* What is deleted is what was read under the lock.
LEMMA RemoveStep ==
  ASSUME SubscriptionsInv, NEW w \in Workers, Remove(w)
  PROVE  SubscriptionsInv' /\ StepSound
<1> DEFINE i == jobs[w].sub
<1>1. subs \in [Ids -> RowType] /\ overlap \in BOOLEAN
  BY TypeParts DEF SubscriptionsInv
<1>2. /\ i \in Ids /\ (i \in unheard \/ subs[i].inv # "paid")
      /\ subs[i].status \in {"pending_payment", "expired", "cancelled"}
      /\ jobs[w].others = {}
  BY DEF SubscriptionsInv, JobsHeld, HeldIn, Remove
<1>3. Locks(w) = {i}
  BY <1>2 DEF Locks, Remove
<1>4. Do(w, NoJob) /\ UNCHANGED <<unheard, overlap>> /\ subs' = [subs EXCEPT ![i] = GoneRow]
  BY DEF Remove
<1> HIDE DEF i
<1>5. GoneRow \in RowType /\ GoneRow.status = "gone" /\ GoneRow.inv = "none" /\ GoneRow.plan = 0
  BY SubscriptionsAssumption DEF GoneRow, Row, RowType, RowStates
<1>6. /\ subs' \in [Ids -> RowType]
      /\ subs'[i].status = "gone" /\ subs'[i].inv = "none" /\ subs'[i].plan = 0
      /\ \A j \in Ids : j # i => subs'[j] = subs[j]
  BY <1>1, <1>2, <1>4, <1>5
<1>7. HeldIn(subs', unheard, NoJob) /\ LocksOf(NoJob) = {}
  BY NoJobTyped, LocksOfFree DEF HeldIn
<1>8. ASSUME NEW v \in Workers, v # w PROVE Respects(v)
  <2>1. i \notin Locks(v)
    BY <1>3, <1>8 DEF SubscriptionsInv, LocksApart
  <2>2. HeldIn(subs, unheard, jobs[v])
    BY DEF SubscriptionsInv, JobsHeld
  <2>. QED
    BY <1>4, <1>6, <2>1, <2>2 DEF Respects, HeldIn
<1>9. SubscriptionsTypeOK' /\ JobsHeld' /\ LocksApart'
  BY <1>1, <1>4, <1>6, <1>7, <1>8, NoJobTyped, WorkerStep
<1>10. RowsSound'
  <2>1. ASSUME NEW j \in Ids \ unheard'
        PROVE  /\ subs'[j].inv = "paid" => subs'[j].status # "pending_payment" /\ subs'[j].whole
               /\ subs'[j].plan > 0 /\ subs'[j].status \in {"awaiting_review", "active", "grace"}
                    => subs'[j].inv = "paid"
    <3>1. CASE j = i
      BY <1>6, <3>1
    <3>2. CASE j # i
      BY <1>4, <1>6, <2>1, <3>2 DEF SubscriptionsInv, RowsSound
    <3>. QED
      BY <3>1, <3>2
  <2>. QED
    BY <2>1 DEF RowsSound
<1>11. StepSound /\ Current' \subseteq Current
  BY <1>2, <1>6, PlainSound, CurrentSame
<1>12. OneMaking'
  BY <1>4, <1>11, NoJobTyped, EndsMaking, MakingStays
<1>. QED
  BY <1>9, <1>10, <1>11, <1>12 DEF SubscriptionsInv

\* The activated subscription takes the place of all that were current.
LEMMA ActivateStep ==
  ASSUME SubscriptionsInv, NEW w \in Workers, Activate(w)
  PROVE  SubscriptionsInv' /\ StepSound
<1> DEFINE i == jobs[w].sub
           others == jobs[w].others
           c == IF subs[i].status = "active" THEN subs[i].clock ELSE "running"
           rows == [subs EXCEPT ![i].status = "active", ![i].clock = c]
<1>1. subs \in [Ids -> RowType] /\ overlap \in BOOLEAN
  BY TypeParts DEF SubscriptionsInv
<1>2. /\ i \in Ids /\ subs[i].inv = "paid" /\ subs[i].status \in {"awaiting_review", "active"}
      /\ others \subseteq Current \ {i}
  BY DEF SubscriptionsInv, JobsHeld, HeldIn, Activate, Current
<1>3. Locks(w) = {i} \cup others
  BY DEF Locks, Activate
<1>4. /\ Do(w, NoJob) /\ UNCHANGED <<unheard, overlap>> /\ w \in Making
      /\ subs' = Cancelled([subs EXCEPT ![i].status = "active",
                                        ![i].clock = IF subs[i].status = "active" THEN @ ELSE "running"],
                           others)
  BY DEF Activate, Activated, Making
<1>5. subs' = Cancelled(rows, others)
  <2>1. [subs EXCEPT ![i].status = "active",
                     ![i].clock = IF subs[i].status = "active" THEN @ ELSE "running"] = rows
    <3> HIDE DEF i
    <3>. QED
      BY <1>1, <1>2
  <2>. QED
    BY <1>4, <2>1
<1>6. c \in {"none", "running", "ended", "over"}
  BY <1>1, <1>2 DEF RowType
<1>7. ~overlap => Current \subseteq {i} \cup others /\ Making = {w}
  BY <1>4 DEF SubscriptionsInv, OneMaking, Activate
<1> HIDE DEF i, others, c
<1>8. /\ rows \in [Ids -> RowType]
      /\ rows[i].status = "active" /\ rows[i].inv = subs[i].inv
      /\ rows[i].whole = subs[i].whole /\ rows[i].plan = subs[i].plan
      /\ \A j \in Ids : j # i => rows[j] = subs[j]
  BY <1>1, <1>2, <1>6 DEF RowType, RowStates, SubStatus
<1> HIDE DEF rows
<1>9. /\ subs' \in [Ids -> RowType]
      /\ subs'[i] = rows[i]
      /\ \A j \in Ids : j # i /\ j \notin others => subs'[j] = subs[j]
      /\ \A j \in Ids : j \in others => subs'[j] = [subs[j] EXCEPT !.status = "cancelled"]
  BY <1>2, <1>5, <1>8, CancelledRows
<1>10. \A j \in Ids : j # i => Dropped(subs, subs', j)
  BY <1>2, <1>9 DEF Dropped, Current
<1>11. HeldIn(subs', unheard, NoJob) /\ LocksOf(NoJob) = {}
  BY NoJobTyped, LocksOfFree DEF HeldIn
<1>12. ASSUME NEW v \in Workers, v # w PROVE Respects(v)
  <2>1. Locks(v) \cap ({i} \cup others) = {}
    BY <1>3, <1>12 DEF SubscriptionsInv, LocksApart
  <2>2. jobs[v].op = "bill" => jobs[v].sub \notin {i} \cup others
    BY <1>2, CurrentNotBilled
  <2>3. \A j \in Ids \ ({i} \cup others) :
          /\ subs'[j].inv = subs[j].inv /\ subs'[j].status = subs[j].status
          /\ j \in unheard => j \in unheard'
    BY <1>4, <1>9
  <2>. QED
    BY <2>1, <2>2, <2>3, FreeRespects
<1>13. SubscriptionsTypeOK' /\ JobsHeld' /\ LocksApart'
  BY <1>1, <1>4, <1>9, <1>11, <1>12, NoJobTyped, WorkerStep
<1>14. RowsSound'
  <2>1. ASSUME NEW j \in Ids \ unheard'
        PROVE  /\ subs'[j].inv = "paid" => subs'[j].status # "pending_payment" /\ subs'[j].whole
               /\ subs'[j].plan > 0 /\ subs'[j].status \in {"awaiting_review", "active", "grace"}
                    => subs'[j].inv = "paid"
    <3>1. CASE j = i
      BY <1>2, <1>4, <1>8, <1>9, <2>1, <3>1 DEF SubscriptionsInv, RowsSound
    <3>2. CASE j # i
      <4>1. /\ subs'[j].inv = subs[j].inv /\ subs'[j].whole = subs[j].whole
            /\ subs'[j].plan = subs[j].plan
            /\ subs'[j].status = subs[j].status \/ subs'[j].status = "cancelled"
        BY <1>1, <1>9, <1>10, <3>2, DroppedFields
      <4>. QED
        BY <1>4, <2>1, <4>1 DEF SubscriptionsInv, RowsSound
    <3>. QED
      BY <3>1, <3>2
  <2>. QED
    BY <2>1 DEF RowsSound
<1>15. \A j \in Ids : j # i =>
         /\ subs'[j].status = subs[j].status
              \/ (subs[j].status \in {"active", "grace"} /\ subs'[j].status = "cancelled")
         /\ j \in others => subs'[j].status = "cancelled"
  <2>1. \A j \in Ids : j \in others => subs[j].status \in {"active", "grace"}
    BY <1>2 DEF Current, CurrentIn
  <2>2. \A j \in Ids : j \in others => subs'[j].status = "cancelled"
    BY <1>1, <1>9 DEF RowType
  <2>. QED
    BY <1>9, <2>1, <2>2
<1>16. StepSound
  <2>1. subs'[i].status = "active"
    BY <1>8, <1>9
  <2>2. NotRevived
    BY <1>2, <1>15, <2>1 DEF NotRevived
  <2>3. StillServed
    BY <1>2, <2>1 DEF StillServed, CurrentIn
  <2>4. NoneDeleted
    BY <1>2, <1>15, <2>1 DEF NoneDeleted, Made
  <2>. QED
    BY <2>2, <2>3, <2>4 DEF StepSound
<1>17. OneMaking'
  <2>1. ASSUME ~overlap PROVE Current' \subseteq {i}
    <3>1. Current' = {j \in Ids : subs'[j].status \in {"active", "grace"}}
      BY DEF Current, CurrentIn
    <3>2. \A j \in Ids : j \notin Current => subs[j].status \notin {"active", "grace"}
      BY DEF Current, CurrentIn
    <3>. QED
      BY <1>7, <1>15, <2>1, <3>1, <3>2
  <2>2. ASSUME ~overlap, NEW v \in Workers PROVE jobs'[v].op \notin {"activate", "grant"}
    <3>1. CASE v = w
      BY <1>4, <3>1, NoJobTyped, TypeParts, DoTyped DEF SubscriptionsInv
    <3>2. CASE v # w
      BY <1>4, <1>7, <2>2, <3>2, NoJobTyped, EndsMaking DEF Making
    <3>. QED
      BY <3>1, <3>2
  <2>3. ~overlap => Making' = {}
    BY <2>2 DEF Making
  <2>4. overlap' = overlap
    BY <1>4
  <2>. QED
    BY <2>1, <2>2, <2>3, <2>4 DEF OneMaking
<1>. QED
  BY <1>13, <1>14, <1>16, <1>17 DEF SubscriptionsInv

-----------------------------------------------------------------------------
(* Steps that look for the effective subscription *)

\* Rows that are locked by nobody may be dropped.
LEMMA DroppedRespects ==
  ASSUME SubscriptionsInv, NEW v \in Workers, subs' \in [Ids -> RowType],
         NEW C, Unlocked(C \cup Current), jobs[v].op = "bill" => jobs[v].sub \notin C,
         \A j \in Ids \ C : Dropped(subs, subs', j) /\ (j \in unheard => j \in unheard')
  PROVE  Respects(v)
<1>1. subs \in [Ids -> RowType]
  BY TypeParts DEF SubscriptionsInv
<1>2. Locks(v) \cap (C \cup Current) = {}
  BY DEF Unlocked
<1>3. jobs[v].op = "bill" => jobs[v].sub \notin C \cup Current
  BY CurrentNotBilled
<1>4. \A j \in Ids \ (C \cup Current) :
        /\ subs'[j].inv = subs[j].inv /\ subs'[j].status = subs[j].status
        /\ j \in unheard => j \in unheard'
  BY DEF Dropped, Current
<1>. QED
  BY <1>2, <1>3, <1>4, FreeRespects

\* Normalising the rows as they are
LEMMA NormalizingRows ==
  ASSUME SubscriptionsInv, UNCHANGED unheard, Unlocked(Current), NEW p, subs' \in Normalized(subs, p)
  PROVE  /\ subs' \in [Ids -> RowType]
         /\ \A v \in Workers : Respects(v)
         /\ RowsSound'
         /\ StepSound
         /\ Current' \subseteq Current
<1>1. subs \in [Ids -> RowType]
  BY TypeParts DEF SubscriptionsInv
<1>2. /\ subs' \in [Ids -> RowType]
      /\ \A i \in Ids : Dropped(subs, subs', i)
      /\ Current # {} => \E e \in Current : subs'[e] = subs[e]
  BY <1>1, NormalizedKeeps DEF Current
<1>3. ASSUME NEW v \in Workers PROVE Respects(v)
  <2>1. Unlocked({} \cup Current) /\ (jobs[v].op = "bill" => jobs[v].sub \notin {})
    BY DEF Unlocked
  <2>2. \A j \in Ids \ {} : Dropped(subs, subs', j) /\ (j \in unheard => j \in unheard')
    BY <1>2
  <2>. QED
    BY <1>2, <2>1, <2>2, DroppedRespects
<1>4. RowsSound'
  BY <1>2, RowsStay
<1>5. StepSound /\ Current' \subseteq Current
  BY <1>2, DroppingSound
<1>. QED
  BY <1>2, <1>3, <1>4, <1>5

LEMMA NormalizeCommandStep ==
  ASSUME SubscriptionsInv, NormalizeCommand
  PROVE  SubscriptionsInv' /\ StepSound
<1>1. /\ subs' \in [Ids -> RowType] /\ \A v \in Workers : Respects(v)
      /\ RowsSound' /\ StepSound /\ Current' \subseteq Current
  BY NormalizingRows DEF NormalizeCommand
<1>2. SubscriptionsTypeOK' /\ JobsHeld' /\ LocksApart'
  BY <1>1, TypeParts, OtherStep DEF NormalizeCommand, SubscriptionsInv
<1>3. OneMaking'
  BY <1>1, MakingStays DEF NormalizeCommand
<1>. QED
  BY <1>1, <1>2, <1>3 DEF SubscriptionsInv

\* A grant begins when nothing is current, and alone unless that is noted.
LEMMA EnsureBasicStep ==
  ASSUME SubscriptionsInv, NEW w \in Workers, EnsureBasic(w)
  PROVE  SubscriptionsInv' /\ StepSound
<1>1. /\ subs' \in [Ids -> RowType] /\ \A v \in Workers : Respects(v)
      /\ RowsSound' /\ StepSound /\ Current' \subseteq Current
  BY NormalizingRows DEF EnsureBasic
<1>2. CASE Current # {} /\ Do(w, NoJob) /\ UNCHANGED overlap
  <2>1. HeldIn(subs', unheard, NoJob) /\ LocksOf(NoJob) = {}
    BY NoJobTyped, LocksOfFree DEF HeldIn
  <2>2. SubscriptionsTypeOK' /\ JobsHeld' /\ LocksApart'
    BY <1>1, <1>2, <2>1, NoJobTyped, TypeParts, WorkerStep DEF EnsureBasic, SubscriptionsInv
  <2>3. OneMaking'
    BY <1>1, <1>2, NoJobTyped, EndsMaking, MakingStays
  <2>. QED
    BY <1>1, <2>2, <2>3 DEF SubscriptionsInv
<1>3. CASE Current = {} /\ NoteOverlap(w) /\ Do(w, Job("grant", 0, 0, {}))
  <2> DEFINE job == Job("grant", 0, 0, {})
  <2>1. job \in WorkType /\ job.op = "grant"
    BY SubscriptionsAssumption, JobTyped DEF Ops
  <2>2. Do(w, job) /\ UNCHANGED unheard
    BY <1>3 DEF EnsureBasic
  <2> HIDE DEF job
  <2>3. HeldIn(subs', unheard, job) /\ LocksOf(job) = {}
    BY <2>1, LocksOfFree DEF HeldIn
  <2>4. overlap' \in BOOLEAN
    BY <1>3, TypeParts DEF NoteOverlap, SubscriptionsInv
  <2>5. SubscriptionsTypeOK' /\ JobsHeld' /\ LocksApart'
    BY <1>1, <2>1, <2>2, <2>3, <2>4, WorkerStep
  <2>6. OneMaking'
    <3>1. Current' = {}
      BY <1>1, <1>3
    <3>2. jobs'[w] = job /\ \A v \in Workers : v # w => jobs'[v] = jobs[v]
      BY <2>1, <2>2, TypeParts, DoTyped DEF SubscriptionsInv
    <3>3. ~overlap' => Making \subseteq {w}
      BY <1>3 DEF NoteOverlap
    <3>4. \A v \in Making' : v = w \/ v \in Making
      BY <3>2 DEF Making
    <3>. QED
      BY <3>1, <3>3, <3>4 DEF OneMaking
  <2>. QED
    BY <1>1, <2>5, <2>6 DEF SubscriptionsInv
<1>. QED
  BY <1>2, <1>3 DEF EnsureBasic

\* Time is nobody's lock to keep, and no status.
LEMMA ElapseStep ==
  ASSUME SubscriptionsInv, NEW i \in Ids, Elapse(i)
  PROVE  SubscriptionsInv' /\ StepSound
<1> DEFINE c == IF subs[i].clock = "running" THEN "ended" ELSE "over"
<1>1. subs \in [Ids -> RowType] /\ unheard \subseteq Ids
  BY TypeParts DEF SubscriptionsInv
<1>2. UNCHANGED <<jobs, unheard, overlap>> /\ subs' = [subs EXCEPT ![i].clock = c]
  BY DEF Elapse
<1>3. c \in {"none", "running", "ended", "over"}
  OBVIOUS
<1> HIDE DEF c
<1>4. /\ subs' \in [Ids -> RowType]
      /\ \A j \in Ids : /\ subs'[j].inv = subs[j].inv /\ subs'[j].status = subs[j].status
                        /\ subs'[j].plan = subs[j].plan /\ subs'[j].whole = subs[j].whole
  BY <1>1, <1>2, <1>3 DEF RowType
<1>5. ASSUME NEW v \in Workers PROVE Respects(v)
  <2>1. \A j \in Ids \ {} :
          /\ subs'[j].inv = subs[j].inv /\ subs'[j].status = subs[j].status
          /\ j \in unheard => j \in unheard'
    BY <1>2, <1>4
  <2>2. Locks(v) \cap {} = {} /\ (jobs[v].op = "bill" => jobs[v].sub \notin {})
    OBVIOUS
  <2>. QED
    BY <2>1, <2>2, FreeRespects
<1>6. SubscriptionsTypeOK' /\ JobsHeld' /\ LocksApart'
  BY <1>1, <1>2, <1>4, <1>5, OtherStep
<1>7. RowsSound'
  BY <1>2, <1>4 DEF SubscriptionsInv, RowsSound
<1>8. StepSound /\ Current' \subseteq Current
  BY <1>4, PlainSound, CurrentSame
<1>9. OneMaking'
  BY <1>2, <1>8, MakingStays
<1>. QED
  BY <1>6, <1>7, <1>8, <1>9 DEF SubscriptionsInv

\* One row changes, which nobody has locked, and current ones may be dropped.
LEMMA RefreshStep ==
  ASSUME SubscriptionsInv, Refresh
  PROVE  SubscriptionsInv' /\ StepSound
<1>1. subs \in [Ids -> RowType] /\ unheard \subseteq Ids
  BY TypeParts DEF SubscriptionsInv
<1>2. PICK i \in Ids : /\ RefreshDue(i) /\ Unlocked({i} \cup Current) /\ subs' \in Refreshed(i)
  <2>1. Made \in SUBSET Ids
    BY DEF Made
  <2>. QED
    BY <2>1, LatestIsOne DEF Refresh
<1>3. subs[i].status \in {"active", "grace"} /\ i \in Current
  BY <1>2 DEF RefreshDue, Current, CurrentIn
<1>4. PICK s \in {"grace", "expired"}, p \in {0, i} :
        /\ subs' \in Normalized([subs EXCEPT ![i].status = s], p)
        /\ s = "grace" => p = i
        /\ s = "expired" => subs[i].status = "grace" /\ subs[i].clock = "over"
  <2>1. CASE subs[i].status = "active"
    BY <1>2, <2>1 DEF Refreshed
  <2>2. CASE subs[i].status = "grace"
    BY <1>2, <2>2 DEF Refreshed, RefreshDue
  <2>. QED
    BY <1>3, <2>1, <2>2
<1> DEFINE rows == [subs EXCEPT ![i].status = s]
<1>5. /\ rows \in [Ids -> RowType]
      /\ rows[i].status = s /\ rows[i].inv = subs[i].inv
      /\ rows[i].whole = subs[i].whole /\ rows[i].plan = subs[i].plan
      /\ \A j \in Ids : j # i => rows[j] = subs[j]
  BY <1>1 DEF RowType, RowStates, SubStatus
<1>6. subs' \in Normalized(rows, p)
  BY <1>4
<1> HIDE DEF rows
<1>7. /\ subs' \in [Ids -> RowType]
      /\ \A j \in Ids : Dropped(rows, subs', j)
      /\ p \in CurrentIn(rows) => subs'[p] = rows[p]
      /\ CurrentIn(rows) # {} => \E e \in CurrentIn(rows) : subs'[e] = rows[e]
  BY <1>5, <1>6, NormalizedKeeps
<1>8. \A j \in Ids : j # i => Dropped(subs, subs', j)
  BY <1>5, <1>7 DEF Dropped, CurrentIn
<1>9. /\ subs'[i].inv = subs[i].inv /\ subs'[i].whole = subs[i].whole
      /\ subs'[i].plan = subs[i].plan
      /\ subs'[i].status = s
  <2>1. CASE s = "grace"
    <3>1. i \in CurrentIn(rows)
      BY <1>5, <2>1 DEF CurrentIn
    <3>. QED
      BY <1>4, <1>5, <1>7, <2>1, <3>1
  <2>2. CASE s = "expired"
    <3>1. i \notin CurrentIn(rows)
      BY <1>5, <2>2 DEF CurrentIn
    <3>. QED
      BY <1>5, <1>7, <3>1 DEF Dropped
  <2>. QED
    BY <2>1, <2>2
<1>10. ASSUME NEW v \in Workers PROVE Respects(v)
  <2>1. jobs[v].op = "bill" => jobs[v].sub \notin {i}
    BY <1>3, CurrentNotBilled
  <2>2. \A j \in Ids \ {i} : Dropped(subs, subs', j) /\ (j \in unheard => j \in unheard')
    BY <1>8 DEF Refresh
  <2>. QED
    BY <1>2, <1>7, <2>1, <2>2, DroppedRespects
<1>11. SubscriptionsTypeOK' /\ JobsHeld' /\ LocksApart'
  BY <1>1, <1>7, <1>10, OtherStep DEF Refresh
<1>12. \A j \in Ids : j # i =>
         /\ subs'[j].inv = subs[j].inv /\ subs'[j].whole = subs[j].whole
         /\ subs'[j].plan = subs[j].plan
         /\ subs'[j].status = subs[j].status
              \/ (subs[j].status \in {"active", "grace"} /\ subs'[j].status = "cancelled")
  BY <1>1, <1>7, <1>8, DroppedFields DEF CurrentIn
<1>13. RowsSound'
  BY <1>3, <1>9, <1>12 DEF SubscriptionsInv, RowsSound, Refresh
<1>14. Current' \subseteq Current
  BY <1>3, <1>12, CurrentSame
<1>15. StepSound
  <2>1. NotRevived
    BY <1>3, <1>9, <1>12 DEF NotRevived
  <2>2. StillServed
    <3>1. CASE s = "grace"
      BY <1>9, <3>1 DEF StillServed, CurrentIn
    <3>2. CASE s = "expired"
      BY <1>3, <1>4, <1>9, <3>2 DEF StillServed
    <3>. QED
      BY <3>1, <3>2
  <2>3. NoneDeleted
    BY <1>9, <1>12 DEF NoneDeleted, Made
  <2>. QED
    BY <2>1, <2>2, <2>3 DEF StepSound
<1>16. OneMaking'
  BY <1>14, MakingStays DEF Refresh
<1>. QED
  BY <1>11, <1>13, <1>15, <1>16 DEF SubscriptionsInv

-----------------------------------------------------------------------------
(* Steps of billing, and the activation *)

LEMMA InvoicedRows ==
  ASSUME subs \in [Ids -> RowType], NEW i \in Ids, NEW state \in InvoiceStates
  PROVE  /\ WithInvoice(i, state) \in [Ids -> RowType]
         /\ WithInvoice(i, state)[i].inv = state
         /\ WithInvoice(i, state)[i].whole = TRUE
         /\ WithInvoice(i, state)[i].status = subs[i].status
         /\ WithInvoice(i, state)[i].plan = subs[i].plan
         /\ \A j \in Ids : j # i => WithInvoice(i, state)[j] = subs[j]
  BY DEF WithInvoice, RowType

\* What becomes of the status under the receiver
Answered(status, state) ==
    IF state = "paid" THEN IF status = "pending_payment" THEN "awaiting_review" ELSE status
    ELSE IF status \in {"awaiting_review", "active", "grace"} THEN "pending_payment" ELSE status

LEMMA ReactedRows ==
  ASSUME subs \in [Ids -> RowType], NEW i \in Ids, NEW state \in InvoiceStates,
         NEW new \in Reacted(WithInvoice(i, state), i)
  PROVE  /\ new \in [Ids -> RowType]
         /\ new[i].inv = state /\ new[i].whole = TRUE /\ new[i].plan = subs[i].plan
         /\ new[i].status = Answered(subs[i].status, state)
         /\ \A j \in Ids : j # i => Dropped(subs, new, j)
         /\ state = "paid" \/ subs[i].status \notin {"active", "grace"}
              => \A j \in Ids : j # i => new[j] = subs[j]
<1> DEFINE base == WithInvoice(i, state)
<1>1. /\ base \in [Ids -> RowType]
      /\ base[i].inv = state /\ base[i].whole = TRUE
      /\ base[i].status = subs[i].status /\ base[i].plan = subs[i].plan
      /\ \A j \in Ids : j # i => base[j] = subs[j]
  BY InvoicedRows
<1>2. new \in Reacted(base, i)
  OBVIOUS
<1> HIDE DEF base
<1>3. ASSUME NEW s \in RowStates, new = [base EXCEPT ![i].status = s]
      PROVE  /\ new \in [Ids -> RowType]
             /\ new[i].inv = state /\ new[i].whole = TRUE /\ new[i].plan = subs[i].plan
             /\ new[i].status = s
             /\ \A j \in Ids : j # i => new[j] = subs[j]
  BY <1>1, <1>3 DEF RowType
<1>4. \A s \in {"pending_payment", "awaiting_review"} : s \in RowStates
  BY DEF RowStates, SubStatus
<1>5. subs[i].status \in RowStates
  BY DEF RowType
<1>6. CASE state = "paid"
  <2> DEFINE s == IF base[i].status = "pending_payment" THEN "awaiting_review" ELSE base[i].status
  <2>1. new = [base EXCEPT ![i].status = s]
    BY <1>1, <1>2, <1>6 DEF Reacted, Applied
  <2>2. s \in RowStates
    BY <1>1, <1>4, <1>5
  <2>3. s = Answered(subs[i].status, state)
    BY <1>1, <1>6 DEF Answered
  <2> HIDE DEF s
  <2>. QED
    BY <1>3, <2>1, <2>2, <2>3 DEF Dropped
<1>7. CASE state # "paid" /\ subs[i].status = "awaiting_review"
  <2>1. new = [base EXCEPT ![i].status = "pending_payment"]
    BY <1>1, <1>2, <1>7 DEF Reacted, Revoked
  <2>2. Answered(subs[i].status, state) = "pending_payment"
    BY <1>7 DEF Answered
  <2>. QED
    BY <1>3, <1>4, <2>1, <2>2 DEF Dropped
<1>8. CASE state # "paid" /\ subs[i].status \in {"active", "grace"}
  <2> DEFINE rows == [base EXCEPT ![i].status = "pending_payment", ![i].clock = "none"]
  <2>1. new \in Normalized(rows, 0)
    BY <1>1, <1>2, <1>8 DEF Reacted, Revoked
  <2>2. /\ rows \in [Ids -> RowType]
        /\ rows[i].inv = state /\ rows[i].whole = TRUE /\ rows[i].plan = subs[i].plan
        /\ rows[i].status = "pending_payment"
        /\ \A j \in Ids : j # i => rows[j] = subs[j]
    BY <1>1, <1>4 DEF RowType
  <2> HIDE DEF rows
  <2>3. new \in [Ids -> RowType] /\ \A j \in Ids : Dropped(rows, new, j)
    BY <2>1, <2>2, NormalizedKeeps
  <2>4. new[i] = rows[i]
    BY <2>2, <2>3 DEF Dropped, CurrentIn
  <2>5. \A j \in Ids : j # i => Dropped(subs, new, j)
    BY <2>2, <2>3 DEF Dropped, CurrentIn
  <2>6. Answered(subs[i].status, state) = "pending_payment"
    BY <1>8 DEF Answered
  <2>. QED
    BY <1>8, <2>2, <2>3, <2>4, <2>5, <2>6
<1>9. CASE state # "paid" /\ subs[i].status \notin {"awaiting_review", "active", "grace"}
  <2>1. new = base
    BY <1>1, <1>2, <1>9 DEF Reacted, Revoked
  <2>2. Answered(subs[i].status, state) = subs[i].status
    BY <1>9 DEF Answered
  <2>. QED
    BY <1>1, <2>1, <2>2 DEF Dropped
<1>. QED
  BY <1>6, <1>7, <1>8, <1>9

\* The receiver brings the subscription in line with its invoice, and takes a
\* current one away only when the payment is gone.
LEMMA SaveInvoiceStep ==
  ASSUME SubscriptionsInv, NEW i \in Ids, NEW state \in InvoiceStates, SaveInvoice(i, state)
  PROVE  SubscriptionsInv' /\ StepSound
<1>1. subs \in [Ids -> RowType] /\ unheard \subseteq Ids
  BY TypeParts DEF SubscriptionsInv
<1>2. /\ i \in Made /\ subs[i].inv # "none" /\ Unlocked({i})
      /\ unheard' = unheard \ {i} /\ UNCHANGED <<jobs, overlap>>
      /\ subs' \in Reacted(WithInvoice(i, state), i)
      /\ subs[i].status \in {"active", "grace"} /\ state # "paid" => Unlocked(Current)
  BY DEF SaveInvoice, Invoiced
<1>3. /\ subs' \in [Ids -> RowType]
      /\ subs'[i].inv = state /\ subs'[i].whole = TRUE /\ subs'[i].plan = subs[i].plan
      /\ subs'[i].status = Answered(subs[i].status, state)
      /\ \A j \in Ids : j # i => Dropped(subs, subs', j)
      /\ state = "paid" \/ subs[i].status \notin {"active", "grace"}
           => \A j \in Ids : j # i => subs'[j] = subs[j]
  <2>1. subs' \in Reacted(WithInvoice(i, state), i)
    BY <1>2
  <2>. QED
    BY <1>1, <2>1, ReactedRows, Zenon
<1>4. ASSUME NEW v \in Workers PROVE Respects(v)
  <2>1. jobs[v].op = "bill" => jobs[v].sub \notin {i}
    BY <1>2, CurrentNotBilled
  <2>2. CASE subs[i].status \in {"active", "grace"} /\ state # "paid"
    <3>1. Unlocked({i} \cup Current)
      BY <1>2, <2>2 DEF Unlocked
    <3>2. \A j \in Ids \ {i} : Dropped(subs, subs', j) /\ (j \in unheard => j \in unheard')
      BY <1>2, <1>3
    <3>. QED
      BY <1>3, <2>1, <3>1, <3>2, DroppedRespects
  <2>3. CASE ~(subs[i].status \in {"active", "grace"} /\ state # "paid")
    <3>1. Locks(v) \cap {i} = {}
      BY <1>2 DEF Unlocked
    <3>2. \A j \in Ids \ {i} :
            /\ subs'[j].inv = subs[j].inv /\ subs'[j].status = subs[j].status
            /\ j \in unheard => j \in unheard'
      BY <1>2, <1>3, <2>3
    <3>. QED
      BY <2>1, <3>1, <3>2, FreeRespects
  <2>. QED
    BY <2>2, <2>3
<1>5. SubscriptionsTypeOK' /\ JobsHeld' /\ LocksApart'
  BY <1>1, <1>2, <1>3, <1>4, OtherStep
<1>6. \A j \in Ids : j # i =>
        /\ subs'[j].inv = subs[j].inv /\ subs'[j].whole = subs[j].whole
        /\ subs'[j].plan = subs[j].plan
        /\ subs'[j].status = subs[j].status
             \/ (subs[j].status \in {"active", "grace"} /\ subs'[j].status = "cancelled")
  BY <1>1, <1>3, DroppedFields DEF CurrentIn
<1>7. RowsSound'
  <2>1. ASSUME NEW j \in Ids \ unheard'
        PROVE  /\ subs'[j].inv = "paid" => subs'[j].status # "pending_payment" /\ subs'[j].whole
               /\ subs'[j].plan > 0 /\ subs'[j].status \in {"awaiting_review", "active", "grace"}
                    => subs'[j].inv = "paid"
    <3>1. CASE j = i
      BY <1>3, <3>1 DEF Answered
    <3>2. CASE j # i
      BY <1>2, <1>6, <2>1, <3>2 DEF SubscriptionsInv, RowsSound
    <3>. QED
      BY <3>1, <3>2
  <2>. QED
    BY <2>1 DEF RowsSound
<1>8. Current' \subseteq Current
  BY <1>3, <1>6, CurrentSame DEF Answered
<1>9. StepSound
  <2>1. NotRevived
    BY <1>3, <1>6 DEF NotRevived, Answered
  <2>2. StillServed
    <3>1. CASE subs[i].status \in {"active", "grace"} /\ state # "paid"
      BY <1>3, <3>1 DEF StillServed, Answered, Current, CurrentIn
    <3>2. CASE ~(subs[i].status \in {"active", "grace"} /\ state # "paid")
      <4>1. \A j \in Ids : subs[j].status \in {"active", "grace"} => subs'[j].status = subs[j].status
        BY <1>3, <3>2 DEF Answered
      <4>. QED
        BY <4>1 DEF StillServed, Current, CurrentIn
    <3>. QED
      BY <3>1, <3>2
  <2>3. NoneDeleted
    BY <1>2, <1>3, <1>6 DEF NoneDeleted, Made, Answered
  <2>. QED
    BY <2>1, <2>2, <2>3 DEF StepSound
<1>10. OneMaking'
  BY <1>2, <1>8, MakingStays
<1>. QED
  BY <1>5, <1>7, <1>9, <1>10 DEF SubscriptionsInv

\* The receiver that loses changes no status.
LEMMA SaveInvoiceUnheardStep ==
  ASSUME SubscriptionsInv, NEW i \in Ids, NEW state \in InvoiceStates, SaveInvoiceUnheard(i, state)
  PROVE  SubscriptionsInv' /\ StepSound
<1>1. subs \in [Ids -> RowType] /\ unheard \subseteq Ids
  BY TypeParts DEF SubscriptionsInv
<1>2. /\ subs[i].inv # "none" /\ unheard' = unheard \cup {i} /\ UNCHANGED <<jobs, overlap>>
      /\ subs' = WithInvoice(i, state)
  BY DEF SaveInvoiceUnheard, Invoiced
<1>3. PICK w \in Workers : jobs[w].op \in {"update", "remove"} /\ jobs[w].sub = i
  BY DEF SaveInvoiceUnheard
<1>4. /\ subs' \in [Ids -> RowType]
      /\ subs'[i].status = subs[i].status
      /\ \A j \in Ids : j # i => subs'[j] = subs[j]
  BY <1>1, <1>2, InvoicedRows
<1>5. ASSUME NEW v \in Workers PROVE Respects(v)
  <2>1. i \in Locks(w)
    BY <1>3 DEF Locks
  <2>2. i \in Locks(v) => jobs[v].op # "activate"
    BY <1>3, <2>1 DEF SubscriptionsInv, LocksApart
  <2>3. HeldIn(subs, unheard, jobs[v])
    BY DEF SubscriptionsInv, JobsHeld
  <2>4. jobs[v].op = "bill" => jobs[v].sub # i
    BY <1>2, CurrentNotBilled
  <2>. QED
    BY <1>2, <1>4, <2>2, <2>3, <2>4 DEF Respects, HeldIn
<1>6. SubscriptionsTypeOK' /\ JobsHeld' /\ LocksApart'
  BY <1>1, <1>2, <1>4, <1>5, OtherStep
<1>7. RowsSound'
  <2>1. \A j \in Ids \ unheard' : j \notin unheard /\ Dropped(subs, subs', j)
    BY <1>2, <1>4 DEF Dropped
  <2>. QED
    BY <1>4, <2>1, RowsStay
<1>8. StepSound /\ Current' \subseteq Current
  BY <1>4, PlainSound, CurrentSame
<1>9. OneMaking'
  BY <1>2, <1>8, MakingStays
<1>. QED
  BY <1>6, <1>7, <1>8, <1>9 DEF SubscriptionsInv

\* The activation locks all that is current, and notes whether another
\* entitlement was in the making.
LEMMA StartActivationStep ==
  ASSUME SubscriptionsInv, NEW w \in Workers, NEW i \in Ids, StartActivation(w, i)
  PROVE  SubscriptionsInv' /\ StepSound
<1> DEFINE s == IF subs[i].status = "pending_payment" THEN "awaiting_review" ELSE subs[i].status
           job == Job("activate", i, 0, Current \ {i})
<1>1. subs \in [Ids -> RowType] /\ unheard \subseteq Ids
  BY TypeParts DEF SubscriptionsInv
<1>2. /\ subs[i].inv = "paid" /\ subs[i].status \in {"pending_payment", "awaiting_review", "active"}
      /\ Unlocked({i} \cup Current) /\ UNCHANGED unheard
      /\ Do(w, job) /\ NoteOverlap(w)
      /\ subs' = [subs EXCEPT ![i].status = s]
  BY <1>1 DEF StartActivation, Applied
<1>3. /\ job \in WorkType /\ job.op = "activate" /\ job.sub = i /\ job.others = Current \ {i}
  <2>1. Current \ {i} \in SUBSET Ids
    BY DEF Current, CurrentIn
  <2>. QED
    BY <2>1, SubscriptionsAssumption, JobTyped DEF Ops
<1>4. /\ s \in {"awaiting_review", "active"} /\ s \in RowStates
      /\ s = subs[i].status \/ subs[i].status = "pending_payment"
      /\ s = "active" => subs[i].status = "active"
  BY <1>2 DEF RowStates, SubStatus
<1> HIDE DEF s, job
<1>5. /\ subs' \in [Ids -> RowType]
      /\ subs'[i].status = s /\ subs'[i].inv = subs[i].inv
      /\ subs'[i].whole = subs[i].whole /\ subs'[i].plan = subs[i].plan
      /\ \A j \in Ids : j # i => subs'[j] = subs[j]
  BY <1>1, <1>2, <1>4 DEF RowType
<1>6. Current' = Current
  BY <1>4, <1>5 DEF Current, CurrentIn
<1>7. LocksOf(job) = {i} \cup Current
  BY <1>3 DEF LocksOf
<1>8. HeldIn(subs', unheard, job)
  <2>1. job.others \subseteq CurrentIn(subs') \ {job.sub}
    BY <1>3, <1>6 DEF Current
  <2>. QED
    BY <1>2, <1>3, <1>4, <1>5, <2>1 DEF HeldIn
<1>9. ASSUME NEW v \in Workers PROVE Respects(v) /\ LocksOf(job) \cap Locks(v) = {}
  <2>1. Locks(v) \cap ({i} \cup Current) = {}
    BY <1>2 DEF Unlocked
  <2>2. Locks(v) \cap {i} = {} /\ (jobs[v].op = "bill" => jobs[v].sub \notin {i})
    BY <1>2, <2>1, CurrentNotBilled
  <2>3. \A j \in Ids \ {i} :
          /\ subs'[j].inv = subs[j].inv /\ subs'[j].status = subs[j].status
          /\ j \in unheard => j \in unheard'
    BY <1>2, <1>5
  <2>4. Respects(v)
    BY <2>2, <2>3, FreeRespects
  <2>. QED
    BY <1>7, <2>1, <2>4
<1>10. overlap' \in BOOLEAN
  BY <1>2, TypeParts DEF NoteOverlap, SubscriptionsInv
<1>11. SubscriptionsTypeOK' /\ JobsHeld' /\ LocksApart'
  BY <1>2, <1>3, <1>5, <1>8, <1>9, <1>10, WorkerStep
<1>12. RowsSound'
  <2>1. ASSUME NEW j \in Ids \ unheard'
        PROVE  /\ subs'[j].inv = "paid" => subs'[j].status # "pending_payment" /\ subs'[j].whole
               /\ subs'[j].plan > 0 /\ subs'[j].status \in {"awaiting_review", "active", "grace"}
                    => subs'[j].inv = "paid"
    <3>1. CASE j = i
      BY <1>2, <1>4, <1>5, <2>1, <3>1 DEF SubscriptionsInv, RowsSound
    <3>2. CASE j # i
      BY <1>2, <1>5, <2>1, <3>2 DEF SubscriptionsInv, RowsSound
    <3>. QED
      BY <3>1, <3>2
  <2>. QED
    BY <2>1 DEF RowsSound
<1>13. StepSound
  <2>1. \A j \in Ids : j # i => subs'[j].status = subs[j].status
    BY <1>5
  <2>2. NotRevived
    BY <1>2, <1>5, <2>1 DEF NotRevived
  <2>3. StillServed
    BY <1>6 DEF StillServed, Current
  <2>4. NoneDeleted
    BY <1>4, <1>5, <2>1 DEF NoneDeleted, Made
  <2>. QED
    BY <2>2, <2>3, <2>4 DEF StepSound
<1>14. OneMaking'
  <2>1. jobs'[w] = job /\ \A v \in Workers : v # w => jobs'[v] = jobs[v]
    BY <1>2, <1>3, TypeParts, DoTyped DEF SubscriptionsInv
  <2>2. ~overlap' => ~overlap /\ Making \subseteq {w}
    BY <1>2, <1>10, TypeParts DEF NoteOverlap, SubscriptionsInv
  <2>3. \A v \in Workers : v # w => (jobs'[v].op \in {"activate", "grant"} => v \in Making)
    BY <2>1 DEF Making
  <2>4. Making' = {v \in Workers : jobs'[v].op \in {"activate", "grant"}}
    BY DEF Making
  <2>5. ASSUME ~overlap'
        PROVE  /\ \A a, b \in Current' : a = b
               /\ \A u, v \in Making' : u = v
               /\ \A v \in Workers :
                    /\ jobs'[v].op = "grant" => Current' = {}
                    /\ jobs'[v].op = "activate" => Current' \subseteq {jobs'[v].sub} \cup jobs'[v].others
    <3>1. \A a, b \in Current' : a = b
      BY <1>6, <2>2, <2>5 DEF SubscriptionsInv, OneMaking
    <3>2. \A v \in Workers : v # w => jobs'[v].op \notin {"activate", "grant"}
      BY <2>2, <2>3, <2>5
    <3>3. \A u, v \in Making' : u = v
      BY <2>4, <3>2
    <3>4. Current' \subseteq {job.sub} \cup job.others
      BY <1>3, <1>6
    <3>. QED
      BY <1>3, <2>1, <3>1, <3>2, <3>3, <3>4
  <2>. QED
    BY <2>5 DEF OneMaking
<1>. QED
  BY <1>11, <1>12, <1>13, <1>14 DEF SubscriptionsInv

-----------------------------------------------------------------------------
(* The theorems *)

LEMMA SubscriptionsStart == SubscriptionsInit => SubscriptionsInv
<1> SUFFICES ASSUME SubscriptionsInit PROVE SubscriptionsInv
  OBVIOUS
<1>1. NoRow \in RowType /\ NoRow.status = "none" /\ NoRow.inv = "none" /\ NoRow.plan = 0
  BY SubscriptionsAssumption DEF NoRow, Row, RowType, RowStates
<1>2. subs \in [Ids -> RowType] /\ \A i \in Ids : subs[i] = NoRow
  BY <1>1 DEF SubscriptionsInit
<1>3. jobs \in [Workers -> WorkType] /\ \A w \in Workers : jobs[w].op = "idle"
  BY NoJobTyped DEF SubscriptionsInit
<1>4. SubscriptionsTypeOK
  BY <1>2, <1>3, TypeParts DEF SubscriptionsInit
<1>5. RowsSound
  BY <1>1, <1>2 DEF RowsSound
<1>6. JobsHeld /\ LocksApart
  BY <1>3 DEF JobsHeld, HeldIn, LocksApart, Locks
<1>7. Current = {} /\ Making = {}
  BY <1>1, <1>2, <1>3 DEF Current, CurrentIn, Making
<1>8. OneMaking
  BY <1>3, <1>7 DEF OneMaking
<1>. QED
  BY <1>4, <1>5, <1>6, <1>8 DEF SubscriptionsInv

LEMMA SubscriptionsJobStep ==
  ASSUME SubscriptionsInv, NEW w \in Workers, SubscriptionJob(w)
  PROVE  SubscriptionsInv' /\ StepSound
  BY CreatePendingStep, LockPendingStep, UpdatePendingStep, EnsureBasicStep, GrantBasicStep,
     RenewalRowStep, RenewalInvoiceStep, RemoveStep, ActivateStep DEF SubscriptionJob

LEMMA SubscriptionsStep ==
  ASSUME SubscriptionsInv, [SubscriptionsNext]_subscriptionVars
  PROVE  SubscriptionsInv' /\ [StepSound]_subscriptionVars
<1>1. CASE UNCHANGED subscriptionVars
  BY <1>1 DEF subscriptionVars, SubscriptionsInv, SubscriptionsTypeOK, RowsSound, JobsHeld,
              LocksApart, Locks, OneMaking, Making, Current, CurrentIn
<1>2. CASE SubscriptionsNext
  <2>1. ASSUME NEW w \in Workers, NEW p \in Plans, StartCheckout(w, p)
        PROVE  SubscriptionsInv' /\ StepSound
    BY <2>1, StartCheckoutStep
  <2>2. ASSUME NEW w \in Workers, NEW i \in Ids,
               StartRenewal(w, i) \/ StartRemoval(w, i) \/ StartActivation(w, i)
        PROVE  SubscriptionsInv' /\ StepSound
    BY <2>2, StartRenewalStep, StartRemovalStep, StartActivationStep
  <2>3. ASSUME NEW w \in Workers, SubscriptionJob(w) \/ JobLost(w)
        PROVE  SubscriptionsInv' /\ StepSound
    BY <2>3, SubscriptionsJobStep, JobLostStep
  <2>4. ASSUME NEW i \in Ids, NEW s \in InvoiceStates, SaveInvoice(i, s) \/ SaveInvoiceUnheard(i, s)
        PROVE  SubscriptionsInv' /\ StepSound
    BY <2>4, SaveInvoiceStep, SaveInvoiceUnheardStep
  <2>5. ASSUME NEW i \in Ids, Elapse(i)
        PROVE  SubscriptionsInv' /\ StepSound
    BY <2>5, ElapseStep
  <2>6. ASSUME Refresh \/ NormalizeCommand
        PROVE  SubscriptionsInv' /\ StepSound
    BY <2>6, RefreshStep, NormalizeCommandStep
  <2>. QED
    BY <1>2, <2>1, <2>2, <2>3, <2>4, <2>5, <2>6 DEF SubscriptionsNext
<1>. QED
  BY <1>1, <1>2

LEMMA SubscriptionsInvariant == SubscriptionsSpec => []SubscriptionsInv
  BY SubscriptionsStart, SubscriptionsStep, PTL DEF SubscriptionsSpec

\* The variables keep their types, whatever the processes do to each other:
\* a job always names a row that exists.
THEOREM SubscriptionsTypeCorrect == SubscriptionsSpec => []SubscriptionsTypeOK
  BY SubscriptionsInvariant, PTL DEF SubscriptionsInv

\* What is provided is paid for in full and what is paid for is provided,
\* but for the rows whose receiver was the victim of a deadlock
\* (activate_subscription_on_paid swallows its failure).
THEOREM AccessIsPaid == SubscriptionsSpec => []AccessPaid
<1>1. SubscriptionsInv => AccessPaid
  BY DEF SubscriptionsInv, RowsSound, AccessPaid, PaidAndHeard, PaidInFull, Made
<1>. QED
  BY <1>1, SubscriptionsInvariant, PTL

\* One current subscription at most while entitlements are made one at a
\* time: nothing but the overlap of activate_subscription_after_payment and
\* ensure_basic_subscription_entitlement makes a second one.
THEOREM OneCurrentAtMost == SubscriptionsSpec => []OneCurrent
<1>1. ASSUME SubscriptionsInv PROVE OneCurrent
  <2>1. CASE overlap
    BY <2>1 DEF OneCurrent
  <2>2. CASE ~overlap /\ Current = {}
    BY <2>2, FS_EmptySet DEF OneCurrent
  <2>3. CASE ~overlap /\ Current # {}
    <3>1. PICK e \in Current : Current = {e}
      BY <1>1, <2>3 DEF SubscriptionsInv, OneMaking
    <3>2. Cardinality(Current) = 1
      BY <3>1, FS_Singleton
    <3>. QED
      BY <3>2 DEF OneCurrent
  <2>. QED
    BY <2>1, <2>2, <2>3
<1>. QED
  BY <1>1, SubscriptionsInvariant, PTL

\* What has expired, was replaced or deleted never comes back, and a row is
\* deleted with a payment in force only when its receiver was not heard:
\* both were read under the lock (cancel_pending_subscription_checkout).
THEOREM EndsForGood == SubscriptionsSpec => EndsOnce
<1>1. StepSound => (\A i \in Ids : subs[i].status \in {"expired", "cancelled", "gone"} =>
                      subs'[i].status \in {subs[i].status, "gone"})
  BY DEF StepSound, NotRevived
<1>2. StepSound => (\A i \in Made : subs'[i].status = "gone" => subs[i].inv # "paid" \/ i \in unheard)
  BY DEF StepSound, NoneDeleted
<1>. QED
  BY <1>1, <1>2, SubscriptionsInvariant, SubscriptionsStep, PTL
     DEF SubscriptionsSpec, EndsOnce, NeverRevived, PaymentNotDeleted

\* Replacing, normalising and refreshing never take the last current
\* subscription of a provider: only a refund or the end of its grace does.
THEOREM NeverLeftWithout == SubscriptionsSpec => NotLeftWithout
<1>1. StepSound =>
        (Current # {} /\ CurrentIn(subs') = {} =>
           \E i \in Current :
             \/ subs'[i].status = "expired" /\ subs[i].clock = "over"
             \/ subs'[i].status = "pending_payment" /\ subs'[i].inv # "paid")
  BY DEF StepSound, StillServed
<1>. QED
  BY <1>1, SubscriptionsInvariant, SubscriptionsStep, PTL
     DEF SubscriptionsSpec, NotLeftWithout
================================================================================
