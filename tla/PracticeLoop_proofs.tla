------------------------ MODULE PracticeLoop_proofs -------------------------
(***************************************************************************)
(* The two invariants of PracticeLoop, for any sessions, targets and       *)
(* budgets.                                                                *)
(*                                                                         *)
(* LoopInv says what the tables and the worker know of each other: the     *)
(* worker's row is as the worker left it, and what it found before the     *)
(* minutes of generation still holds when it publishes, because it is the  *)
(* only one that publishes.  TestsAreShared follows from it.  TypeInv and  *)
(* WithinBudget rest on it: rows reach the queue as they were submitted,   *)
(* and a plan that is being enqueued counts against the budgets already.   *)
(***************************************************************************)
EXTENDS PracticeLoop, TLAPS, FiniteSetTheorems

-----------------------------------------------------------------------------
(* The preparation queue and its assessments.                              *)

RowFields == {"id", "request", "revision", "status", "progress", "retryable", "stamp", "test"}
TestFields == {"id", "target", "request", "revision", "status", "seq", "recorded"}

IsRow(r) == r = [f \in RowFields |-> r[f]]
IsTest(x) == x = [f \in TestFields |-> x[f]]

(* The job J and tests T that the database may hold together: PlansAreFrozen *)
(* says of an assessment's job what is said here to exist.                 *)
SoundTables(J, T) ==
    /\ \A r \in J : IsRow(r)
    /\ \A x \in T : IsTest(x) /\ x.target = x.id.target
    /\ \A r, q \in J : r.id = q.id => r = q
    /\ \A x, y \in T : x.id = y.id \/ (x.target = y.target /\ ActiveTest(x) /\ ActiveTest(y))
                          => x = y
    /\ \A x \in T : \E r \in J : r.id = x.id /\ r.revision = x.revision
    /\ \A r \in J : r.status = "ready" =>
          \E x \in T : x.id = r.test /\ x.target = r.id.target

(* The worker b owns its row; what it looked up before it began to generate *)
(* is still so when it publishes, since nobody else publishes.             *)
SoundWorker(J, T, b) ==
    b # None =>
       /\ b = [row |-> b.row, stage |-> b.stage, test |-> b.test]
       /\ b.row \in J /\ b.row.status = "generating"
       /\ b.stage = "generate" => \A x \in T : /\ x.id # b.row.id
                                               /\ x.target = b.row.id.target => ~ActiveTest(x)
       /\ b.stage = "ready" => \E x \in T : x.id = b.test /\ x.target = b.row.id.target

SoundPlan(P) == \A r \in P : IsRow(r) /\ r.status = "queued"

LoopInv == SoundTables(jobs, tests) /\ SoundWorker(jobs, tests, busy) /\ SoundPlan(plan)

-----------------------------------------------------------------------------
(* A row moves: the transition keeps its id and the revision it froze.     *)
LEMMA RowMoves ==
    ASSUME NEW J, NEW T, SoundTables(J, T), NEW old \in J, NEW new, IsRow(new),
           new.id = old.id, new.revision = old.revision,
           new.status = "ready" => \E x \in T : x.id = new.test /\ x.target = new.id.target
    PROVE  SoundTables((J \ {old}) \cup {new}, T)
  <1> DEFINE K == (J \ {old}) \cup {new}
  <1>1. \A r, q \in K : r.id = q.id => r = q
    BY DEF SoundTables
  <1>2. \A x \in T : \E r \in K : r.id = x.id /\ r.revision = x.revision
    BY DEF SoundTables
  <1> QED BY <1>1, <1>2 DEF SoundTables

(* The four transitions of a row are such moves.                           *)
LEMMA Transitions ==
    ASSUME NEW r, IsRow(r), NEW x, NEW p, NEW b
    PROVE  /\ \A q \in {Queued(r), Generating(r), Ready(r, x), Failed(r, p, b)} :
                 IsRow(q) /\ q.id = r.id /\ q.revision = r.revision
           /\ Queued(r).status = "queued" /\ Generating(r).status = "generating"
           /\ Failed(r, p, b).status = "failed"
           /\ Ready(r, x).status = "ready" /\ Ready(r, x).test = x
  <1>1. IsRow(Queued(r)) /\ Queued(r).id = r.id /\ Queued(r).revision = r.revision
        /\ Queued(r).status = "queued"
    BY DEF IsRow, RowFields, Queued
  <1>2. IsRow(Generating(r)) /\ Generating(r).id = r.id /\ Generating(r).revision = r.revision
        /\ Generating(r).status = "generating"
    BY DEF IsRow, RowFields, Generating
  <1>3. IsRow(Ready(r, x)) /\ Ready(r, x).id = r.id /\ Ready(r, x).revision = r.revision
        /\ Ready(r, x).status = "ready" /\ Ready(r, x).test = x
    BY DEF IsRow, RowFields, Ready
  <1>4. IsRow(Failed(r, p, b)) /\ Failed(r, p, b).id = r.id
        /\ Failed(r, p, b).revision = r.revision /\ Failed(r, p, b).status = "failed"
    BY DEF IsRow, RowFields, Failed
  <1> QED BY <1>1, <1>2, <1>3, <1>4

(* A row with a new identity joins the tables.                             *)
LEMMA RowIsAdded ==
    ASSUME NEW J, NEW T, SoundTables(J, T), NEW r, IsRow(r), r.status # "ready",
           \A q \in J : q.id # r.id
    PROVE  SoundTables(J \cup {r}, T)
  BY DEF SoundTables

(* An assessment moves: it is never opened again.                          *)
LEMMA TestMoves ==
    ASSUME NEW J, NEW T, NEW b, SoundTables(J, T), SoundWorker(J, T, b),
           NEW x \in T, NEW y, IsTest(y), y.id = x.id, y.target = x.target,
           y.revision = x.revision, ActiveTest(y) => ActiveTest(x)
    PROVE  SoundTables(J, (T \ {x}) \cup {y}) /\ SoundWorker(J, (T \ {x}) \cup {y}, b)
  <1> DEFINE S == (T \ {x}) \cup {y}
  <1>1. /\ \A z \in S : IsTest(z) /\ z.target = z.id.target
        /\ \A z, w \in S : z.id = w.id \/ (z.target = w.target /\ ActiveTest(z) /\ ActiveTest(w))
                              => z = w
        /\ \A z \in S : \E r \in J : r.id = z.id /\ r.revision = z.revision
    BY DEF SoundTables
  <1>2. \A i, t : (\E z \in T : z.id = i /\ z.target = t) => \E z \in S : z.id = i /\ z.target = t
    OBVIOUS
  <1>3. SoundTables(J, S)
    BY <1>1, <1>2 DEF SoundTables
  <1>4. SoundWorker(J, S, b)
    BY <1>2 DEF SoundWorker
  <1> QED BY <1>3, <1>4

(* The worker's assessment is added.                                       *)
LEMMA TestIsPublished ==
    ASSUME NEW J, NEW T, SoundTables(J, T), NEW r \in J, NEW y, IsTest(y), y.id = r.id,
           y.target = r.id.target, y.revision = r.revision,
           \A x \in T : x.id # r.id /\ (x.target = r.id.target => ~ActiveTest(x))
    PROVE  SoundTables(J, T \cup {y})
  <1>1. \A z, w \in T \cup {y} :
           z.id = w.id \/ (z.target = w.target /\ ActiveTest(z) /\ ActiveTest(w)) => z = w
    BY DEF SoundTables
  <1> QED BY <1>1 DEF SoundTables

(* Whoever moves a row that no future runs leaves the worker's row alone.  *)
LEMMA WorkerIsLeftAlone ==
    ASSUME NEW J, NEW K, NEW T, NEW b, SoundWorker(J, T, b), b # None => b.row \in K
    PROVE  SoundWorker(K, T, b)
  BY DEF SoundWorker

(* Enqueueing finds a row or adds one, and leaves the worker alone.        *)
LEMMA EnqueueKeepsTables ==
    ASSUME LoopInv, NEW r, IsRow(r), r.status = "queued", NEW q, Enqueue(r, q)
    PROVE  SoundTables(jobs', tests) /\ SoundWorker(jobs', tests, busy)
  <1>1. jobs' = jobs \/ (jobs' = jobs \cup {r} /\ \A p \in jobs : p.id # r.id)
    BY DEF Enqueue
  <1>2. SoundTables(jobs', tests)
    BY <1>1, RowIsAdded DEF LoopInv
  <1>3. SoundWorker(jobs', tests, busy)
    BY <1>1, WorkerIsLeftAlone DEF LoopInv, SoundWorker
  <1> QED BY <1>2, <1>3

(* A new row is a queued row.                                              *)
LEMMA NewRowIsARow ==
    ASSUME NEW origin, NEW s, NEW t, NEW opp, NEW req
    PROVE  IsRow(NewRow(origin, s, t, opp, req)) /\ NewRow(origin, s, t, opp, req).status = "queued"
  BY DEF NewRow, IsRow, RowFields

(* Planning and enqueueing.                                                *)
LEMMA PlanningIsSound ==
    ASSUME LoopInv,
           \/ \E s \in Sessions : Schedule(s)
           \/ \E r \in plan : EnqueuePlanned(r)
           \/ \E s \in Sessions, t \in Targets, req \in Requests, e \in ExplicitIds :
                 EnqueueExplicit(s, t, req, e)
    PROVE  LoopInv'
  <1>1. ASSUME NEW s \in Sessions, Schedule(s) PROVE LoopInv'
    <2>1. SoundPlan(plan')
      BY <1>1, NewRowIsARow DEF Schedule, SoundPlan
    <2>2. UNCHANGED <<jobs, tests, busy>>
      BY <1>1 DEF Schedule
    <2> QED BY <2>1, <2>2 DEF LoopInv
  <1>2. ASSUME NEW r \in plan, EnqueuePlanned(r) PROVE LoopInv'
    <2>1. IsRow(r) /\ r.status = "queued" /\ UNCHANGED <<tests, busy>> /\ plan' \subseteq plan
      BY <1>2 DEF EnqueuePlanned, LoopInv, SoundPlan
    <2>2. jobs' = jobs \/ \E q : Enqueue(r, q)
      BY <1>2 DEF EnqueuePlanned
    <2>3. SoundTables(jobs', tests) /\ SoundWorker(jobs', tests, busy)
      BY <2>1, <2>2, EnqueueKeepsTables DEF LoopInv
    <2> QED BY <2>1, <2>3 DEF LoopInv, SoundPlan
  <1>3. ASSUME NEW s \in Sessions, NEW t \in Targets, NEW req \in Requests, NEW e \in ExplicitIds,
               EnqueueExplicit(s, t, req, e)
        PROVE  LoopInv'
    <2> DEFINE r == NewRow("explicit", s, t, e, req)
    <2>1. IsRow(r) /\ r.status = "queued" /\ UNCHANGED <<tests, busy, plan>>
          /\ \E q : Enqueue(r, q)
      BY <1>3, NewRowIsARow DEF EnqueueExplicit
    <2> HIDE DEF r
    <2>2. SoundTables(jobs', tests) /\ SoundWorker(jobs', tests, busy)
      BY <2>1, EnqueueKeepsTables
    <2> QED BY <2>1, <2>2 DEF LoopInv
  <1> QED BY <1>1, <1>2, <1>3

(* Listings and retries.                                                   *)
LEMMA ListingIsSound ==
    ASSUME LoopInv,
           \/ Poll
           \/ \E r \in reads : ResumeListed(r) \/ SkipListed(r) \/ ExpireListed(r)
           \/ \E r \in jobs : AskForRetry(r)
           \/ Retry
    PROVE  LoopInv'
  <1>0. UNCHANGED <<tests, busy, plan>>
    BY DEF Poll, ResumeListed, SkipListed, ExpireListed, AskForRetry, Retry
  <1>1. ASSUME NEW r \in jobs, NEW new, IsRow(new), new.id = r.id, new.revision = r.revision,
               new.status # "ready", ~Running(r.id), jobs' = (jobs \ {r}) \cup {new}
        PROVE  LoopInv'
    <2>1. SoundTables(jobs', tests)
      BY <1>1, RowMoves DEF LoopInv
    <2>2. busy # None => busy.row \in jobs'
      BY <1>1 DEF Running, LoopInv, SoundWorker
    <2>3. SoundWorker(jobs', tests, busy)
      BY <2>2, WorkerIsLeftAlone DEF LoopInv
    <2> QED BY <1>0, <2>1, <2>3 DEF LoopInv
  <1>2. CASE jobs' = jobs
    BY <1>0, <1>2 DEF LoopInv
  <1>3. ASSUME NEW r \in reads, ExpireListed(r) PROVE LoopInv'
    <2>1. CASE r \in jobs
      <3>1. IsRow(r)
        BY <2>1 DEF LoopInv, SoundTables
      <3> DEFINE new == Failed(r, r.progress, r.progress)
      <3>2. IsRow(new) /\ new.id = r.id /\ new.revision = r.revision /\ new.status = "failed"
        BY <3>1, Transitions
      <3>3. ~Running(r.id) /\ jobs' = (jobs \ {r}) \cup {new}
        BY <1>3, <2>1 DEF ExpireListed, Replaced
      <3> HIDE DEF new
      <3> QED BY <1>1, <2>1, <3>2, <3>3
    <2>2. CASE r \notin jobs
      BY <1>2, <1>3, <2>2 DEF ExpireListed, Replaced
    <2> QED BY <2>1, <2>2
  <1>4. CASE Retry
    <2> DEFINE r == retrying
               new == IF r.status = "failed" /\ r \in jobs THEN Queued(r) ELSE r
    <2>1. jobs' = jobs \/ (~Running(r.id) /\ jobs' = Replaced(r, new))
      BY <1>4 DEF Retry
    <2>2. CASE r \in jobs /\ r.status = "failed" /\ ~Running(r.id) /\ jobs' = Replaced(r, new)
      <3>1. IsRow(r)
        BY <2>2 DEF LoopInv, SoundTables
      <3>2. IsRow(new) /\ new.id = r.id /\ new.revision = r.revision /\ new.status = "queued"
        BY <2>2, <3>1, Transitions
      <3>3. jobs' = (jobs \ {r}) \cup {new}
        BY <2>2 DEF Replaced
      <3> HIDE DEF new
      <3> QED BY <1>1, <2>2, <3>2, <3>3
    <2>3. CASE r \notin jobs \/ r.status # "failed" \/ jobs' = jobs
      BY <1>2, <2>1, <2>3 DEF Replaced
    <2> QED BY <2>1, <2>2, <2>3
  <1> QED BY <1>2, <1>3, <1>4 DEF Poll, ResumeListed, SkipListed, AskForRetry

(* The worker looks for an assessment, and generates one if there is none. *)
LEMMA WorkerIsSound ==
    ASSUME LoopInv, Worker
    PROVE  LoopInv'
  <1>0. UNCHANGED plan
    BY DEF Worker, Start, AssignExisting, StartGenerating, Publish, Fail, Finish
  <1>1. CASE Start
    <2> DEFINE r == Head(queue)
    <2>1. CASE r \in jobs
      <3>1. IsRow(r)
        BY <2>1 DEF LoopInv, SoundTables
      <3>2. IsRow(Generating(r)) /\ Generating(r).id = r.id /\ Generating(r).revision = r.revision
            /\ Generating(r).status = "generating"
        BY <3>1, Transitions
      <3>3. /\ jobs' = (jobs \ {r}) \cup {Generating(r)} /\ tests' = tests
            /\ busy' = [row |-> Generating(r), stage |-> "assign", test |-> None]
        BY <1>1, <2>1 DEF Start, Replaced
      <3>4. SoundTables(jobs', tests)
        BY <2>1, <3>2, <3>3, RowMoves DEF LoopInv
      <3>5. SoundWorker(jobs', tests, busy')
        BY <3>2, <3>3 DEF SoundWorker
      <3> QED BY <1>0, <3>3, <3>4, <3>5 DEF LoopInv
    <2>2. CASE r \notin jobs
      <3>1. jobs' = jobs /\ tests' = tests /\ busy' = None
        BY <1>1, <2>2 DEF Start, Replaced
      <3> QED BY <1>0, <3>1 DEF LoopInv, SoundWorker
    <2> QED BY <2>1, <2>2
  <1>2. CASE AssignExisting
    <2>1. PICK x \in Existing(busy.row) : busy' = [busy EXCEPT !.stage = "ready", !.test = x.id]
      BY <1>2 DEF AssignExisting
    <2>2. /\ busy = [row |-> busy.row, stage |-> busy.stage, test |-> busy.test]
          /\ busy.row \in jobs /\ busy.row.status = "generating"
          /\ jobs' = jobs /\ tests' = tests
      BY <1>2 DEF AssignExisting, At, LoopInv, SoundWorker
    <2>3. busy' = [row |-> busy.row, stage |-> "ready", test |-> x.id]
      BY <2>1, <2>2
    <2>4. x \in tests /\ x.target = busy.row.id.target
      BY <2>1 DEF Existing, LoopInv, SoundTables
    <2>5. SoundWorker(jobs, tests, busy')
      BY <2>2, <2>3, <2>4 DEF SoundWorker
    <2> QED BY <1>0, <2>2, <2>5 DEF LoopInv
  <1>3. CASE StartGenerating
    <2>1. /\ busy = [row |-> busy.row, stage |-> busy.stage, test |-> busy.test]
          /\ busy.row \in jobs /\ busy.row.status = "generating"
          /\ jobs' = jobs /\ tests' = tests
          /\ busy' = [busy EXCEPT !.stage = "generate"]
      BY <1>3 DEF StartGenerating, At, LoopInv, SoundWorker
    <2>2. busy' = [row |-> busy.row, stage |-> "generate", test |-> busy.test]
      BY <2>1
    <2>3. ASSUME NEW x \in tests
          PROVE  x.id # busy.row.id /\ (x.target = busy.row.id.target => ~ActiveTest(x))
      BY <1>3 DEF StartGenerating, Existing
    <2>5. SoundWorker(jobs, tests, busy')
      BY <2>1, <2>2, <2>3 DEF SoundWorker
    <2> QED BY <1>0, <2>1, <2>5 DEF LoopInv
  <1>4. CASE Publish
    <2> DEFINE r == busy.row
               y == [id |-> r.id, target |-> r.id.target, request |-> r.request,
                     revision |-> revision, status |-> "ready", seq |-> Sequel(r.id.target),
                     recorded |-> FALSE]
    <2>1. /\ busy = [row |-> r, stage |-> busy.stage, test |-> busy.test]
          /\ r \in jobs /\ r.status = "generating" /\ r.revision = revision
          /\ jobs' = jobs /\ tests' = tests \cup {y}
          /\ busy' = [busy EXCEPT !.stage = "ready", !.test = r.id]
          /\ \A x \in tests : x.id # r.id /\ (x.target = r.id.target => ~ActiveTest(x))
      BY <1>4 DEF Publish, At, LoopInv, SoundWorker
    <2>2. busy' = [row |-> r, stage |-> "ready", test |-> r.id]
      BY <2>1
    <2>3. IsTest(y) /\ y.id = r.id /\ y.target = r.id.target /\ y.revision = r.revision
      BY <2>1 DEF IsTest, TestFields
    <2> HIDE DEF y
    <2>4. SoundTables(jobs, tests \cup {y})
      BY <2>1, <2>3, TestIsPublished DEF LoopInv
    <2>5. SoundWorker(jobs, tests \cup {y}, busy')
      BY <2>1, <2>2, <2>3 DEF SoundWorker
    <2> QED BY <1>0, <2>1, <2>4, <2>5 DEF LoopInv
  <1>5. CASE Fail
    <2>1. busy.row \in jobs /\ IsRow(busy.row) /\ tests' = tests /\ busy' = None
      BY <1>5 DEF Fail, At, LoopInv, SoundWorker, SoundTables
    <2>2. PICK p, b : jobs' = Replaced(busy.row, Failed(busy.row, p, b))
      BY <1>5 DEF Fail
    <2> DEFINE new == Failed(busy.row, p, b)
    <2>3. IsRow(new) /\ new.id = busy.row.id /\ new.revision = busy.row.revision
          /\ new.status = "failed"
      BY <2>1, Transitions
    <2>4. jobs' = (jobs \ {busy.row}) \cup {new}
      BY <2>1, <2>2 DEF Replaced
    <2> HIDE DEF new
    <2>5. SoundTables(jobs', tests)
      BY <2>1, <2>3, <2>4, RowMoves DEF LoopInv
    <2> QED BY <1>0, <2>1, <2>5 DEF LoopInv, SoundWorker
  <1>6. CASE Finish
    <2> DEFINE new == Ready(busy.row, busy.test)
    <2>1. /\ busy.row \in jobs /\ IsRow(busy.row) /\ tests' = tests /\ busy' = None
          /\ \E x \in tests : x.id = busy.test /\ x.target = busy.row.id.target
          /\ jobs' = (jobs \ {busy.row}) \cup {new}
      BY <1>6 DEF Finish, At, LoopInv, SoundWorker, SoundTables, Replaced
    <2>2. IsRow(new) /\ new.id = busy.row.id /\ new.revision = busy.row.revision
          /\ new.test = busy.test
      BY <2>1, Transitions
    <2> HIDE DEF new
    <2>3. SoundTables(jobs', tests)
      BY <2>1, <2>2, RowMoves DEF LoopInv
    <2> QED BY <1>0, <2>1, <2>3 DEF LoopInv, SoundWorker
  <1> QED BY <1>1, <1>2, <1>3, <1>4, <1>5, <1>6 DEF Worker

(* The student's steps, new resources and restarts.                        *)
LEMMA WorldIsSound ==
    ASSUME LoopInv,
           \/ \E x \in tests : Open(x) \/ Submit(x) \/ SubmitAgain(x)
           \/ ChangeResources
           \/ Crash
    PROVE  LoopInv'
  <1>1. ASSUME NEW x \in tests, Open(x) \/ Submit(x) \/ SubmitAgain(x) PROVE LoopInv'
    <2>1. PICK y : /\ tests' = (tests \ {x}) \cup {y}
                   /\ \/ x.status = "ready" /\ y = [x EXCEPT !.status = "in_progress"]
                      \/ \E ok : y = [x EXCEPT !.status = "submitted", !.recorded = ok]
                      \/ x.status = "submitted" /\ y = [x EXCEPT !.recorded = TRUE]
      BY <1>1 DEF Open, Submit, SubmitAgain, Rewrite
    <2>2. IsTest(x)
      BY DEF LoopInv, SoundTables
    <2>3. /\ IsTest(y) /\ y.id = x.id /\ y.target = x.target /\ y.revision = x.revision
          /\ ActiveTest(y) => ActiveTest(x)
      BY <2>1, <2>2 DEF IsTest, TestFields, ActiveTest
    <2>4. SoundTables(jobs, tests') /\ SoundWorker(jobs, tests', busy)
      BY <2>1, <2>3, TestMoves DEF LoopInv
    <2>5. UNCHANGED <<jobs, busy, plan>>
      BY <1>1 DEF Open, Submit, SubmitAgain, loopVars
    <2> QED BY <2>4, <2>5 DEF LoopInv
  <1>2. CASE ChangeResources
    BY <1>2 DEF ChangeResources, loopVars, LoopInv
  <1>3. CASE Crash
    BY <1>3 DEF Crash, LoopInv, SoundWorker, SoundPlan
  <1> QED BY <1>1, <1>2, <1>3

(* LoopInv is an inductive invariant.                                      *)
THEOREM LoopIsSound == Spec => []LoopInv
  <1>1. Init => LoopInv
    BY DEF Init, LoopInv, SoundTables, SoundWorker, SoundPlan
  <1>2. LoopInv /\ [Next]_vars => LoopInv'
    <2> SUFFICES ASSUME LoopInv, [Next]_vars PROVE LoopInv'
      OBVIOUS
    <2>1. CASE UNCHANGED vars
      BY <2>1 DEF vars, LoopInv
    <2>2. CASE Next
      BY <2>2, PlanningIsSound, ListingIsSound, WorkerIsSound, WorldIsSound DEF Next
    <2> QED BY <2>1, <2>2
  <1> QED BY <1>1, <1>2, PTL DEF Spec

(* TestsAreShared: a target has one open assessment however many jobs and  *)
(* origins asked for it, and a job that is ready names an assessment of    *)
(* its own target, its own or a found one.                                 *)
THEOREM TestsAreAlwaysShared == Spec => []TestsAreShared
  <1>1. LoopInv => TestsAreShared
    BY DEF LoopInv, SoundTables, TestsAreShared, OneActiveTestPerTarget, ReadyJobsNameATest
  <1> QED BY <1>1, LoopIsSound, PTL

-----------------------------------------------------------------------------
(* Finite sets.                                                            *)

(* A finite set of numbers has a greatest element: of its subsets without  *)
(* one, a smallest would have one when an element is taken away.           *)
LEMMA GreatestExists ==
    ASSUME NEW S \in SUBSET Nat, IsFiniteSet(S), S # {}
    PROVE  \E x \in S : \A y \in S : y <= x
  <1> DEFINE Unbounded == {T \in FiniteSubsetsOf(S) : T # {} /\ \A x \in T : \E y \in T : ~(y <= x)}
  <1> SUFFICES ASSUME \A x \in S : \E y \in S : ~(y <= x) PROVE FALSE
    OBVIOUS
  <1>1. Unbounded \in SUBSET FiniteSubsetsOf(S) /\ S \in Unbounded
    BY DEF FiniteSubsetsOf
  <1>2. PICK T \in Unbounded : \A R \in Unbounded : ~(<<R, T>> \in StrictSubsetOrdering(S))
    BY <1>1, WFMin, FS_StrictSubsetOrderingWellFounded
  <1>3. PICK x \in T : TRUE
    BY <1>2
  <1> DEFINE R == T \ {x}
  <1>4. R \in FiniteSubsetsOf(S)
    BY <1>2, FS_Subset DEF FiniteSubsetsOf
  <1>5. <<R, T>> \in StrictSubsetOrdering(S)
    BY <1>2, <1>3 DEF StrictSubsetOrdering, FiniteSubsetsOf
  <1>6. R # {}
    BY <1>2, <1>3 DEF FiniteSubsetsOf
  <1>7. PICK z \in R : \A y \in R : y <= z
    BY <1>2, <1>4, <1>5, <1>6
  <1>8. T \in SUBSET Nat /\ x \in Nat /\ z \in Nat /\ x \in T /\ z \in T
    BY <1>2, <1>3, <1>7 DEF FiniteSubsetsOf
  <1>9. CASE x <= z
    <2>1. \A y \in T : y <= z
      BY <1>7, <1>9
    <2> QED BY <1>2, <1>8, <2>1
  <1>10. CASE ~(x <= z)
    <2>1. \A y \in T : y <= x
      BY <1>7, <1>8, <1>10
    <2> QED BY <1>2, <1>8, <2>1
  <1> QED BY <1>9, <1>10

(* The image of a finite set is finite.                                    *)
LEMMA ImageIsFinite ==
    ASSUME NEW S, IsFiniteSet(S), NEW f, f = [x \in S |-> f[x]]
    PROVE  IsFiniteSet({f[x] : x \in S})
  <1> DEFINE T == {f[x] : x \in S}
  <1>1. f \in Surjection(S, T)
    BY DEF Surjection
  <1> QED BY <1>1, FS_Surjection

(* An element is exchanged for another one.                                *)
LEMMA Exchanged ==
    ASSUME NEW S, IsFiniteSet(S), NEW x \in S, NEW y
    PROVE  /\ IsFiniteSet((S \ {x}) \cup {y})
           /\ Cardinality((S \ {x}) \cup {y}) <= Cardinality(S)
  <1>1. IsFiniteSet(S \ {x}) /\ Cardinality(S \ {x}) = Cardinality(S) - 1
    BY FS_RemoveElement
  <1>2. Cardinality(S) \in Nat
    BY FS_CardinalityType
  <1>3. /\ IsFiniteSet((S \ {x}) \cup {y})
        /\ \/ Cardinality((S \ {x}) \cup {y}) = Cardinality(S \ {x}) + 1
           \/ Cardinality((S \ {x}) \cup {y}) = Cardinality(S \ {x})
    BY <1>1, FS_AddElement
  <1> QED BY <1>1, <1>2, <1>3

(* The union of two finite sets, and its size.                             *)
LEMMA TwoAreFinite ==
    ASSUME NEW S, NEW T, IsFiniteSet(S), IsFiniteSet(T)
    PROVE  /\ IsFiniteSet(S \cup T)
           /\ Cardinality(S \cup T) <= Cardinality(S) + Cardinality(T)
  <1>1. S \cap T \in SUBSET S
    OBVIOUS
  <1>2. Cardinality(S \cap T) \in Nat /\ Cardinality(S) \in Nat /\ Cardinality(T) \in Nat
    BY <1>1, FS_Subset, FS_CardinalityType
  <1>3. /\ IsFiniteSet(S \cup T)
        /\ Cardinality(S \cup T) = Cardinality(S) + Cardinality(T) - Cardinality(S \cap T)
    BY FS_Union
  <1> QED BY <1>2, <1>3

-----------------------------------------------------------------------------
(* Types.                                                                  *)

Proper(r) ==
    /\ r.retryable => r.status = "failed"
    /\ r.status = "ready" <=> r.test # None

(* A row of the plan has no test yet, and the queue holds rows as they were *)
(* submitted; so a row that is being generated has none either.            *)
TypeInv ==
    /\ TypeOK
    /\ IsFiniteSet(jobs) /\ IsFiniteSet(tests) /\ IsFiniteSet(plan)
    /\ \A r \in plan : r.status = "queued" /\ Proper(r) /\ r.id.origin = "automatic"
    /\ \A k \in DOMAIN queue : queue[k].status = "queued"

(* What it takes to be a row of the table.                                 *)
LEMMA IntoRows ==
    ASSUME NEW r, IsRow(r), r.id \in JobIds, r.request \in Requests,
           r.revision \in 0..MaxRevision,
           r.status \in {"queued", "generating", "ready", "failed"},
           r.progress \in BOOLEAN, r.retryable \in BOOLEAN, r.stamp \in Nat,
           r.test \in JobIds \cup {None}
    PROVE  r \in Rows
  BY DEF IsRow, RowFields, Rows

(* The rows of the table have the fields of a row.                         *)
LEMMA RowsAreRows ==
    ASSUME NEW r \in Rows
    PROVE  IsRow(r)
  BY DEF Rows, IsRow, RowFields

(* The four changes of a row's status give rows.                           *)
LEMMA TransitionsAreTyped ==
    ASSUME NEW r \in Rows, NEW x \in JobIds, NEW p \in BOOLEAN, NEW b \in BOOLEAN
    PROVE  /\ Queued(r) \in Rows /\ Generating(r) \in Rows
           /\ Ready(r, x) \in Rows /\ Failed(r, p, b) \in Rows
           /\ Queued(r).retryable = FALSE /\ Queued(r).test = r.test
           /\ Generating(r).retryable = r.retryable /\ Generating(r).test = r.test
           /\ Ready(r, x).retryable = r.retryable
           /\ Failed(r, p, b).test = r.test
  <1>0. IsRow(r)
    BY RowsAreRows
  <1>1. Queued(r) \in Rows /\ Queued(r).retryable = FALSE /\ Queued(r).test = r.test
    <2> DEFINE q == Queued(r)
    <2>1. /\ IsRow(q) /\ q.id = r.id /\ q.request = r.request /\ q.revision = r.revision
          /\ q.status = "queued" /\ q.progress = r.progress /\ q.retryable = FALSE /\ q.retryable \in BOOLEAN
          /\ q.stamp = r.stamp + 1 /\ q.test = r.test
      BY <1>0 DEF Queued, IsRow, RowFields
    <2> HIDE DEF q
    <2>2. q \in Rows
      BY <2>1, IntoRows DEF Rows
    <2> QED BY <2>1, <2>2 DEF q
  <1>2. /\ Generating(r) \in Rows /\ Generating(r).retryable = r.retryable
        /\ Generating(r).test = r.test
    <2> DEFINE q == Generating(r)
    <2>1. /\ IsRow(q) /\ q.id = r.id /\ q.request = r.request /\ q.revision = r.revision
          /\ q.status = "generating" /\ q.progress = r.progress /\ q.retryable = r.retryable
          /\ q.stamp = r.stamp + 1 /\ q.test = r.test
      BY <1>0 DEF Generating, IsRow, RowFields
    <2> HIDE DEF q
    <2>2. q \in Rows
      BY <2>1, IntoRows DEF Rows
    <2> QED BY <2>1, <2>2 DEF q
  <1>3. Ready(r, x) \in Rows /\ Ready(r, x).retryable = r.retryable
    <2> DEFINE q == Ready(r, x)
    <2>1. /\ IsRow(q) /\ q.id = r.id /\ q.request = r.request /\ q.revision = r.revision
          /\ q.status = "ready" /\ q.progress = FALSE /\ q.progress \in BOOLEAN /\ q.retryable = r.retryable
          /\ q.stamp = r.stamp + 1 /\ q.test = x
      BY <1>0 DEF Ready, IsRow, RowFields
    <2> HIDE DEF q
    <2>2. q \in Rows
      BY <2>1, IntoRows DEF Rows
    <2> QED BY <2>1, <2>2 DEF q
  <1>4. Failed(r, p, b) \in Rows /\ Failed(r, p, b).test = r.test
    <2> DEFINE q == Failed(r, p, b)
    <2>1. /\ IsRow(q) /\ q.id = r.id /\ q.request = r.request /\ q.revision = r.revision
          /\ q.status = "failed" /\ q.progress = p /\ q.retryable = b
          /\ q.stamp = r.stamp + 1 /\ q.test = r.test
      BY <1>0 DEF Failed, IsRow, RowFields
    <2> HIDE DEF q
    <2>2. q \in Rows
      BY <2>1, IntoRows DEF Rows
    <2> QED BY <2>1, <2>2 DEF q
  <1> QED BY <1>1, <1>2, <1>3, <1>4

(* The opportunity of a target is a sequence number and a revision.        *)
LEMMA OpportunityType ==
    ASSUME TypeInv, NEW t
    PROVE  Opportunity(t) \in Nat \X (0..MaxRevision)
  <1> DEFINE mine == {y \in tests : y.target = t /\ y.recorded}
             seqs == [x \in mine |-> x.seq]
             scored == {x.seq : x \in mine}
  <1>1. IsFiniteSet(mine)
    BY FS_Subset DEF TypeInv
  <1>2. IsFiniteSet(scored)
    <2>1. scored = {seqs[x] : x \in mine}
      OBVIOUS
    <2>2. seqs = [x \in mine |-> seqs[x]]
      OBVIOUS
    <2> HIDE DEF seqs, mine, scored
    <2> QED BY <1>1, <2>1, <2>2, ImageIsFinite
  <1>3. IsFiniteSet(scored \cup {0})
    BY <1>2, FS_AddElement
  <1>4. scored \cup {0} \in SUBSET Nat
    BY DEF TypeInv, TypeOK, Tests
  <1>5. \E n \in scored \cup {0} : \A m \in scored \cup {0} : m <= n
    BY <1>3, <1>4, GreatestExists
  <1>6. LastScore(t) \in scored \cup {0}
    BY <1>5 DEF LastScore
  <1>7. revision \in 0..MaxRevision
    BY DEF TypeInv, TypeOK
  <1> HIDE DEF scored
  <1>8. LastScore(t) \in Nat
    BY <1>4, <1>6
  <1> QED BY <1>7, <1>8 DEF Opportunity

(* A new row is a proper row of the table.                                 *)
LEMMA NewRowType ==
    ASSUME TypeInv, NEW s \in Sessions, NEW t \in Targets, NEW req \in Requests,
           NEW origin \in {"automatic", "explicit"}, NEW opp,
           origin = "automatic" => opp \in Nat \X (0..MaxRevision),
           origin = "explicit" => opp \in ExplicitIds
    PROVE  LET r == NewRow(origin, s, t, opp, req) IN
           r \in Rows /\ Proper(r) /\ r.status = "queued"
  <1> DEFINE r == NewRow(origin, s, t, opp, req)
  <1>1. r.id \in JobIds
    BY DEF NewRow, JobIds
  <1>2. IsRow(r)
    BY DEF NewRow, IsRow, RowFields
  <1>3. /\ r.request = req /\ r.revision = revision /\ r.status = "queued"
        /\ r.progress = FALSE /\ r.retryable = FALSE /\ r.stamp = 0 /\ r.test = None
        /\ r.progress \in BOOLEAN /\ r.retryable \in BOOLEAN
    BY DEF NewRow
  <1>4. revision \in 0..MaxRevision
    BY DEF TypeInv, TypeOK
  <1> HIDE DEF r
  <1>5. r \in Rows
    BY <1>1, <1>2, <1>3, <1>4, IntoRows
  <1> QED BY <1>3, <1>5 DEF r, Proper

(* Submitting to the worker keeps the queue one of queued rows.            *)
LEMMA SubmittedType ==
    ASSUME TypeInv, NEW r \in Rows, SubmitIfQueued(r)
    PROVE  queue' \in Seq(Rows) /\ \A k \in DOMAIN queue' : queue'[k].status = "queued"
  <1>1. queue \in Seq(Rows) /\ \A k \in DOMAIN queue : queue[k].status = "queued"
    BY DEF TypeInv, TypeOK
  <1>2. CASE queue' = queue
    BY <1>1, <1>2
  <1>3. CASE r.status = "queued" /\ queue' = Append(queue, r)
    BY <1>1, <1>3
  <1> QED BY <1>2, <1>3 DEF SubmitIfQueued

(* Enqueueing keeps the table's rows proper and its size finite.           *)
LEMMA EnqueuedType ==
    ASSUME TypeInv, NEW r \in Rows, Proper(r), NEW q, Enqueue(r, q)
    PROVE  /\ q \in Rows /\ jobs' \subseteq Rows /\ IsFiniteSet(jobs')
           /\ \A p \in jobs' : Proper(p)
  <1>1. jobs \subseteq Rows /\ IsFiniteSet(jobs) /\ \A p \in jobs : Proper(p)
    BY DEF TypeInv, TypeOK, Proper
  <1>2. q \in jobs' /\ (jobs' = jobs \/ jobs' = jobs \cup {r})
    BY DEF Enqueue, Twins
  <1>3. IsFiniteSet(jobs \cup {r})
    BY <1>1, FS_AddElement
  <1> QED BY <1>1, <1>2, <1>3

(* What the types say of the table.                                        *)
LEMMA JobsType ==
    ASSUME TypeInv
    PROVE  jobs \subseteq Rows /\ IsFiniteSet(jobs) /\ \A p \in jobs : Proper(p)
  BY DEF TypeInv, TypeOK, Proper

(* A row of the table moves.                                               *)
LEMMA MovedType ==
    ASSUME TypeInv, NEW old \in jobs, NEW new \in Rows, Proper(new)
    PROVE  LET J == (jobs \ {old}) \cup {new} IN
           J \subseteq Rows /\ IsFiniteSet(J) /\ \A p \in J : Proper(p)
  <1>1. IsFiniteSet((jobs \ {old}) \cup {new})
    BY JobsType, Exchanged
  <1> QED BY <1>1, JobsType

BusyType ==
    busy = None \/ busy \in [row : Rows, stage : {"assign", "generate", "ready"},
                             test : JobIds \cup {None}]

(* The steps of the planner and of an explicit request.                    *)
LEMMA PlanningIsTyped ==
    ASSUME TypeInv,
           \/ \E s \in Sessions : Schedule(s)
           \/ \E r \in plan : EnqueuePlanned(r)
           \/ \E s \in Sessions, t \in Targets, req \in Requests, e \in ExplicitIds :
                 EnqueueExplicit(s, t, req, e)
    PROVE  TypeInv'
  <1>1. ASSUME NEW s \in Sessions, Schedule(s) PROVE TypeInv'
    <2>0. PICK C \in SUBSET Targets : \E req \in [C -> Requests] :
             plan' = {NewRow("automatic", s, t, Opportunity(t), req[t]) : t \in C}
      BY <1>1 DEF Schedule, Selections, Available
    <2>1. PICK req \in [C -> Requests] :
             plan' = {NewRow("automatic", s, t, Opportunity(t), req[t]) : t \in C}
      BY <2>0
    <2> DEFINE row == [t \in C |-> NewRow("automatic", s, t, Opportunity(t), req[t])]
    <2>2. IsFiniteSet(C)
      BY TargetsAreFinite, FS_Subset
    <2>3. plan' = {row[t] : t \in C} /\ row = [t \in C |-> row[t]]
      BY <2>1
    <2>4. ASSUME NEW t \in C
          PROVE  LET r == NewRow("automatic", s, t, Opportunity(t), req[t]) IN
                 r \in Rows /\ Proper(r) /\ r.status = "queued" /\ r.id.origin = "automatic"
      <3>1. Opportunity(t) \in Nat \X (0..MaxRevision)
        BY OpportunityType
      <3>2. NewRow("automatic", s, t, Opportunity(t), req[t]).id.origin = "automatic"
        BY DEF NewRow
      <3> QED BY <2>1, <3>1, <3>2, NewRowType
    <2> HIDE DEF row
    <2>5. IsFiniteSet(plan')
      BY <2>2, <2>3, ImageIsFinite
    <2>6. /\ plan' \subseteq Rows
          /\ \A r \in plan' : r.status = "queued" /\ Proper(r) /\ r.id.origin = "automatic"
      BY <2>1, <2>4
    <2>7. UNCHANGED <<jobs, tests, revision, queue, busy, reads, retrying, crashes>>
      BY <1>1 DEF Schedule
    <2> QED BY <2>5, <2>6, <2>7 DEF TypeInv, TypeOK
  <1>2. ASSUME NEW r \in plan, EnqueuePlanned(r) PROVE TypeInv'
    <2>1. /\ r \in Rows /\ Proper(r) /\ plan' \subseteq plan
          /\ UNCHANGED <<tests, revision, busy, reads, retrying, crashes>>
      BY <1>2 DEF EnqueuePlanned, TypeInv, TypeOK
    <2>2. /\ jobs' \subseteq Rows /\ IsFiniteSet(jobs') /\ \A p \in jobs' : Proper(p)
          /\ queue' \in Seq(Rows) /\ \A k \in DOMAIN queue' : queue'[k].status = "queued"
      <3>1. CASE \E q \in jobs \cup {r} : Enqueue(r, q) /\ SubmitIfQueued(q)
        BY <2>1, <3>1, EnqueuedType, SubmittedType
      <3>2. CASE UNCHANGED <<jobs, queue>>
        BY <3>2, JobsType DEF TypeInv, TypeOK
      <3> QED BY <1>2, <3>1, <3>2 DEF EnqueuePlanned
    <2>3. IsFiniteSet(plan')
      BY <2>1, FS_Subset DEF TypeInv
    <2> QED BY <2>1, <2>2, <2>3 DEF TypeInv, TypeOK, Proper
  <1>3. ASSUME NEW s \in Sessions, NEW t \in Targets, NEW req \in Requests, NEW e \in ExplicitIds,
               EnqueueExplicit(s, t, req, e)
        PROVE  TypeInv'
    <2> DEFINE r == NewRow("explicit", s, t, e, req)
    <2>1. r \in Rows /\ Proper(r)
      BY NewRowType
    <2>2. /\ UNCHANGED <<tests, revision, plan, busy, reads, retrying, crashes>>
          /\ \E q : Enqueue(r, q) /\ SubmitIfQueued(q)
      BY <1>3 DEF EnqueueExplicit
    <2> HIDE DEF r
    <2>3. /\ jobs' \subseteq Rows /\ IsFiniteSet(jobs') /\ \A p \in jobs' : Proper(p)
          /\ queue' \in Seq(Rows) /\ \A k \in DOMAIN queue' : queue'[k].status = "queued"
      BY <2>1, <2>2, EnqueuedType, SubmittedType
    <2> QED BY <2>2, <2>3 DEF TypeInv, TypeOK, Proper
  <1> QED BY <1>1, <1>2, <1>3

(* The steps of a listing and of a retry.                                  *)
LEMMA ListingIsTyped ==
    ASSUME TypeInv,
           \/ Poll
           \/ \E r \in reads : ResumeListed(r) \/ SkipListed(r) \/ ExpireListed(r)
           \/ \E r \in jobs : AskForRetry(r)
           \/ Retry
    PROVE  TypeInv'
  <1>0. UNCHANGED <<tests, revision, busy, plan, crashes>>
    BY DEF Poll, ResumeListed, SkipListed, ExpireListed, AskForRetry, Retry
  <1>1. ASSUME reads' \subseteq Rows, retrying' \in Rows \cup {None},
               jobs' \subseteq Rows /\ IsFiniteSet(jobs') /\ \A p \in jobs' : Proper(p),
               queue' \in Seq(Rows) /\ \A k \in DOMAIN queue' : queue'[k].status = "queued"
        PROVE  TypeInv'
    BY <1>0, <1>1 DEF TypeInv, TypeOK, Proper
  <1>2. /\ reads \subseteq Rows /\ retrying \in Rows \cup {None}
        /\ queue \in Seq(Rows) /\ \A k \in DOMAIN queue : queue[k].status = "queued"
    BY DEF TypeInv, TypeOK
  <1>3. CASE Poll
    <2>1. reads' \subseteq Rows /\ UNCHANGED <<jobs, queue, retrying>>
      BY <1>3, JobsType DEF Poll
    <2> QED BY <1>1, <1>2, <2>1, JobsType
  <1>4. ASSUME NEW r \in reads, ResumeListed(r) PROVE TypeInv'
    <2>1. reads' \subseteq Rows /\ UNCHANGED <<jobs, retrying>> /\ SubmitIfQueued(r)
      BY <1>2, <1>4 DEF ResumeListed
    <2> QED BY <1>1, <1>2, <2>1, JobsType, SubmittedType
  <1>5. ASSUME NEW r \in reads, SkipListed(r) PROVE TypeInv'
    <2>1. reads' \subseteq Rows /\ UNCHANGED <<jobs, queue, retrying>>
      BY <1>2, <1>5 DEF SkipListed
    <2> QED BY <1>1, <1>2, <2>1, JobsType
  <1>6. ASSUME NEW r \in reads, ExpireListed(r) PROVE TypeInv'
    <2>1. reads' \subseteq Rows /\ UNCHANGED <<queue, retrying>> /\ r \in Rows
      BY <1>2, <1>6 DEF ExpireListed
    <2>2. CASE r \in jobs
      <3> DEFINE new == Failed(r, r.progress, r.progress)
      <3>0. r.id \in JobIds /\ r.progress \in BOOLEAN /\ IsRow(r) /\ r.status = "generating"
        BY <1>6, <2>1, RowsAreRows DEF Rows, ExpireListed
      <3>1. new \in Rows /\ new.test = r.test /\ new.status = "failed"
        <4>1. new \in Rows /\ new.test = r.test
          BY <2>1, <3>0, TransitionsAreTyped
        <4>2. new.status = "failed"
          BY <3>0, Transitions
        <4> QED BY <4>1, <4>2
      <3>2. jobs' = (jobs \ {r}) \cup {new}
        BY <1>6, <2>2 DEF ExpireListed, Replaced
      <3> HIDE DEF new
      <3>3. Proper(new)
        BY <2>2, <3>0, <3>1, JobsType DEF Proper
      <3> QED BY <1>1, <1>2, <2>1, <2>2, <3>1, <3>2, <3>3, MovedType
    <2>3. CASE r \notin jobs
      BY <1>1, <1>2, <1>6, <2>1, <2>3, JobsType DEF ExpireListed, Replaced
    <2> QED BY <2>2, <2>3
  <1>7. ASSUME NEW r \in jobs, AskForRetry(r) PROVE TypeInv'
    <2>1. retrying' \in Rows /\ UNCHANGED <<jobs, queue, reads>>
      BY <1>7, JobsType DEF AskForRetry
    <2> QED BY <1>1, <1>2, <2>1, JobsType
  <1>8. CASE Retry
    <2> DEFINE r == retrying
               new == IF r.status = "failed" /\ r \in jobs THEN Queued(r) ELSE r
    <2>1. reads' = reads /\ retrying' = None /\ r \in Rows
      BY <1>2, <1>8 DEF Retry
    <2>2. CASE UNCHANGED <<jobs, queue>>
      BY <1>1, <1>2, <2>1, <2>2, JobsType
    <2>3. CASE jobs' = Replaced(r, new) /\ SubmitIfQueued(new)
      <3>0. r.id \in JobIds
        BY <2>1 DEF Rows
      <3>1. new \in Rows
        <4>1. Queued(r) \in Rows
          BY <2>1, <3>0, TransitionsAreTyped
        <4> QED BY <2>1, <4>1
      <3>2. r \in jobs => Proper(new)
        <4>1. SUFFICES ASSUME r \in jobs, r.status = "failed" PROVE Proper(Queued(r))
          BY JobsType
        <4>2. Queued(r).retryable = FALSE /\ Queued(r).status = "queued" /\ Queued(r).test = r.test
          BY <2>1, RowsAreRows DEF Queued, IsRow, RowFields
        <4> QED BY <4>1, <4>2, JobsType DEF Proper
      <3> HIDE DEF new
      <3>3. jobs' \subseteq Rows /\ IsFiniteSet(jobs') /\ \A p \in jobs' : Proper(p)
        BY <2>3, <3>1, <3>2, MovedType, JobsType DEF Replaced
      <3> QED BY <1>1, <1>2, <2>1, <2>3, <3>1, <3>3, SubmittedType
    <2> QED BY <1>8, <2>2, <2>3 DEF Retry
  <1> QED BY <1>3, <1>4, <1>5, <1>6, <1>7, <1>8

(* The steps of the worker.                                                *)
LEMMA WorkerIsTyped ==
    ASSUME TypeInv, LoopInv, Worker
    PROVE  TypeInv'
  <1>0. UNCHANGED <<revision, plan, reads, retrying, crashes>>
    BY DEF Worker, Start, AssignExisting, StartGenerating, Publish, Fail, Finish
  <1>1. ASSUME jobs' \subseteq Rows /\ IsFiniteSet(jobs') /\ \A p \in jobs' : Proper(p),
               tests' \subseteq Tests /\ IsFiniteSet(tests'), BusyType',
               queue' \in Seq(Rows) /\ \A k \in DOMAIN queue' : queue'[k].status = "queued"
        PROVE  TypeInv'
    BY <1>0, <1>1 DEF TypeInv, TypeOK, Proper, BusyType
  <1>2. /\ queue \in Seq(Rows) /\ \A k \in DOMAIN queue : queue[k].status = "queued"
        /\ tests \subseteq Tests /\ IsFiniteSet(tests) /\ BusyType
    BY DEF TypeInv, TypeOK, BusyType
  <1>3. ASSUME busy # None
        PROVE  /\ busy.row \in jobs /\ busy.row \in Rows /\ busy.row.status = "generating"
               /\ busy.row.id \in JobIds /\ busy.row.progress \in BOOLEAN
               /\ busy.test \in JobIds \cup {None}
               /\ busy = [row |-> busy.row, stage |-> busy.stage, test |-> busy.test]
    BY <1>2, <1>3, JobsType DEF BusyType, LoopInv, SoundWorker, Rows
  <1>4. CASE Start
    <2> DEFINE r == Head(queue)
    <2>1. /\ r \in Rows /\ r.status = "queued" /\ r = queue[1]
          /\ Tail(queue) \in Seq(Rows)
          /\ \A k \in DOMAIN Tail(queue) : Tail(queue)[k].status = "queued"
      BY <1>2, <1>4 DEF Start
    <2>2. queue' = Tail(queue) /\ tests' = tests
      BY <1>4 DEF Start
    <2>3. CASE r \in jobs
      <3> DEFINE new == Generating(r)
      <3>1. r.id \in JobIds /\ IsRow(r)
        BY <2>1, RowsAreRows DEF Rows
      <3>2. /\ new \in Rows /\ new.status = "generating"
            /\ new.retryable = r.retryable /\ new.test = r.test
        BY <2>1, <3>1, TransitionsAreTyped, Transitions
      <3>3. /\ jobs' = (jobs \ {r}) \cup {new}
            /\ busy' = [row |-> new, stage |-> "assign", test |-> None]
        BY <1>4, <2>3 DEF Start, Replaced
      <3> HIDE DEF new
      <3>4. Proper(new)
        BY <2>1, <2>3, <3>2, JobsType DEF Proper
      <3>5. BusyType'
        BY <3>2, <3>3 DEF BusyType
      <3> QED BY <1>1, <1>2, <2>1, <2>2, <2>3, <3>2, <3>3, <3>4, <3>5, MovedType
    <2>4. CASE r \notin jobs
      <3>1. jobs' = jobs /\ busy' = None
        BY <1>4, <2>4 DEF Start, Replaced
      <3> QED BY <1>1, <1>2, <2>1, <2>2, <3>1, JobsType DEF BusyType
    <2> QED BY <2>3, <2>4
  <1>5. CASE AssignExisting
    <2>1. PICK x \in Existing(busy.row) : busy' = [busy EXCEPT !.stage = "ready", !.test = x.id]
      BY <1>5 DEF AssignExisting
    <2>2. x.id \in JobIds
      BY <1>2, <2>1 DEF Existing, Tests
    <2>3. busy # None /\ UNCHANGED <<jobs, tests, queue>>
      BY <1>5 DEF AssignExisting, At
    <2>4. busy' = [row |-> busy.row, stage |-> "ready", test |-> x.id]
      BY <1>3, <2>1, <2>3
    <2>5. BusyType'
      BY <1>3, <2>2, <2>3, <2>4 DEF BusyType
    <2> QED BY <1>1, <1>2, <2>3, <2>5, JobsType
  <1>6. CASE StartGenerating
    <2>1. busy # None /\ UNCHANGED <<jobs, tests, queue>>
          /\ busy' = [busy EXCEPT !.stage = "generate"]
      BY <1>6 DEF StartGenerating, At
    <2>2. busy' = [row |-> busy.row, stage |-> "generate", test |-> busy.test]
      BY <1>3, <2>1
    <2>3. BusyType'
      BY <1>3, <2>1, <2>2 DEF BusyType
    <2> QED BY <1>1, <1>2, <2>1, <2>3, JobsType
  <1>7. CASE Publish
    <2> DEFINE r == busy.row
               y == [id |-> r.id, target |-> r.id.target, request |-> r.request,
                     revision |-> revision, status |-> "ready", seq |-> Sequel(r.id.target),
                     recorded |-> FALSE]
    <2>1. /\ busy # None /\ UNCHANGED <<jobs, queue>> /\ tests' = tests \cup {y}
          /\ busy' = [busy EXCEPT !.stage = "ready", !.test = r.id]
      BY <1>7 DEF Publish, At
    <2>2. Sequel(r.id.target) \in Nat
      <3>1. IsFiniteSet({x \in tests : x.target = r.id.target})
        BY <1>2, FS_Subset
      <3> QED BY <3>1, FS_CardinalityType DEF Sequel
    <2>3. r.id.target \in Targets /\ r.request \in Requests /\ revision \in 0..MaxRevision
      BY <1>3, <2>1 DEF Rows, JobIds, TypeInv, TypeOK
    <2>4. y \in Tests
      BY <1>3, <2>1, <2>2, <2>3 DEF Tests
    <2>5. busy' = [row |-> r, stage |-> "ready", test |-> r.id]
      BY <1>3, <2>1
    <2>6. BusyType'
      BY <1>3, <2>1, <2>5 DEF BusyType
    <2> HIDE DEF y
    <2>7. tests' \subseteq Tests /\ IsFiniteSet(tests')
      BY <1>2, <2>1, <2>4, FS_AddElement
    <2> QED BY <1>1, <1>2, <2>1, <2>6, <2>7, JobsType
  <1>8. CASE Fail
    <2> DEFINE r == busy.row
    <2>1. busy # None /\ UNCHANGED <<tests, queue>> /\ busy' = None
      BY <1>8 DEF Fail, At
    <2>2. PICK g \in BOOLEAN, b \in BOOLEAN : jobs' = Replaced(r, Failed(r, g, b))
      BY <1>3, <1>8, <2>1 DEF Fail
    <2> DEFINE new == Failed(r, g, b)
    <2>3. IsRow(r)
      BY <1>3, <2>1, RowsAreRows
    <2>4. new \in Rows /\ new.status = "failed" /\ new.test = r.test
      <3>1. new \in Rows /\ new.test = r.test
        BY <1>3, <2>1, TransitionsAreTyped
      <3>2. new.status = "failed"
        BY <2>3, Transitions
      <3> QED BY <3>1, <3>2
    <2>5. jobs' = (jobs \ {r}) \cup {new}
      BY <1>3, <2>1, <2>2 DEF Replaced
    <2> HIDE DEF new
    <2>6. Proper(new)
      BY <1>3, <2>1, <2>4, JobsType DEF Proper
    <2>7. jobs' \subseteq Rows /\ IsFiniteSet(jobs') /\ \A p \in jobs' : Proper(p)
      BY <1>3, <2>1, <2>4, <2>5, <2>6, MovedType
    <2> QED BY <1>1, <1>2, <2>1, <2>7 DEF BusyType
  <1>9. CASE Finish
    <2> DEFINE r == busy.row
               new == Ready(r, busy.test)
    <2>1. busy # None /\ UNCHANGED <<tests, queue>> /\ busy' = None /\ jobs' = Replaced(r, new)
      BY <1>9 DEF Finish, At
    <2>2. busy.test \in JobIds
      BY <1>2, <1>9 DEF Finish, At, LoopInv, SoundWorker, Tests
    <2>3. IsRow(r)
      BY <1>3, <2>1, RowsAreRows
    <2>4. /\ new \in Rows /\ new.status = "ready" /\ new.test = busy.test
          /\ new.retryable = r.retryable
      <3>1. new \in Rows /\ new.retryable = r.retryable
        BY <1>3, <2>1, <2>2, TransitionsAreTyped
      <3>2. new.status = "ready" /\ new.test = busy.test
        BY <2>3 DEF Ready, IsRow, RowFields
      <3> QED BY <3>1, <3>2
    <2>5. jobs' = (jobs \ {r}) \cup {new}
      BY <1>3, <2>1 DEF Replaced
    <2> HIDE DEF new
    <2>6. Proper(new)
      BY <1>3, <2>1, <2>2, <2>4, JobsType, NoneIsNoJob DEF Proper
    <2>7. jobs' \subseteq Rows /\ IsFiniteSet(jobs') /\ \A p \in jobs' : Proper(p)
      BY <1>3, <2>1, <2>4, <2>5, <2>6, MovedType
    <2> QED BY <1>1, <1>2, <2>1, <2>7 DEF BusyType
  <1> QED BY <1>4, <1>5, <1>6, <1>7, <1>8, <1>9 DEF Worker

(* The steps of the student, of the resources and of a crash.              *)
LEMMA WorldIsTyped ==
    ASSUME TypeInv,
           \/ \E x \in tests : Open(x) \/ Submit(x) \/ SubmitAgain(x)
           \/ ChangeResources
           \/ Crash
    PROVE  TypeInv'
  <1>1. ASSUME NEW x \in tests, Open(x) \/ Submit(x) \/ SubmitAgain(x) PROVE TypeInv'
    <2>1. UNCHANGED <<jobs, revision, plan, queue, busy, reads, retrying, crashes>>
      BY <1>1 DEF Open, Submit, SubmitAgain, loopVars
    <2>2. PICK y : /\ tests' = (tests \ {x}) \cup {y}
                   /\ \/ y = [x EXCEPT !.status = "in_progress"]
                      \/ \E ok \in BOOLEAN : y = [x EXCEPT !.status = "submitted", !.recorded = ok]
                      \/ y = [x EXCEPT !.recorded = TRUE]
      BY <1>1 DEF Open, Submit, SubmitAgain, Rewrite
    <2>3. tests \subseteq Tests /\ x \in Tests /\ IsFiniteSet(tests)
      BY DEF TypeInv, TypeOK
    <2>4. y \in Tests
      BY <2>2, <2>3 DEF Tests
    <2>5. tests' \subseteq Tests /\ IsFiniteSet(tests')
      BY <2>2, <2>3, <2>4, Exchanged
    <2> QED BY <2>1, <2>5 DEF TypeInv, TypeOK
  <1>2. CASE ChangeResources
    BY <1>2, LimitsAreNatural DEF ChangeResources, loopVars, TypeInv, TypeOK
  <1>3. CASE Crash
    <2>1. /\ plan' = {} /\ queue' = <<>> /\ busy' = None /\ reads' = {} /\ retrying' = None
          /\ UNCHANGED <<jobs, tests, revision>> /\ crashes' \in 0..MaxCrashes
      BY <1>3, LimitsAreNatural DEF Crash, TypeInv, TypeOK
    <2> QED BY <2>1, FS_EmptySet DEF TypeInv, TypeOK
  <1> QED BY <1>1, <1>2, <1>3

(* Every variable keeps its type; a row has its assessment when it is ready. *)
THEOREM TypeCorrect == Spec => []TypeInv
  <1>1. Init => TypeInv
    BY LimitsAreNatural, FS_EmptySet DEF Init, TypeInv, TypeOK
  <1>2. TypeInv /\ LoopInv /\ [Next]_vars => TypeInv'
    <2> SUFFICES ASSUME TypeInv, LoopInv, [Next]_vars PROVE TypeInv'
      OBVIOUS
    <2>1. CASE UNCHANGED vars
      BY <2>1 DEF vars, TypeInv, TypeOK
    <2>2. CASE Next
      BY <2>2, PlanningIsTyped, ListingIsTyped, WorkerIsTyped, WorldIsTyped DEF Next
    <2> QED BY <2>1, <2>2
  <1> QED BY <1>1, <1>2, LoopIsSound, PTL DEF Spec

-----------------------------------------------------------------------------
(* Budgets.                                                                *)

PlannedIn(P, s) == {r \in P : r.id.session = s}

(* The targets that automatic practice of a session has or is about to get, *)
(* without those that were asked for.                                      *)
Unasked(J, P, s) ==
    (TargetsOf(Automatic(J, s)) \cup TargetsOf(PlannedIn(P, s))) \ TargetsOf(Asked(J, s))

WithinBudget(J, P) ==
    \A s \in Sessions :
       /\ Cardinality(Automatic(J, s)) <= MaxJobs
       /\ Cardinality(Unasked(J, P, s)) <= MaxTargets
       /\ \A t \in Targets :
             Cardinality({r \in Automatic(J, s) : r.id.target = t}) <= MaxPerTarget

(* The targets a budget counts are finitely many.                          *)
LEMMA UnaskedIsFinite ==
    ASSUME NEW J \in SUBSET Rows, NEW P \in SUBSET Rows, NEW s
    PROVE  IsFiniteSet(Unasked(J, P, s)) /\ Cardinality(Unasked(J, P, s)) \in Nat
  <1>1. Unasked(J, P, s) \in SUBSET Targets
    BY DEF Unasked, TargetsOf, Automatic, PlannedIn, Rows, JobIds
  <1> QED BY <1>1, TargetsAreFinite, FS_Subset, FS_CardinalityType

(* Less is unasked for.                                                    *)
LEMMA UnaskedShrinks ==
    ASSUME NEW J \in SUBSET Rows, NEW P \in SUBSET Rows, NEW s, NEW n \in Nat,
           Cardinality(Unasked(J, P, s)) <= n,
           NEW K \in SUBSET Rows, NEW Q \in SUBSET Rows,
           Unasked(K, Q, s) \subseteq Unasked(J, P, s)
    PROVE  Cardinality(Unasked(K, Q, s)) <= n
  <1>1. /\ Cardinality(Unasked(K, Q, s)) <= Cardinality(Unasked(J, P, s))
        /\ Cardinality(Unasked(K, Q, s)) \in Nat /\ Cardinality(Unasked(J, P, s)) \in Nat
    BY UnaskedIsFinite, FS_Subset
  <1> QED BY <1>1

(* A transition keeps the row's id, so it costs nothing.                   *)
LEMMA MovesAreFree ==
    ASSUME NEW J \in SUBSET Rows, IsFiniteSet(J), NEW P \in SUBSET Rows, WithinBudget(J, P),
           NEW old \in J, NEW new \in Rows, new.id = old.id
    PROVE  WithinBudget((J \ {old}) \cup {new}, P)
  <1> DEFINE K == (J \ {old}) \cup {new}
  <1> SUFFICES ASSUME NEW s \in Sessions
               PROVE  /\ Cardinality(Automatic(K, s)) <= MaxJobs
                      /\ Cardinality(Unasked(K, P, s)) <= MaxTargets
                      /\ \A t \in Targets :
                            Cardinality({r \in Automatic(K, s) : r.id.target = t}) <= MaxPerTarget
    BY DEF WithinBudget
  <1>1. ASSUME NEW A \in SUBSET J, NEW B, NEW n \in Nat, Cardinality(A) <= n,
               B = A \/ (old \in A /\ B = (A \ {old}) \cup {new})
        PROVE  Cardinality(B) <= n
    <2>1. IsFiniteSet(A)
      BY FS_Subset
    <2>2. CASE B = A
      BY <1>1, <2>2
    <2>3. CASE old \in A /\ B = (A \ {old}) \cup {new}
      <3>1. IsFiniteSet(B) /\ Cardinality(B) <= Cardinality(A)
        BY <2>1, <2>3, Exchanged
      <3>2. Cardinality(A) \in Nat /\ Cardinality(B) \in Nat
        BY <2>1, <3>1, FS_CardinalityType
      <3> QED BY <1>1, <3>1, <3>2
    <2> QED BY <1>1, <2>2, <2>3
  <1>2. Cardinality(Automatic(K, s)) <= MaxJobs
    <2>1. Cardinality(Automatic(J, s)) <= MaxJobs /\ Automatic(J, s) \in SUBSET J
      BY DEF WithinBudget, Automatic
    <2>2. \/ Automatic(K, s) = Automatic(J, s)
          \/ old \in Automatic(J, s) /\ Automatic(K, s) = (Automatic(J, s) \ {old}) \cup {new}
      BY DEF Automatic
    <2> QED BY <1>1, <2>1, <2>2, LimitsAreNatural
  <1>3. ASSUME NEW t \in Targets
        PROVE  Cardinality({r \in Automatic(K, s) : r.id.target = t}) <= MaxPerTarget
    <2> DEFINE A == {r \in Automatic(J, s) : r.id.target = t}
               B == {r \in Automatic(K, s) : r.id.target = t}
    <2>1. Cardinality(A) <= MaxPerTarget /\ A \in SUBSET J
      BY DEF WithinBudget, Automatic
    <2>2. B = A \/ (old \in A /\ B = (A \ {old}) \cup {new})
      BY DEF Automatic
    <2> HIDE DEF A, B
    <2>3. Cardinality(B) <= MaxPerTarget
      BY <1>1, <2>1, <2>2, LimitsAreNatural
    <2> QED BY <2>3 DEF B
  <1>4. Cardinality(Unasked(K, P, s)) <= MaxTargets
    <2>1. /\ TargetsOf(Automatic(K, s)) = TargetsOf(Automatic(J, s))
          /\ TargetsOf(Asked(K, s)) = TargetsOf(Asked(J, s))
      BY DEF TargetsOf, Automatic, Asked
    <2> QED BY <2>1 DEF WithinBudget, Unasked
  <1> QED BY <1>2, <1>3, <1>4

(* A new job is within the budgets that enqueue compares it with, and its  *)
(* target is planned or was asked for.                                     *)
LEMMA EnqueueWithinBudget ==
    ASSUME TypeInv, WithinBudget(jobs, plan), NEW r \in Rows, NEW q, Enqueue(r, q),
           r \in plan \/ r.id.origin = "explicit",
           NEW P \in SUBSET plan
    PROVE  WithinBudget(jobs', P)
  <1>0. jobs \in SUBSET Rows /\ plan \in SUBSET Rows /\ P \in SUBSET Rows /\ IsFiniteSet(jobs)
    BY DEF TypeInv, TypeOK
  <1>1. CASE jobs' = jobs
    <2> SUFFICES ASSUME NEW s \in Sessions PROVE Cardinality(Unasked(jobs, P, s)) <= MaxTargets
      BY <1>1 DEF WithinBudget
    <2>1. Unasked(jobs, P, s) \subseteq Unasked(jobs, plan, s)
      BY DEF Unasked, TargetsOf, PlannedIn
    <2> QED BY <1>0, <2>1, UnaskedShrinks, LimitsAreNatural DEF WithinBudget
  <1>2. CASE jobs' = jobs \cup {r} /\ ~OverBudget(r) /\ \A p \in jobs : p.id # r.id
    <2> SUFFICES ASSUME NEW s \in Sessions
                 PROVE  /\ Cardinality(Automatic(jobs', s)) <= MaxJobs
                        /\ Cardinality(Unasked(jobs', P, s)) <= MaxTargets
                        /\ \A t \in Targets :
                              Cardinality({p \in Automatic(jobs', s) : p.id.target = t}) <= MaxPerTarget
      BY DEF WithinBudget
    <2>1. ASSUME NEW A \in SUBSET jobs, NEW n \in Nat, ~(Cardinality(A) >= n)
          PROVE  Cardinality(A \cup {r}) <= n
      <3>1. IsFiniteSet(A)
        BY <1>0, FS_Subset
      <3>2. Cardinality(A) \in Nat /\ (\/ Cardinality(A \cup {r}) = Cardinality(A)
                                       \/ Cardinality(A \cup {r}) = Cardinality(A) + 1)
        BY <3>1, FS_AddElement, FS_CardinalityType
      <3> QED BY <2>1, <3>2
    <2>2. r.id.origin \in {"automatic", "explicit"}
      BY DEF Rows, JobIds
    <2>3. CASE r.id.origin = "automatic" /\ r.id.session = s
      <3>1. \A p \in Automatic(jobs, s) : p.id # r.id
        BY <1>2 DEF Automatic
      <3>2. /\ ~(Cardinality(Automatic(jobs, s)) >= MaxJobs)
            /\ ~(Cardinality({p \in Automatic(jobs, s) : p.id.target = r.id.target}) >= MaxPerTarget)
        BY <1>2, <2>3, <3>1 DEF OverBudget
      <3>3. Automatic(jobs', s) = Automatic(jobs, s) \cup {r} /\ Automatic(jobs, s) \in SUBSET jobs
        BY <1>2, <2>3 DEF Automatic
      <3>4. Cardinality(Automatic(jobs', s)) <= MaxJobs
        BY <2>1, <3>2, <3>3, LimitsAreNatural
      <3>5. ASSUME NEW t \in Targets
            PROVE  Cardinality({p \in Automatic(jobs', s) : p.id.target = t}) <= MaxPerTarget
        <4> DEFINE A == {p \in Automatic(jobs, s) : p.id.target = t}
        <4>1. CASE t = r.id.target
          <5>1. {p \in Automatic(jobs', s) : p.id.target = t} = A \cup {r}
            BY <3>3, <4>1
          <5>2. A \in SUBSET jobs /\ ~(Cardinality(A) >= MaxPerTarget)
            BY <3>2, <3>3, <4>1
          <5> HIDE DEF A
          <5>3. Cardinality(A \cup {r}) <= MaxPerTarget
            BY <2>1, <5>2, LimitsAreNatural
          <5> QED BY <5>1, <5>3
        <4>2. CASE t # r.id.target
          <5>1. {p \in Automatic(jobs', s) : p.id.target = t} = A
            BY <3>3, <4>2
          <5> QED BY <5>1 DEF WithinBudget
        <4> QED BY <4>1, <4>2
      <3>6. Cardinality(Unasked(jobs', P, s)) <= MaxTargets
        <4>1. r \in plan
          BY <2>3
        <4>2. Asked(jobs', s) = Asked(jobs, s)
          BY <1>2, <2>3 DEF Asked
        <4>3. Unasked(jobs', P, s) \subseteq Unasked(jobs, plan, s)
          BY <2>3, <3>3, <4>1, <4>2 DEF Unasked, TargetsOf, PlannedIn
        <4> QED BY <1>0, <1>2, <4>3, UnaskedShrinks, LimitsAreNatural DEF WithinBudget
      <3> QED BY <3>4, <3>5, <3>6
    <2>4. CASE r.id.origin # "automatic" \/ r.id.session # s
      <3>1. Automatic(jobs', s) = Automatic(jobs, s) /\ Asked(jobs, s) \subseteq Asked(jobs', s)
        BY <1>2, <2>4 DEF Automatic, Asked
      <3>2. Unasked(jobs', P, s) \subseteq Unasked(jobs, plan, s)
        BY <3>1 DEF Unasked, TargetsOf, PlannedIn
      <3>3. Cardinality(Unasked(jobs', P, s)) <= MaxTargets
        BY <1>0, <1>2, <3>2, UnaskedShrinks, LimitsAreNatural DEF WithinBudget
      <3> QED BY <3>1, <3>3 DEF WithinBudget
    <2> QED BY <2>3, <2>4
  <1> QED BY <1>1, <1>2 DEF Enqueue

(* plan_session takes what the targets of the session's jobs leave.        *)
LEMMA ScheduleWithinBudget ==
    ASSUME TypeInv, TypeInv', WithinBudget(jobs, plan), NEW u \in Sessions, Schedule(u)
    PROVE  WithinBudget(jobs', plan')
  <1>1. plan = {} /\ jobs' = jobs /\ jobs \in SUBSET Rows /\ plan' \in SUBSET Rows
        /\ plan \in SUBSET Rows
    BY DEF Schedule, Unlocked, TypeInv, TypeOK
  <1>2. PICK M \in SUBSET Targets : \E C \in Selections(jobs, u, M) :
           \E req \in [C -> Requests] :
              plan' = {NewRow("automatic", u, t, Opportunity(t), req[t]) : t \in C}
    BY DEF Schedule
  <1>3. PICK C \in Selections(jobs, u, M) : \E req \in [C -> Requests] :
           plan' = {NewRow("automatic", u, t, Opportunity(t), req[t]) : t \in C}
    BY <1>2
  <1> DEFINE ids == InSession(jobs, u)
  <1>4. /\ TargetsOf(PlannedIn(plan', u)) = C
        /\ \A s : s # u => TargetsOf(PlannedIn(plan', s)) = {}
    <2>1. PICK req \in [C -> Requests] :
             plan' = {NewRow("automatic", u, t, Opportunity(t), req[t]) : t \in C}
      BY <1>3
    <2>2. ASSUME NEW t \in C
          PROVE  LET r == NewRow("automatic", u, t, Opportunity(t), req[t]) IN
                 r.id.session = u /\ r.id.target = t
      BY DEF NewRow
    <2>3. \A r \in plan' : r.id.session = u /\ r.id.target \in C
      BY <2>1, <2>2
    <2>4. \A t \in C : \E r \in plan' : r.id.session = u /\ r.id.target = t
      BY <2>1, <2>2
    <2> QED BY <2>3, <2>4 DEF TargetsOf, PlannedIn
  <1>5. /\ C \subseteq Targets
        /\ Cardinality(C \ Scheduled(ids)) <= TargetsLeft(ids)
    BY DEF Selections, Available
  <1>6. Scheduled(ids) = TargetsOf(Automatic(jobs, u)) \cup TargetsOf(Asked(jobs, u))
    BY <1>1 DEF Scheduled, InSession, TargetsOf, Automatic, Asked, Rows, JobIds
  <1>7. Scheduled(ids) \subseteq Targets
    BY <1>1 DEF Scheduled, InSession, Rows, JobIds
  <1> SUFFICES ASSUME NEW s \in Sessions PROVE Cardinality(Unasked(jobs, plan', s)) <= MaxTargets
    BY <1>1 DEF WithinBudget
  <1>8. ASSUME Unasked(jobs, plan', s) \subseteq Unasked(jobs, plan, s)
        PROVE  Cardinality(Unasked(jobs, plan', s)) <= MaxTargets
    BY <1>1, <1>8, UnaskedShrinks, LimitsAreNatural DEF WithinBudget
  <1>9. CASE s # u
    BY <1>4, <1>8, <1>9 DEF Unasked
  <1>10. CASE s = u
    <2> DEFINE D == C \ Scheduled(ids)
               S == Scheduled(ids)
    <2>1. IsFiniteSet(D) /\ IsFiniteSet(S) /\ Cardinality(D) \in Nat /\ Cardinality(S) \in Nat
      <3>1. D \in SUBSET Targets /\ S \in SUBSET Targets
        BY <1>5, <1>7
      <3> QED BY <3>1, TargetsAreFinite, FS_Subset, FS_CardinalityType
    <2>2. CASE Cardinality(S) < MaxTargets
      <3>1. Cardinality(D) <= MaxTargets - Cardinality(S)
        BY <1>5, <2>2 DEF TargetsLeft
      <3>2. Unasked(jobs, plan', s) \in SUBSET (S \cup D)
        BY <1>4, <1>6, <1>10 DEF Unasked
      <3> HIDE DEF S, D
      <3>3. IsFiniteSet(S \cup D) /\ Cardinality(S \cup D) <= Cardinality(S) + Cardinality(D)
        BY <2>1, TwoAreFinite
      <3>4. Cardinality(Unasked(jobs, plan', s)) <= Cardinality(S \cup D)
        BY <3>2, <3>3, FS_Subset
      <3>5. Cardinality(Unasked(jobs, plan', s)) \in Nat /\ Cardinality(S \cup D) \in Nat
        BY <1>1, <3>3, UnaskedIsFinite, FS_CardinalityType
      <3> QED BY <2>1, <3>1, <3>3, <3>4, <3>5, LimitsAreNatural
    <2>3. CASE ~(Cardinality(S) < MaxTargets)
      <3>1. Cardinality(D) = 0
        BY <1>5, <2>1, <2>3 DEF TargetsLeft
      <3>2. D = {}
        BY <2>1, <3>1, FS_EmptySet
      <3>3. Unasked(jobs, plan', s) \subseteq Unasked(jobs, plan, s)
        BY <1>4, <1>6, <1>10, <3>2 DEF Unasked
      <3> QED BY <1>8, <3>3
    <2> QED BY <2>2, <2>3
  <1> QED BY <1>9, <1>10

(* A row that changes keeps its target, its session and its origin, so the *)
(* counts stand.                                                           *)
LEMMA ReplacedWithinBudget ==
    ASSUME TypeInv, TypeInv', WithinBudget(jobs, plan), plan' = plan,
           NEW r, NEW new, r \in jobs => new.id = r.id, jobs' = Replaced(r, new)
    PROVE  WithinBudget(jobs', plan')
  <1>1. CASE r \in jobs
    <2>1. jobs' = (jobs \ {r}) \cup {new} /\ new \in Rows /\ jobs \in SUBSET Rows
          /\ IsFiniteSet(jobs) /\ plan \in SUBSET Rows
      BY <1>1 DEF Replaced, TypeInv, TypeOK
    <2> QED BY <1>1, <2>1, MovesAreFree
  <1>2. CASE r \notin jobs
    BY <1>2 DEF Replaced
  <1> QED BY <1>1, <1>2

(* Every step keeps the counts within the budgets.                         *)
LEMMA StepWithinBudget ==
    ASSUME TypeInv, TypeInv', WithinBudget(jobs, plan), Next
    PROVE  WithinBudget(jobs', plan')
  <1>0. ASSUME NEW r, r \in jobs
        PROVE  /\ Queued(r).id = r.id /\ Generating(r).id = r.id
               /\ \A x : Ready(r, x).id = r.id
               /\ \A p, b : Failed(r, p, b).id = r.id
    <2>1. IsRow(r)
      BY <1>0, RowsAreRows DEF TypeInv, TypeOK
    <2> QED BY <2>1 DEF IsRow, RowFields, Queued, Generating, Ready, Failed
  <1>1. ASSUME NEW s \in Sessions, Schedule(s) PROVE WithinBudget(jobs', plan')
    BY <1>1, ScheduleWithinBudget
  <1>2. ASSUME NEW r \in plan, EnqueuePlanned(r) PROVE WithinBudget(jobs', plan')
    <2>1. r \in Rows /\ plan' \in SUBSET plan
      BY <1>2 DEF EnqueuePlanned, TypeInv, TypeOK
    <2>2. CASE \E q : Enqueue(r, q)
      BY <2>1, <2>2, EnqueueWithinBudget
    <2>3. CASE jobs' = jobs
      <3>1. \A s : Unasked(jobs, plan', s) \subseteq Unasked(jobs, plan, s)
        BY <2>1 DEF Unasked, TargetsOf, PlannedIn
      <3>2. jobs \in SUBSET Rows /\ plan \in SUBSET Rows /\ plan' \in SUBSET Rows
        BY DEF TypeInv, TypeOK
      <3> QED BY <2>3, <3>1, <3>2, UnaskedShrinks, LimitsAreNatural DEF WithinBudget
    <2> QED BY <1>2, <2>2, <2>3 DEF EnqueuePlanned
  <1>3. ASSUME NEW s \in Sessions, NEW t \in Targets, NEW req \in Requests, NEW e \in ExplicitIds,
               EnqueueExplicit(s, t, req, e)
        PROVE  WithinBudget(jobs', plan')
    <2> DEFINE r == NewRow("explicit", s, t, e, req)
    <2>1. r \in Rows
      BY NewRowType
    <2>2. r.id.origin = "explicit"
      BY DEF NewRow
    <2>3. plan' = plan /\ \E q : Enqueue(r, q)
      BY <1>3 DEF EnqueueExplicit
    <2> HIDE DEF r
    <2> QED BY <2>1, <2>2, <2>3, EnqueueWithinBudget
  <1>4. CASE UNCHANGED <<jobs, plan>>
    BY <1>4
  <1>5. ASSUME NEW r \in reads, ExpireListed(r) PROVE WithinBudget(jobs', plan')
    BY <1>0, <1>5, ReplacedWithinBudget DEF ExpireListed
  <1>6. CASE Retry
    <2> DEFINE new == IF retrying.status = "failed" /\ retrying \in jobs THEN Queued(retrying)
                                                                       ELSE retrying
    <2>1. plan' = plan /\ (jobs' = jobs \/ jobs' = Replaced(retrying, new))
      BY <1>6 DEF Retry
    <2>2. retrying \in jobs => new.id = retrying.id
      BY <1>0
    <2> HIDE DEF new
    <2> QED BY <1>4, <2>1, <2>2, ReplacedWithinBudget
  <1>7. CASE Start
    BY <1>0, <1>7, ReplacedWithinBudget DEF Start
  <1>8. CASE Fail
    <2>1. PICK p, b : jobs' = Replaced(busy.row, Failed(busy.row, p, b))
      BY <1>8 DEF Fail
    <2>2. plan' = plan
      BY <1>8 DEF Fail
    <2> QED BY <1>0, <2>1, <2>2, ReplacedWithinBudget
  <1>9. CASE Finish
    BY <1>0, <1>9, ReplacedWithinBudget DEF Finish
  <1>10. CASE Crash
    <2>1. jobs' = jobs /\ plan' = {}
      BY <1>10 DEF Crash
    <2>2. \A s : Unasked(jobs, {}, s) \subseteq Unasked(jobs, plan, s)
      BY DEF Unasked, TargetsOf, PlannedIn
    <2>3. jobs \in SUBSET Rows /\ plan \in SUBSET Rows /\ {} \in SUBSET Rows
      BY DEF TypeInv, TypeOK
    <2> QED BY <2>1, <2>2, <2>3, UnaskedShrinks, LimitsAreNatural DEF WithinBudget
  <1>11. CASE Poll \/ AssignExisting \/ StartGenerating \/ Publish \/ ChangeResources
    BY <1>4, <1>11 DEF Poll, AssignExisting, StartGenerating, Publish, ChangeResources, loopVars
  <1>12. CASE \E r \in reads : ResumeListed(r) \/ SkipListed(r)
    BY <1>4, <1>12 DEF ResumeListed, SkipListed
  <1>13. CASE \E r \in jobs : AskForRetry(r)
    BY <1>4, <1>13 DEF AskForRetry
  <1>14. CASE \E x \in tests : Open(x) \/ Submit(x) \/ SubmitAgain(x)
    BY <1>4, <1>14 DEF Open, Submit, SubmitAgain, loopVars
  <1> QED BY <1>1, <1>2, <1>3, <1>5, <1>6, <1>7, <1>8, <1>9, <1>10, <1>11, <1>12, <1>13, <1>14
          DEF Next, Worker

(* The budgets hold, whatever fails, is retried or is asked for.           *)
THEOREM BudgetsAreKept == Spec => []WithinBudget(jobs, plan)
  <1>1. Init => WithinBudget(jobs, plan)
    <2> SUFFICES ASSUME jobs = {}, plan = {} PROVE WithinBudget(jobs, plan)
      BY DEF Init
    <2>1. ASSUME NEW s \in Sessions
          PROVE  Automatic(jobs, s) = {} /\ Unasked(jobs, plan, s) = {}
      BY DEF Automatic, Unasked, TargetsOf, PlannedIn
    <2>2. \A s \in Sessions, t \in Targets : {r \in Automatic(jobs, s) : r.id.target = t} = {}
      BY <2>1
    <2> QED BY <2>1, <2>2, FS_EmptySet, LimitsAreNatural DEF WithinBudget
  <1>2. WithinBudget(jobs, plan) /\ TypeInv /\ TypeInv' /\ [Next]_vars
           => WithinBudget(jobs, plan)'
    <2>1. ASSUME WithinBudget(jobs, plan), TypeInv, TypeInv', Next PROVE WithinBudget(jobs', plan')
      BY <2>1, StepWithinBudget
    <2>2. (UNCHANGED vars) /\ WithinBudget(jobs, plan) => WithinBudget(jobs', plan')
      BY DEF vars
    <2> QED BY <2>1, <2>2
  <1> QED BY <1>1, <1>2, TypeCorrect, PTL DEF Spec

(* RowsAreSound: every row keeps its type, the worker's row is left to it, *)
(* an assessment uses the resources its plan froze, and no order of        *)
(* planning, failures, retries and restarts exceeds a session's budgets.   *)
THEOREM RowsStaySound == Spec => []RowsAreSound
  <1>1. LoopInv => WorkerOwnsItsRow /\ PlansAreFrozen
    BY DEF LoopInv, SoundTables, SoundWorker, WorkerOwnsItsRow, PlansAreFrozen
  <1>2. TypeInv /\ WithinBudget(jobs, plan) => BudgetsHold
    <2> SUFFICES ASSUME TypeInv, WithinBudget(jobs, plan), NEW s \in Sessions
                 PROVE  Cardinality(TargetsOf(Automatic(jobs, s)) \ TargetsOf(Asked(jobs, s)))
                           <= MaxTargets
      BY DEF BudgetsHold, WithinBudget
    <2>1. jobs \in SUBSET Rows /\ plan \in SUBSET Rows /\ {} \in SUBSET Rows
      BY DEF TypeInv, TypeOK
    <2>2. /\ Unasked(jobs, {}, s) = TargetsOf(Automatic(jobs, s)) \ TargetsOf(Asked(jobs, s))
          /\ Unasked(jobs, {}, s) \subseteq Unasked(jobs, plan, s)
      BY DEF Unasked, TargetsOf, PlannedIn
    <2> QED BY <2>1, <2>2, UnaskedShrinks, LimitsAreNatural DEF WithinBudget
  <1> QED BY <1>1, <1>2, LoopIsSound, TypeCorrect, BudgetsAreKept, PTL DEF RowsAreSound, TypeInv
=============================================================================
