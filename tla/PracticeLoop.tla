---------------------------- MODULE PracticeLoop ----------------------------
(***************************************************************************)
(* The background practice of one student in one course: the preparation   *)
(* queue (assessment/preparation.py), the loop that fills and serves it    *)
(* (agent/learning_loop.py), the planner that spends a session's budget    *)
(* (teaching/assessment_assignment.py) and the allocation of assessments   *)
(* (assessment/application.py).                                            *)
(*                                                                         *)
(* The threads of turns and of API calls hold the loop's lock while they   *)
(* enqueue, list or retry; the single worker thread moves rows without it, *)
(* except to READY.  A row of the queue is compared and set as a whole.    *)
(***************************************************************************)
EXTENDS Integers, Sequences, FiniteSets

CONSTANTS Sessions,
          Targets,        \* canonical knowledge components
          Requests,       \* generation requests that differ for one target
          ExplicitIds,    \* fresh opportunity ids of explicit requests
          MaxTargets,     \* SESSION_MAX_KC_COUNT
          MaxPerTarget,   \* KC_MAX_OPPORTUNITIES
          MaxJobs,        \* SESSION_MAX_PREPARATIONS
          MaxRevision, MaxCrashes,   \* bounds of the model
          MaxStamp,       \* a row that changed as often is not retried
          None

ASSUME LimitsAreNatural ==
    /\ MaxTargets \in Nat /\ MaxPerTarget \in Nat /\ MaxJobs \in Nat
    /\ MaxRevision \in Nat /\ MaxStamp \in Nat /\ MaxCrashes \in Nat

(* A course has finitely many knowledge components.                        *)
ASSUME TargetsAreFinite == IsFiniteSet(Targets)

VARIABLES
    jobs,       \* assessment_preparations: the set of rows
    tests,      \* assessments: the set of rows
    revision,   \* of the course resources
    plan,       \* rows that the holder of the loop's lock still enqueues
    queue,      \* the executor's queue: rows as they were submitted
    busy,       \* what the worker thread is at
    reads,      \* rows a listing has read and not handled yet
    retrying,   \* the row a retry has read
    crashes

loopVars == <<plan, queue, busy, reads, retrying>>
vars == <<jobs, tests, revision, plan, queue, busy, reads, retrying, crashes>>

Init ==
    /\ jobs = {}
    /\ tests = {}
    /\ revision = 0
    /\ plan = {}
    /\ queue = <<>>
    /\ busy = None
    /\ reads = {}
    /\ retrying = None
    /\ crashes = 0

-----------------------------------------------------------------------------
(* Rows.                                                                   *)

(* The jobs of a session that its budgets count.                           *)
Automatic(J, s) == {r \in J : r.id.session = s /\ r.id.origin = "automatic"}

Active(r) == r.status \in {"queued", "generating"}
ActiveTest(x) == x.status \in {"ready", "in_progress"}

Unlocked == plan = {}

(* A job's identity is hashed from these four; its request is not.         *)
NewRow(origin, s, t, opp, req) ==
    [id |-> [origin |-> origin, session |-> s, target |-> t, opp |-> opp],
     request |-> req, revision |-> revision, status |-> "queued",
     progress |-> FALSE, retryable |-> FALSE, stamp |-> 0, test |-> None]

(* transition: compare and set of one row.                                 *)
Replaced(old, new) == IF old \in jobs THEN (jobs \ {old}) \cup {new} ELSE jobs

Queued(r) == [r EXCEPT !.status = "queued", !.retryable = FALSE, !.stamp = @ + 1]
Generating(r) == [r EXCEPT !.status = "generating", !.stamp = @ + 1]
Ready(r, x) == [r EXCEPT !.status = "ready", !.test = x, !.progress = FALSE, !.stamp = @ + 1]
Failed(r, progress, retryable) ==
    [r EXCEPT !.status = "failed", !.progress = progress, !.retryable = retryable,
              !.stamp = @ + 1]

-----------------------------------------------------------------------------
(* The planner.                                                            *)

(* A target is left alone while it has an active job or assessment.        *)
Protected(t) ==
    \/ \E r \in jobs : r.id.target = t /\ Active(r)
    \/ \E x \in tests : x.target = t /\ ActiveTest(x)

LastScore(t) ==
    LET scored == {x.seq : x \in {y \in tests : y.target = t /\ y.recorded}} IN
    CHOOSE n \in scored \cup {0} : \A m \in scored : m <= n

(* An opportunity is the latest scored assessment and the resources.       *)
Opportunity(t) == <<LastScore(t), revision>>

InSession(J, s) == {r.id : r \in {q \in J : q.id.session = s}}
Scheduled(ids) == {i.target : i \in ids}
Consumed(ids, t) == {i.opp : i \in {j \in ids : j.target = t}}
TargetsLeft(ids) ==
    IF Cardinality(Scheduled(ids)) < MaxTargets THEN MaxTargets - Cardinality(Scheduled(ids)) ELSE 0

(* What the jobs of a session leave available of the targets M.            *)
Available(ids, M) ==
    {t \in M : /\ Cardinality(ids) < MaxJobs
               /\ t \in Scheduled(ids) \/ TargetsLeft(ids) > 0
               /\ Cardinality(Consumed(ids, t)) < MaxPerTarget
               /\ Opportunity(t) \notin Consumed(ids, t)
               /\ ~Protected(t)}

(* plan_session takes targets in the order of the learner's weak spots     *)
(* until a budget is spent: a largest selection within the budgets.        *)
Selections(J, s, M) ==
    LET ids == InSession(J, s)
        available == Available(ids, M)
        fits(C) == /\ Cardinality(C \ Scheduled(ids)) <= TargetsLeft(ids)
                   /\ Cardinality(C) + Cardinality(ids) <= MaxJobs
    IN  {C \in SUBSET available \ {{}} : fits(C) /\ \A t \in available \ C : ~fits(C \cup {t})}

-----------------------------------------------------------------------------
(* Enqueueing.                                                             *)

(* The id has a future that is not done.                                   *)
Running(i) ==
    \/ \E k \in DOMAIN queue : queue[k].id = i
    \/ busy # None /\ busy.row.id = i

(* _submit, as every caller uses it: only for a row read as QUEUED.        *)
SubmitIfQueued(r) ==
    queue' = IF r.status = "queued" /\ ~Running(r.id) THEN Append(queue, r) ELSE queue

(* An active preparation of the same request and origin stands for a new one. *)
Twins(r) == {q \in jobs : /\ q.id.target = r.id.target /\ q.request = r.request
                          /\ q.id.origin = r.id.origin /\ Active(q)}

OverBudget(r) ==
    LET own == Automatic(jobs, r.id.session) IN
    /\ r.id.origin = "automatic"
    /\ \A q \in own : q.id # r.id
    /\ \/ Cardinality(own) >= MaxJobs
       \/ Cardinality({q \in own : q.id.target = r.id.target}) >= MaxPerTarget

(* The transaction of enqueue, which returns the row q.                    *)
Enqueue(r, q) ==
    \/ /\ q \in Twins(r)
       /\ UNCHANGED jobs
    \/ /\ Twins(r) = {}
       /\ ~OverBudget(r)
       /\ q.id = r.id
       /\ jobs' = IF \E p \in jobs : p.id = r.id THEN jobs ELSE jobs \cup {r}
       /\ q \in jobs'

(* Mutant of Schedule: only jobs that are not failed use up the budget.    *)
ScheduleForgivingFailures(s) ==
    LET kept == {r \in jobs : r.status # "failed"} IN
    /\ Unlocked
    /\ \E M \in SUBSET Targets : \E C \in Selections(kept, s, M) :
          \E req \in [C -> Requests] :
             plan' = {NewRow("automatic", s, t, Opportunity(t), req[t]) : t \in C}
    /\ UNCHANGED <<jobs, tests, revision, queue, busy, reads, retrying, crashes>>

(* After a successful turn: the targets mentioned in the session so far    *)
(* are planned under the lock.                                             *)
Schedule(s) ==
    /\ Unlocked
    /\ \E M \in SUBSET Targets : \E C \in Selections(jobs, s, M) :
          \E req \in [C -> Requests] :
             plan' = {NewRow("automatic", s, t, Opportunity(t), req[t]) : t \in C}
    /\ UNCHANGED <<jobs, tests, revision, queue, busy, reads, retrying, crashes>>

EnqueuePlanned(r) ==
    /\ r \in plan
    /\ \/ /\ \E q \in jobs \cup {r} : Enqueue(r, q) /\ SubmitIfQueued(q)
          /\ plan' = plan \ {r}
       \/ /\ Twins(r) = {} /\ OverBudget(r)
          /\ plan' = {}
          /\ UNCHANGED <<jobs, queue>>
    /\ UNCHANGED <<tests, revision, busy, reads, retrying, crashes>>

(* A turn asks for an assessment.  An active explicit job or assessment of *)
(* the same request is the answer; otherwise a job is enqueued, even when  *)
(* the target is protected.                                                *)
EnqueueExplicit(s, t, req, e) ==
    /\ Unlocked
    /\ \A r \in jobs : r.id.opp # e
    /\ \A r \in jobs : r.id.target = t /\ r.request = req /\ Active(r)
                          => r.id.origin # "explicit"
    /\ \A x \in tests : x.target = t /\ ActiveTest(x) => x.request # req
    /\ LET r == NewRow("explicit", s, t, e, req) IN
       \E q \in jobs \cup {r} : Enqueue(r, q) /\ SubmitIfQueued(q)
    /\ UNCHANGED <<tests, revision, plan, busy, reads, retrying, crashes>>

-----------------------------------------------------------------------------
(* Listing and retrying.                                                   *)

(* A page that shows the preparations polls them.                          *)
Poll ==
    /\ reads = {}
    /\ reads' = {r \in jobs : Active(r)}
    /\ reads' # {}
    /\ UNCHANGED <<jobs, tests, revision, plan, queue, busy, retrying, crashes>>

(* Mutant of ResumeListed: a listing only lists.                           *)
ResumeNothing(r) ==
    /\ Unlocked
    /\ r \in reads /\ r.status = "queued"
    /\ reads' = reads \ {r}
    /\ UNCHANGED <<jobs, tests, revision, plan, queue, busy, retrying, crashes>>

ResumeListed(r) ==
    /\ Unlocked
    /\ r \in reads /\ r.status = "queued"
    /\ SubmitIfQueued(r)
    /\ reads' = reads \ {r}
    /\ UNCHANGED <<jobs, tests, revision, plan, busy, retrying, crashes>>

(* The row is less than fifteen minutes old, or it has a live future.      *)
SkipListed(r) ==
    /\ Unlocked
    /\ r \in reads /\ r.status = "generating"
    /\ reads' = reads \ {r}
    /\ UNCHANGED <<jobs, tests, revision, plan, queue, busy, retrying, crashes>>

(* Mutant of ExpireListed: the future is not looked at.                    *)
ExpireListedBlindly(r) ==
    /\ Unlocked
    /\ r \in reads /\ r.status = "generating"
    /\ jobs' = Replaced(r, Failed(r, r.progress, r.progress))
    /\ reads' = reads \ {r}
    /\ UNCHANGED <<tests, revision, plan, queue, busy, retrying, crashes>>

(* Nobody works at the row any more and it is fifteen minutes old.         *)
ExpireListed(r) ==
    /\ Unlocked
    /\ r \in reads /\ r.status = "generating"
    /\ ~Running(r.id)
    /\ jobs' = Replaced(r, Failed(r, r.progress, r.progress))
    /\ reads' = reads \ {r}
    /\ UNCHANGED <<tests, revision, plan, queue, busy, retrying, crashes>>

AskForRetry(r) ==
    /\ retrying = None
    /\ r \in jobs /\ r.status \in {"failed", "queued"} /\ r.stamp < MaxStamp
    /\ retrying' = r
    /\ UNCHANGED <<jobs, tests, revision, plan, queue, busy, reads, crashes>>

Retry ==
    LET r == retrying
        retried == IF r.status = "failed" /\ r \in jobs THEN Queued(r) ELSE r IN
    /\ Unlocked
    /\ r # None
    /\ retrying' = None
    /\ \/ /\ ~Running(r.id)
          /\ r.status = "failed" => r.retryable
          /\ jobs' = Replaced(r, retried)
          /\ SubmitIfQueued(retried)
       \/ /\ Running(r.id) \/ (r.status = "failed" /\ ~r.retryable)
          /\ UNCHANGED <<jobs, queue>>
    /\ UNCHANGED <<tests, revision, plan, busy, reads, crashes>>

-----------------------------------------------------------------------------
(* The worker.                                                             *)

At(stage) == busy # None /\ busy.stage = stage

(* Only a row that is still as it was submitted is worked at.              *)
Start ==
    /\ busy = None /\ queue # <<>>
    /\ LET r == Head(queue) IN
       /\ jobs' = Replaced(r, Generating(r))
       /\ busy' = IF r \in jobs THEN [row |-> Generating(r), stage |-> "assign", test |-> None]
                                ELSE None
    /\ queue' = Tail(queue)
    /\ UNCHANGED <<tests, revision, plan, reads, retrying, crashes>>

(* Mutant of Existing: the active assessment of the target is not asked for. *)
ExistingOwn(r) == {x \in tests : x.id = r.id}

(* The assessments that answer the job without any generation: its own, or *)
(* the active one of its target if the resources are still the planned.    *)
Existing(r) ==
    LET own == {x \in tests : x.id = r.id} IN
    IF own # {} THEN own
    ELSE {x \in tests : x.target = r.id.target /\ ActiveTest(x) /\ r.revision = revision}

AssignExisting ==
    /\ At("assign")
    /\ \E x \in Existing(busy.row) : busy' = [busy EXCEPT !.stage = "ready", !.test = x.id]
    /\ UNCHANGED <<jobs, tests, revision, plan, queue, reads, retrying, crashes>>

StartGenerating ==
    /\ At("assign")
    /\ Existing(busy.row) = {}
    /\ busy.row.revision = revision
    /\ busy' = [busy EXCEPT !.stage = "generate"]
    /\ UNCHANGED <<jobs, tests, revision, plan, queue, reads, retrying, crashes>>

Sequel(t) == Cardinality({x \in tests : x.target = t}) + 1

(* Mutant of Publish: the resources are not compared a second time.        *)
PublishAnyway ==
    /\ At("generate")
    /\ tests' = tests \cup {[id |-> busy.row.id, target |-> busy.row.id.target,
                             request |-> busy.row.request, revision |-> revision,
                             status |-> "ready", seq |-> Sequel(busy.row.id.target),
                             recorded |-> FALSE]}
    /\ busy' = [busy EXCEPT !.stage = "ready", !.test = busy.row.id]
    /\ UNCHANGED <<jobs, revision, plan, queue, reads, retrying, crashes>>

(* The generated questions are published if the resources are unchanged.   *)
Publish ==
    /\ At("generate")
    /\ busy.row.revision = revision
    /\ tests' = tests \cup {[id |-> busy.row.id, target |-> busy.row.id.target,
                             request |-> busy.row.request, revision |-> revision,
                             status |-> "ready", seq |-> Sequel(busy.row.id.target),
                             recorded |-> FALSE]}
    /\ busy' = [busy EXCEPT !.stage = "ready", !.test = busy.row.id]
    /\ UNCHANGED <<jobs, revision, plan, queue, reads, retrying, crashes>>

(* Generation fails, with new progress or none, or the resources changed.  *)
Fail ==
    /\ \/ /\ At("generate")
          /\ \E p \in BOOLEAN, b \in BOOLEAN :
                \/ jobs' = Replaced(busy.row, Failed(busy.row, p, p))
                \/ jobs' = Replaced(busy.row, Failed(busy.row, busy.row.progress, b))
       \/ /\ At("assign")
          /\ \A x \in tests : x.id # busy.row.id
          /\ busy.row.revision # revision
          /\ jobs' = Replaced(busy.row, Failed(busy.row, busy.row.progress, FALSE))
    /\ busy' = None
    /\ UNCHANGED <<tests, revision, plan, queue, reads, retrying, crashes>>

(* Mutant of Finish: the job is taken to be answered by its own assessment. *)
FinishWithOwn ==
    /\ Unlocked
    /\ At("ready")
    /\ jobs' = Replaced(busy.row, Ready(busy.row, busy.row.id))
    /\ busy' = None
    /\ UNCHANGED <<tests, revision, plan, queue, reads, retrying, crashes>>

Finish ==
    /\ Unlocked
    /\ At("ready")
    /\ jobs' = Replaced(busy.row, Ready(busy.row, busy.test))
    /\ busy' = None
    /\ UNCHANGED <<tests, revision, plan, queue, reads, retrying, crashes>>

-----------------------------------------------------------------------------
(* The student and the rest of the world.                                  *)

Rewrite(x, y) == tests' = (tests \ {x}) \cup {y}

Open(x) ==
    /\ x \in tests /\ x.status = "ready"
    /\ Rewrite(x, [x EXCEPT !.status = "in_progress"])
    /\ UNCHANGED <<jobs, revision, loopVars, crashes>>

(* The score is stored; its evidence may fail to be.                       *)
Submit(x) ==
    /\ x \in tests /\ x.status = "in_progress"
    /\ \E ok \in BOOLEAN : Rewrite(x, [x EXCEPT !.status = "submitted", !.recorded = ok])
    /\ UNCHANGED <<jobs, revision, loopVars, crashes>>

SubmitAgain(x) ==
    /\ x \in tests /\ x.status = "submitted" /\ ~x.recorded
    /\ Rewrite(x, [x EXCEPT !.recorded = TRUE])
    /\ UNCHANGED <<jobs, revision, loopVars, crashes>>

ChangeResources ==
    /\ revision < MaxRevision
    /\ revision' = revision + 1
    /\ UNCHANGED <<jobs, tests, loopVars, crashes>>

(* The process dies and is started again; the database stays.              *)
Crash ==
    /\ crashes < MaxCrashes
    /\ crashes' = crashes + 1
    /\ plan' = {}
    /\ queue' = <<>>
    /\ busy' = None
    /\ reads' = {}
    /\ retrying' = None
    /\ UNCHANGED <<jobs, tests, revision>>

Worker == Start \/ AssignExisting \/ StartGenerating \/ Publish \/ Fail \/ Finish

Next ==
    \/ \E s \in Sessions : Schedule(s)
    \/ \E r \in plan : EnqueuePlanned(r)
    \/ \E s \in Sessions, t \in Targets, req \in Requests, e \in ExplicitIds :
          EnqueueExplicit(s, t, req, e)
    \/ Poll
    \/ \E r \in reads : ResumeListed(r) \/ SkipListed(r) \/ ExpireListed(r)
    \/ \E r \in jobs : AskForRetry(r)
    \/ Retry
    \/ Worker
    \/ \E x \in tests : Open(x) \/ Submit(x) \/ SubmitAgain(x)
    \/ ChangeResources
    \/ Crash

Spec == Init /\ [][Next]_vars

(* The student keeps the page of preparations open, which polls.  Nothing  *)
(* is assumed of turns, students, retries and crashes.                     *)
Fairness ==
    /\ WF_vars(Worker)
    /\ WF_vars(\E r \in plan : EnqueuePlanned(r))
    /\ WF_vars(Poll)
    /\ WF_vars(\E r \in reads : ResumeListed(r) \/ SkipListed(r) \/ ExpireListed(r))
    /\ SF_vars(\E r \in reads : ExpireListed(r))

FairSpec == Spec /\ Fairness

-----------------------------------------------------------------------------

JobIds == [origin : {"automatic"}, session : Sessions, target : Targets,
           opp : Nat \X (0..MaxRevision)]
          \cup [origin : {"explicit"}, session : Sessions, target : Targets, opp : ExplicitIds]

ASSUME NoneIsNoJob == None \notin JobIds

Rows == [id : JobIds, request : Requests, revision : 0..MaxRevision,
         status : {"queued", "generating", "ready", "failed"},
         progress : BOOLEAN, retryable : BOOLEAN, stamp : Nat, test : JobIds \cup {None}]

Tests == [id : JobIds, target : Targets, request : Requests, revision : 0..MaxRevision,
          status : {"ready", "in_progress", "submitted"}, seq : Nat, recorded : BOOLEAN]

TypeOK ==
    /\ jobs \subseteq Rows
    /\ tests \subseteq Tests
    /\ revision \in 0..MaxRevision
    /\ plan \subseteq Rows
    /\ queue \in Seq(Rows)
    /\ busy = None \/ busy \in [row : Rows, stage : {"assign", "generate", "ready"},
                                 test : JobIds \cup {None}]
    /\ reads \subseteq Rows
    /\ retrying \in Rows \cup {None}
    /\ crashes \in 0..MaxCrashes
    /\ \A r \in jobs : /\ r.retryable => r.status = "failed"
                       /\ r.status = "ready" <=> r.test # None

(* One job and one assessment per identity, and never two assessments of   *)
(* one target that the student can still answer: allocation looks for the  *)
(* active assessment long before it publishes another one.                 *)
OneActiveTestPerTarget ==
    /\ \A r, q \in jobs : r.id = q.id => r = q
    /\ \A x, y \in tests :
          \/ x.id = y.id
          \/ x.target = y.target /\ ActiveTest(x) /\ ActiveTest(y)
          => x = y

(* What a finished job announces exists and is about the job's target,     *)
(* whether it was generated for this job or found.                         *)
ReadyJobsNameATest ==
    \A r \in jobs : r.status = "ready" =>
       \E x \in tests : x.id = r.test /\ x.target = r.id.target

(* Nobody else moves the row that the worker is at, although listings and  *)
(* retries act on rows they have read before.                              *)
WorkerOwnsItsRow == busy # None => busy.row \in jobs /\ busy.row.status = "generating"

(* An assessment was generated against the resources that its plan froze.  *)
PlansAreFrozen ==
    \A x \in tests, r \in jobs : x.id = r.id => x.revision = r.revision

Asked(J, s) == {r \in J : r.id.session = s /\ r.id.origin = "explicit"}
TargetsOf(J) == {r.id.target : r \in J}

(* The automatic practice of a session stays within its three budgets,     *)
(* failed preparations included.  A target that was asked for explicitly   *)
(* is as good as planned to the planner: the number of targets is bounded  *)
(* for the others.                                                         *)
BudgetsHold ==
    \A s \in Sessions :
       LET own == Automatic(jobs, s) IN
       /\ Cardinality(own) <= MaxJobs
       /\ Cardinality(TargetsOf(own) \ TargetsOf(Asked(jobs, s))) <= MaxTargets
       /\ \A t \in Targets : Cardinality({r \in own : r.id.target = t}) <= MaxPerTarget

(* The rows of assessment_preparations are sound whoever moves them: the   *)
(* worker's own row is left to it, an assessment uses the resources its    *)
(* plan froze, and failures and retries never buy practice over budget.    *)
RowsAreSound == TypeOK /\ WorkerOwnsItsRow /\ PlansAreFrozen /\ BudgetsHold

(* A target has one open assessment, which answers every preparation of    *)
(* it, however many were asked for while it was being made.                *)
TestsAreShared == OneActiveTestPerTarget /\ ReadyJobsNameATest

(* Every preparation ends, through crashes as well: a listing resumes it   *)
(* or declares it failed.                                                  *)
EveryJobSettles == []<>(\A r \in jobs : ~Active(r))

=============================================================================
