----------------------------- MODULE ChatTurns -----------------------------
(***************************************************************************)
(* One chat request from the HTTP handler to the stored answer:            *)
(* api/chat_application.py (handlers), api/chat_streaming.py (the worker   *)
(* thread of a streamed turn), api/stream_jobs.py (the job registry),      *)
(* api/chat_sessions.py (the per-session operation lock and the history    *)
(* mutations) and the message operations of api/session_repository.py.     *)
(*                                                                         *)
(* Handlers run on one event loop, so a handler step is everything between *)
(* two awaits.  A worker is a thread: its steps interleave with everything *)
(* and it can see the session disappear between any two of its database    *)
(* transactions.  The admission gate is GenerationAdmission; its actions   *)
(* are conjuncts of the handler steps that call it.                        *)
(***************************************************************************)
EXTENDS GenerationAdmission, Sequences

\* The gate's Requests are the HTTP requests; a request is also the name of its turn.
CONSTANTS Sessions,
          None,          \* no request
          MaxCrashes     \* bound on process restarts

ASSUME NoneAssumption == None \notin Requests

ASSUME SessionsAssumption == Sessions # {}

ASSUME BoundsAssumption == MaxCrashes \in Nat

VARIABLES
    kind,      \* which endpoint each request calls
    session,   \* which session it is about
    target,    \* for a continuation: the turn whose answer it continues
    pc,        \* where the handler of each request is
    lock,      \* session_operation_lock: the turn that owns it
    history,   \* the messages of each session
    alive,     \* the session row exists and is not soft-deleted
    registry,  \* StreamJobRegistry._jobs: the latest job of each session
    job,       \* status of the job started by a request
    stop,      \* its cancel_event
    worker,    \* where its worker thread is
    outcome,   \* the status the worker is about to store
    retried,   \* the worker is in its except branch
    crashes

requestVars   == <<kind, session, target>>
storeVars     == <<history, alive>>
jobVars       == <<registry, job, stop>>
workerVars    == <<worker, outcome, retried>>
vars == <<active, queued, place, late, kind, session, target, pc, lock, history,
          alive, registry, job, stop, worker, outcome, retried, crashes>>

Abstract == INSTANCE Conversation WITH log <- history, Turns <- Requests

Kinds == {"send", "stream", "continue", "clear"}

HandlerStates == {"new", "admission", "created", "lockWait", "open", "agent",
                  "answered", "undo", "follow", "over", "refused", "gone", "failed"}

(* "created": the endpoint has returned a generator that has not started.  *)
(* "open": the generator holds the lock and is suspended at its first      *)
(* yield.  "follow": it relays the events of its job.                      *)
Finished == {"over", "refused", "gone", "failed"}

WorkerStates == {"none", "pull", "drafted", "persist", "replace", "append",
                 "publish", "giveUp", "closing", "exited"}

(* "unsaved": the final event says the answer could not be stored.         *)
JobStates == {"none", "running", "completed", "stopped", "error", "unsaved", "lost"}

Settled == {"completed", "stopped", "error"}

Question(t)   == [turn |-> t, role |-> "user", status |-> "asked"]
Answer(t, st) == [turn |-> t, role |-> "assistant", status |-> st]
Draft(t)      == Answer(t, "draft")

EndsWith(s, m) == history[s] # <<>> /\ history[s][Len(history[s])] = m
Stored(s, m)   == \E i \in DOMAIN history[s] : history[s][i] = m

(* The turn whose message the worker of r writes: timestamps identify      *)
(* messages, and a continuation keeps the timestamp of its target.         *)
TurnOf(r) == IF kind[r] = "continue" THEN target[r] ELSE r

Init ==
    /\ InitGate
    /\ kind = [r \in Requests |-> "send"]
    /\ session = [r \in Requests |-> CHOOSE s \in Sessions : TRUE]
    /\ target = [r \in Requests |-> None]
    /\ pc = [r \in Requests |-> "new"]
    /\ lock = [s \in Sessions |-> None]
    /\ history = [s \in Sessions |-> <<>>]
    /\ alive = [s \in Sessions |-> TRUE]
    /\ registry = [s \in Sessions |-> None]
    /\ job = [r \in Requests |-> "none"]
    /\ stop = [r \in Requests |-> FALSE]
    /\ worker = [r \in Requests |-> "none"]
    /\ outcome = [r \in Requests |-> "error"]
    /\ retried = [r \in Requests |-> FALSE]
    /\ crashes = 0

-----------------------------------------------------------------------------
(* History mutations, one SQLite transaction each.                         *)

Goto(r, p) == pc' = [pc EXCEPT ![r] = p]

Store(s, messages) == /\ history' = [history EXCEPT ![s] = messages]
                      /\ UNCHANGED alive

AppendMessage(s, m) == Store(s, Append(history[s], m))

(* replace_message: the row is found by its id and keeps its position.     *)
ReplaceMessage(s, old, new) ==
    Store(s, [i \in DOMAIN history[s] |->
                IF history[s][i] = old THEN new ELSE history[s][i]])

(* Mutant of RemoveMessage: the last exchange is dropped.                  *)
RemoveLastExchange(s, m) ==
    Store(s, SubSeq(history[s], 1, IF Len(history[s]) > 2 THEN Len(history[s]) - 2 ELSE 0))

(* delete_message: the positions above the removed row move down by one.   *)
RemoveMessage(s, m) ==
    \/ \E p \in DOMAIN history[s] :
          /\ history[s][p] = m
          /\ Store(s, [i \in 1..(Len(history[s]) - 1) |->
                         history[s][IF i < p THEN i ELSE i + 1]])
    \/ ~Stored(s, m) /\ UNCHANGED storeVars

-----------------------------------------------------------------------------
(* Arrival and admission.                                                  *)

(* The handler that runs once the slot is leased.                          *)
Leased(r) == IF kind'[r] = "send" THEN "lockWait" ELSE "created"

(* ensure_session_owner, then the gate up to its first await.              *)
Arrive(r, k, s, t) ==
    /\ pc[r] = "new"
    /\ kind' = [kind EXCEPT ![r] = k]
    /\ session' = [session EXCEPT ![r] = s]
    /\ target' = [target EXCEPT ![r] = t]
    /\ k = "continue" => \E i \in DOMAIN history[s] :
                            history[s][i].turn = t /\ history[s][i].role = "assistant"
    /\ k # "continue" => t = None
    /\ \/ /\ ~alive[s]
          /\ Goto(r, "failed")
          /\ UNCHANGED admissionVars
       \/ /\ alive[s]
          /\ k = "clear"
          /\ Goto(r, "lockWait")
          /\ UNCHANGED admissionVars
       \/ /\ alive[s]
          /\ k # "clear"
          /\ \/ AdmitNow(r) /\ Goto(r, Leased(r))
             \/ Join(r) /\ Goto(r, "admission")
             \/ RefuseFull(r) /\ Goto(r, "refused")
    /\ UNCHANGED <<lock, storeVars, jobVars, workerVars, crashes>>

PollGate(r) ==
    /\ pc[r] = "admission"
    /\ \/ Claim(r) /\ UNCHANGED requestVars /\ Goto(r, Leased(r))
       \/ TimeOut(r) /\ UNCHANGED requestVars /\ Goto(r, "refused")
    /\ UNCHANGED <<lock, storeVars, jobVars, workerVars, crashes>>

CancelInQueue(r) ==
    /\ pc[r] = "admission"
    /\ Cancel(r)
    /\ Goto(r, "gone")
    /\ UNCHANGED <<requestVars, lock, storeVars, jobVars, workerVars, crashes>>

PassDeadline(r) ==
    /\ DeadlinePasses(r)
    /\ UNCHANGED <<requestVars, pc, lock, storeVars, jobVars, workerVars, crashes>>

-----------------------------------------------------------------------------
(* Non-streaming endpoints: send_message and clear_history.                *)

(* The lock is taken and the question stored without an await in between.  *)
SendBegin(r) ==
    LET s == session[r] IN
    /\ pc[r] = "lockWait"
    /\ kind[r] = "send"
    /\ lock[s] = None
    /\ \/ /\ alive[s]
          /\ lock' = [lock EXCEPT ![s] = r]
          /\ AppendMessage(s, Question(r))
          /\ Goto(r, "agent")
          /\ UNCHANGED admissionVars
       \/ /\ ~alive[s]
          /\ Release(r)
          /\ Goto(r, "failed")
          /\ UNCHANGED <<lock, storeVars>>
    /\ UNCHANGED <<requestVars, jobVars, workerVars, crashes>>

(* The agent, in a thread of the pool, stores its completed answer.        *)
SendAgentDrafts(r) ==
    LET s == session[r] IN
    /\ pc[r] = "agent"
    /\ alive[s]
    /\ AppendMessage(s, Draft(r))
    /\ Goto(r, "answered")
    /\ UNCHANGED <<admissionVars, requestVars, lock, jobVars, workerVars, crashes>>

(* It raises: routing or generation failed, the session is gone, or the    *)
(* read-back after the append failed.                                      *)
SendAgentRaises(r) ==
    /\ pc[r] \in {"agent", "answered"}
    /\ Goto(r, "undo")
    /\ UNCHANGED <<admissionVars, requestVars, lock, storeVars, jobVars, workerVars, crashes>>

(* The except branch of send_message, then both context managers.          *)
SendUndo(r) ==
    LET s == session[r] IN
    /\ pc[r] = "undo"
    /\ RemoveMessage(s, Question(r))
    /\ lock' = [lock EXCEPT ![s] = None]
    /\ Release(r)
    /\ Goto(r, "failed")
    /\ UNCHANGED <<requestVars, jobVars, workerVars, crashes>>

(* Back on the event loop: the draft becomes the API projection.           *)
SendFinish(r) ==
    LET s == session[r] IN
    /\ pc[r] = "answered"
    /\ \/ /\ EndsWith(s, Draft(r))
          /\ ReplaceMessage(s, Draft(r), Answer(r, "completed"))
          /\ Goto(r, "over")
       \/ /\ ~alive[s]
          /\ Goto(r, "failed")
          /\ UNCHANGED storeVars
    /\ lock' = [lock EXCEPT ![s] = None]
    /\ Release(r)
    /\ UNCHANGED <<requestVars, jobVars, workerVars, crashes>>

ClearHistory(r) ==
    LET s == session[r] IN
    /\ pc[r] = "lockWait"
    /\ kind[r] = "clear"
    /\ lock[s] = None
    /\ IF alive[s] THEN Store(s, <<>>) ELSE UNCHANGED storeVars
    /\ Goto(r, "over")
    /\ UNCHANGED <<admissionVars, requestVars, lock, jobVars, workerVars, crashes>>

-----------------------------------------------------------------------------
(* Streaming endpoints, on the event loop.                                 *)

(* The response task runs the generator up to its first await.             *)
StartGenerator(r) ==
    /\ pc[r] = "created"
    /\ Goto(r, "lockWait")
    /\ UNCHANGED <<admissionVars, requestVars, lock, storeVars, jobVars, workerVars, crashes>>

(* Mutant of OpenStream: the session lock is not waited for.               *)
OpenStreamUnlocked(r) ==
    /\ pc[r] = "lockWait"
    /\ kind[r] \in {"stream", "continue"}
    /\ lock' = [lock EXCEPT ![session[r]] = r]
    /\ Goto(r, "open")
    /\ UNCHANGED <<admissionVars, requestVars, storeVars, jobVars, workerVars, crashes>>

OpenStream(r) ==
    LET s == session[r] IN
    /\ pc[r] = "lockWait"
    /\ kind[r] \in {"stream", "continue"}
    /\ lock[s] = None
    /\ lock' = [lock EXCEPT ![s] = r]
    /\ Goto(r, "open")
    /\ UNCHANGED <<admissionVars, requestVars, storeVars, jobVars, workerVars, crashes>>

(* registry.register and the start of the worker thread, which owns the    *)
(* operation lock from here on.                                            *)
Launch(r) ==
    /\ registry' = [registry EXCEPT ![session[r]] = r]
    /\ job' = [job EXCEPT ![r] = "running"]
    /\ worker' = [worker EXCEPT ![r] = "pull"]
    /\ Goto(r, "follow")
    /\ UNCHANGED <<admissionVars, requestVars, lock, stop, outcome, retried, crashes>>

LaunchStream(r) ==
    /\ pc[r] = "open"
    /\ kind[r] = "stream"
    /\ alive[session[r]]
    /\ AppendMessage(session[r], Question(r))
    /\ Launch(r)

(* find_stopped_assistant_turn accepts only the last message.              *)
LaunchContinuation(r) ==
    /\ pc[r] = "open"
    /\ kind[r] = "continue"
    /\ EndsWith(session[r], Answer(target[r], "stopped"))
    /\ UNCHANGED storeVars
    /\ Launch(r)

(* Mutant of CloseGenerator: the lock is given back even after the worker  *)
(* has taken it over.                                                      *)
CloseGeneratorAlwaysUnlocks(r, p) ==
    /\ lock' = [lock EXCEPT ![session[r]] = None]
    /\ Release(r)
    /\ Goto(r, p)
    /\ UNCHANGED <<requestVars, storeVars, jobVars, workerVars, crashes>>

(* The finally block of the generator.                                     *)
CloseGenerator(r, p) ==
    /\ IF pc[r] = "open" THEN lock' = [lock EXCEPT ![session[r]] = None]
                         ELSE UNCHANGED lock
    /\ Release(r)
    /\ Goto(r, p)
    /\ UNCHANGED <<requestVars, storeVars, jobVars, workerVars, crashes>>

(* KeyError for a deleted session; 409 for a turn that cannot be continued.*)
RefuseToLaunch(r) ==
    /\ pc[r] = "open"
    /\ \/ kind[r] = "stream" /\ ~alive[session[r]]
       \/ kind[r] = "continue" /\ ~EndsWith(session[r], Answer(target[r], "stopped"))
    /\ CloseGenerator(r, "failed")

(* Mutant of EndOfStream: only a completed job ends the response.          *)
EndOfCompletedStream(r) ==
    /\ pc[r] = "follow"
    /\ job[r] = "completed"
    /\ CloseGenerator(r, "over")

EndOfStream(r) ==
    /\ pc[r] = "follow"
    /\ job[r] \in JobStates \ {"none", "running"}
    /\ CloseGenerator(r, "over")

(* The client disconnects while the generator is inside its try block.     *)
Disconnect(r) ==
    /\ pc[r] \in {"open", "follow"}
    /\ CloseGenerator(r, "gone")

(* Mutant of DisconnectEarly: the counter is decremented behind the lease. *)
DisconnectEarlyUncounted(r) ==
    /\ pc[r] = "created"
    /\ active' = active - 1
    /\ Goto(r, "gone")
    /\ UNCHANGED <<queued, place, late, requestVars, lock, storeVars, jobVars,
                   workerVars, crashes>>

(* The client disconnects before that: the generator has not started or is *)
(* awaiting the session lock, outside the try block whose finally releases *)
(* the lease.                                                              *)
DisconnectEarly(r) ==
    /\ \/ pc[r] = "created"
       \/ pc[r] = "lockWait" /\ kind[r] \in {"stream", "continue"}
    /\ Goto(r, "gone")
    /\ UNCHANGED <<admissionVars, requestVars, lock, storeVars, jobVars, workerVars, crashes>>

-----------------------------------------------------------------------------
(* The worker thread of launch_stream_worker.                              *)

WorkerOnly == UNCHANGED <<admissionVars, requestVars, pc, crashes>>

(* _publish_final begins: the status is settled, the history is next.      *)
Settle(r, st) ==
    /\ outcome' = [outcome EXCEPT ![r] = st]
    /\ worker' = [worker EXCEPT ![r] = "persist"]

(* The agent stores its completed answer, before its final event.          *)
AgentDrafts(r) ==
    /\ worker[r] = "pull"
    /\ kind[r] = "stream"
    /\ alive[session[r]]
    /\ AppendMessage(session[r], Draft(r))
    /\ worker' = [worker EXCEPT ![r] = "drafted"]
    /\ UNCHANGED <<lock, jobVars, outcome, retried>>
    /\ WorkerOnly

(* The stop flag is looked at when an event arrives, before the event is.  *)
ReceiveStopped(r) ==
    /\ worker[r] \in {"pull", "drafted"}
    /\ stop[r]
    /\ Settle(r, "stopped")
    /\ UNCHANGED <<lock, storeVars, jobVars, retried>>
    /\ WorkerOnly

(* Mutant of ReceiveFinal: the stop flag is not looked at.                 *)
ReceiveFinalUnchecked(r) ==
    /\ worker[r] \in {"pull", "drafted"}
    /\ \/ Settle(r, "error")
       \/ /\ worker[r] = "drafted" \/ kind[r] = "continue"
          /\ Settle(r, "completed")
    /\ UNCHANGED <<lock, storeVars, jobVars, retried>>
    /\ WorkerOnly

(* The final event of the source, or its end without one.  Only a stored   *)
(* draft, or a continuation, completes a turn.                             *)
ReceiveFinal(r) ==
    /\ worker[r] \in {"pull", "drafted"}
    /\ ~stop[r]
    /\ \/ Settle(r, "error")
       \/ /\ worker[r] = "drafted" \/ kind[r] = "continue"
          /\ Settle(r, "completed")
    /\ UNCHANGED <<lock, storeVars, jobVars, retried>>
    /\ WorkerOnly

(* The source raises: the except branch of the worker takes over.          *)
SourceRaises(r) ==
    /\ worker[r] \in {"pull", "drafted"}
    /\ Settle(r, "error")
    /\ retried' = [retried EXCEPT ![r] = TRUE]
    /\ UNCHANGED <<lock, storeVars, jobVars>>
    /\ WorkerOnly

(* replace_latest_generated_assistant, first half: look at the last        *)
(* message.  A continuation already knows which message it replaces.       *)
ChooseWrite(r) ==
    /\ worker[r] = "persist"
    /\ worker' = [worker EXCEPT ![r] =
                     IF kind[r] = "continue" \/ EndsWith(session[r], Draft(r))
                     THEN "replace" ELSE "append"]
    /\ UNCHANGED <<lock, storeVars, jobVars, outcome, retried>>
    /\ WorkerOnly

(* An exception in _publish_final: the except branch tries once more with  *)
(* status error, then gives up on storing.                                 *)
Raise(r) ==
    IF retried[r]
    THEN /\ worker' = [worker EXCEPT ![r] = "giveUp"]
         /\ UNCHANGED <<outcome, retried>>
    ELSE /\ Settle(r, "error")
         /\ retried' = [retried EXCEPT ![r] = TRUE]

(* The message this worker replaces.                                       *)
Replaced(r) == IF kind[r] = "continue" THEN Answer(target[r], "stopped") ELSE Draft(r)

WriteReplacement(r) ==
    LET s == session[r] IN
    /\ worker[r] = "replace"
    /\ \/ /\ Stored(s, Replaced(r))
          /\ ReplaceMessage(s, Replaced(r), Answer(TurnOf(r), outcome[r]))
          /\ worker' = [worker EXCEPT ![r] = "publish"]
          /\ UNCHANGED <<outcome, retried>>
       \/ /\ ~Stored(s, Replaced(r))
          /\ UNCHANGED storeVars
          /\ IF kind[r] = "continue"
             THEN Raise(r)
             ELSE /\ worker' = [worker EXCEPT ![r] = "append"]
                  /\ UNCHANGED <<outcome, retried>>
    /\ UNCHANGED <<lock, jobVars>>
    /\ WorkerOnly

WriteAppend(r) ==
    LET s == session[r] IN
    /\ worker[r] = "append"
    /\ \/ /\ alive[s]
          /\ AppendMessage(s, Answer(r, outcome[r]))
          /\ worker' = [worker EXCEPT ![r] = "publish"]
          /\ UNCHANGED <<outcome, retried>>
       \/ /\ ~alive[s]
          /\ Raise(r)
          /\ UNCHANGED storeVars
    /\ UNCHANGED <<lock, jobVars>>
    /\ WorkerOnly

(* Mutant of WriteFails: the failure is swallowed and the event published. *)
WriteFailsUnnoticed(r) ==
    /\ worker[r] \in {"persist", "replace", "append"}
    /\ worker' = [worker EXCEPT ![r] = "publish"]
    /\ UNCHANGED <<lock, storeVars, jobVars, outcome, retried>>
    /\ WorkerOnly

(* SQLite fails in the middle of the persistence.                          *)
WriteFails(r) ==
    /\ worker[r] \in {"persist", "replace", "append"}
    /\ Raise(r)
    /\ UNCHANGED <<lock, storeVars, jobVars>>
    /\ WorkerOnly

(* Mutant of PublishFinal: nothing is published when storing failed.       *)
PublishSavedOnly(r) ==
    /\ worker[r] \in {"publish", "giveUp"}
    /\ job' = IF worker[r] = "publish" THEN [job EXCEPT ![r] = outcome[r]] ELSE job
    /\ worker' = [worker EXCEPT ![r] = "closing"]
    /\ UNCHANGED <<lock, storeVars, registry, stop, outcome, retried>>
    /\ WorkerOnly

PublishFinal(r) ==
    /\ \/ /\ worker[r] = "publish"
          /\ job' = [job EXCEPT ![r] = outcome[r]]
       \/ /\ worker[r] = "giveUp"
          /\ job' = [job EXCEPT ![r] = "unsaved"]
    /\ worker' = [worker EXCEPT ![r] = "closing"]
    /\ UNCHANGED <<lock, storeVars, registry, stop, outcome, retried>>
    /\ WorkerOnly

(* Mutant of ExitWorker: closing the source raises past the release.       *)
ExitWorkerLocked(r) ==
    /\ worker[r] = "closing"
    /\ worker' = [worker EXCEPT ![r] = "exited"]
    /\ UNCHANGED <<lock, storeVars, jobVars, outcome, retried>>
    /\ WorkerOnly

(* The finally block: the source is closed, the lock given back.           *)
ExitWorker(r) ==
    /\ worker[r] = "closing"
    /\ worker' = [worker EXCEPT ![r] = "exited"]
    /\ lock' = [lock EXCEPT ![session[r]] = None]
    /\ UNCHANGED <<storeVars, jobVars, outcome, retried>>
    /\ WorkerOnly

-----------------------------------------------------------------------------
(* The rest of the API and the environment.                                *)

(* cancel_generation: only a registered, unfinished job can be told.       *)
CancelGeneration(s) ==
    /\ alive[s]
    /\ registry[s] # None
    /\ job[registry[s]] = "running"
    /\ stop' = [stop EXCEPT ![registry[s]] = TRUE]
    /\ UNCHANGED <<admissionVars, requestVars, pc, lock, storeVars, registry, job,
                   workerVars, crashes>>

(* Mutant of ExpireJob: the retention also ends for a job still running.   *)
ExpireAnyJob(s) ==
    /\ registry[s] # None
    /\ registry' = [registry EXCEPT ![s] = None]
    /\ UNCHANGED <<admissionVars, requestVars, pc, lock, storeVars, job, stop,
                   workerVars, crashes>>

(* _prune_expired_locked: a finished job leaves the registry after its     *)
(* retention.                                                              *)
ExpireJob(s) ==
    /\ registry[s] # None
    /\ job[registry[s]] # "running"
    /\ registry' = [registry EXCEPT ![s] = None]
    /\ UNCHANGED <<admissionVars, requestVars, pc, lock, storeVars, job, stop,
                   workerVars, crashes>>

(* delete_session does not ask for the operation lock.                     *)
DeleteSession(s) ==
    /\ alive[s]
    /\ history' = [history EXCEPT ![s] = <<>>]
    /\ alive' = [alive EXCEPT ![s] = FALSE]
    /\ UNCHANGED <<admissionVars, requestVars, pc, lock, jobVars, workerVars, crashes>>

(* The process dies and starts again; only the database survives.          *)
Restart ==
    /\ crashes < MaxCrashes
    /\ crashes' = crashes + 1
    /\ RestartGate
    /\ pc' = [r \in Requests |-> IF pc[r] \in {"new"} \cup Finished THEN pc[r] ELSE "gone"]
    /\ lock' = [s \in Sessions |-> None]
    /\ registry' = [s \in Sessions |-> None]
    /\ job' = [r \in Requests |-> IF job[r] = "running" THEN "lost" ELSE job[r]]
    /\ worker' = [r \in Requests |-> IF worker[r] = "none" THEN "none" ELSE "exited"]
    /\ UNCHANGED <<requestVars, storeVars, stop, outcome, retried>>

-----------------------------------------------------------------------------

Handler(r) ==
    \/ \E k \in Kinds, s \in Sessions, t \in Requests \cup {None} : Arrive(r, k, s, t)
    \/ PollGate(r) \/ CancelInQueue(r) \/ PassDeadline(r)
    \/ SendBegin(r) \/ SendAgentDrafts(r) \/ SendAgentRaises(r) \/ SendUndo(r)
    \/ SendFinish(r) \/ ClearHistory(r)
    \/ StartGenerator(r) \/ OpenStream(r) \/ LaunchStream(r) \/ LaunchContinuation(r)
    \/ RefuseToLaunch(r) \/ EndOfStream(r) \/ Disconnect(r) \/ DisconnectEarly(r)

Worker(r) ==
    \/ AgentDrafts(r) \/ ReceiveStopped(r) \/ ReceiveFinal(r) \/ SourceRaises(r)
    \/ ChooseWrite(r) \/ WriteReplacement(r) \/ WriteAppend(r) \/ WriteFails(r) \/ PublishFinal(r)
    \/ ExitWorker(r)

Next == \/ \E r \in Requests : Handler(r) \/ Worker(r)
        \/ \E s \in Sessions : CancelGeneration(s) \/ ExpireJob(s) \/ DeleteSession(s)
        \/ Restart

Spec == Init /\ [][Next]_vars

(* The event loop resumes every handler that can continue, the thread of a *)
(* worker is scheduled, the agent ends (its model calls are bounded by     *)
(* timeouts) and deadlines pass.  Nothing forces a client to arrive,       *)
(* disconnect, cancel or delete.                                           *)
Fairness ==
    \A r \in Requests :
        /\ WF_vars(PollGate(r))
        /\ WF_vars(PassDeadline(r))
        /\ WF_vars(SendBegin(r))
        /\ WF_vars(SendAgentDrafts(r) \/ SendAgentRaises(r) \/ SendFinish(r))
        /\ WF_vars(SendUndo(r))
        /\ WF_vars(ClearHistory(r))
        /\ WF_vars(StartGenerator(r))
        /\ WF_vars(OpenStream(r))
        /\ WF_vars(LaunchStream(r) \/ LaunchContinuation(r) \/ RefuseToLaunch(r))
        /\ WF_vars(EndOfStream(r))
        /\ WF_vars(Worker(r))

FairSpec == Spec /\ Fairness

-----------------------------------------------------------------------------
(* Properties.                                                             *)

TypeOK ==
    /\ GateTypeOK
    /\ kind \in [Requests -> Kinds]
    /\ session \in [Requests -> Sessions]
    /\ target \in [Requests -> Requests \cup {None}]
    /\ pc \in [Requests -> HandlerStates]
    /\ lock \in [Sessions -> Requests \cup {None}]
    /\ history \in [Sessions -> Seq(Abstract!Messages)]
    /\ alive \in [Sessions -> BOOLEAN]
    /\ registry \in [Sessions -> Requests \cup {None}]
    /\ job \in [Requests -> JobStates]
    /\ stop \in [Requests -> BOOLEAN]
    /\ worker \in [Requests -> WorkerStates]
    /\ outcome \in [Requests -> Settled]
    /\ retried \in [Requests -> BOOLEAN]
    /\ crashes \in 0..MaxCrashes

(* A turn is in progress while its handler is between taking the lock and  *)
(* handing it over or giving it back, or its worker has not exited.        *)
InProgress(r) == \/ pc[r] \in {"open", "agent", "answered", "undo"}
                 \/ worker[r] \notin {"none", "exited"}

(* session_operation_guard: complete turns of one session are serialized.  *)
(* Two turns of a session are never in progress together, and the lock is  *)
(* owned exactly while one is, across the handover from handler to worker. *)
TurnsAreSerialized ==
    /\ \A r \in Requests : InProgress(r) => lock[session[r]] = r
    /\ \A s \in Sessions : lock[s] # None => /\ session[lock[s]] = s
                                             /\ InProgress(lock[s])

(* An unfinished job is the registered job of its session, so it can be    *)
(* resumed and cancelled until its final event is out.                     *)
UnfinishedJobIsReachable ==
    \A r \in Requests : job[r] = "running" => registry[session[r]] = r

(* The hand-over from request handler to worker thread is safe: whatever   *)
(* the clients, the gate and the storage do, one turn of a session runs at *)
(* a time under a lock it owns, and the turn that runs can be found again. *)
SessionsAreSafe == TypeOK /\ TurnsAreSerialized /\ UnfinishedJobIsReachable

(* The final event of a job tells what the history says: once it is        *)
(* published and while the turn still owns the session, the answer is      *)
(* stored with that very status, unless the session has been deleted.      *)
FinalEventMatchesHistory ==
    \A r \in Requests :
        (worker[r] = "closing" /\ job[r] \in Settled /\ alive[session[r]])
            => Stored(session[r], Answer(TurnOf(r), job[r]))

(* A worker never exits without a final event: nobody follows a dead job.  *)
ExitMeansTerminal ==
    \A r \in Requests : worker[r] \in {"closing", "exited"} => job[r] \notin {"none", "running"}

(* An answer cannot be reported complete if cancellation was accepted      *)
(* while the agent was still producing events.                             *)
CancelledTurnNeverCompletes ==
    \A r \in Requests :
        [](stop[r] /\ worker[r] \in {"pull", "drafted"} => [](job[r] # "completed"))

(* The history of every session behaves as the abstract Conversation.      *)
ImplementsConversation == Abstract!Spec

(* The handlers use the gate as its own specification allows.              *)
UsesGateCorrectly == GateSpec

(* A job that was launched reaches a final event.                          *)
EveryJobEnds == \A r \in Requests : (job[r] = "running") ~> (job[r] # "running")

(* The lock of a session is given back, so the next turn can start.        *)
EveryLockIsFreed == \A s \in Sessions : (lock[s] # None) ~> (lock[s] = None)

(* A handler whose client stays connected is answered.                     *)
EveryRequestIsAnswered ==
    \A r \in Requests : (pc[r] # "new") ~> (pc[r] \in Finished)

(* Every turn comes to an end on all three sides: its job gets a final     *)
(* event, its session becomes usable again and its client is answered.     *)
EveryTurnIsSettled == EveryJobEnds /\ EveryLockIsFreed /\ EveryRequestIsAnswered

(* _GenerationLease: "Release one active model-generation slot exactly     *)
(* once": no handler is over while its lease is unreleased.                *)
LeasesAreReturned == \A r \in Requests : pc[r] \in Finished => place[r] # "leased"

=============================================================================
