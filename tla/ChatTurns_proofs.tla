-------------------------- MODULE ChatTurns_proofs --------------------------
(***************************************************************************)
(* The gate, the operation lock, the job registry, the worker threads and  *)
(* the stored histories of ChatTurns, for any number of requests and       *)
(* sessions: first that the gate keeps exact books and that turns are      *)
(* serialized; then what every history of a Conversation keeps; then that  *)
(* the histories of ChatTurns are those of a Conversation.                 *)
(***************************************************************************)
EXTENDS ChatTurns, FiniteSetTheorems, SequenceTheorems, TLAPS

-----------------------------------------------------------------------------
(* The gate: exact books for every number of requests and every pair of    *)
(* limits.                                                                 *)

(* Type correctness alone is not inductive: queued - 1 stays in Nat only   *)
(* because the counter equals the number of waiting requests.              *)
GateInv == GateTypeOK /\ Accounting /\ Bounded

(* Waiting and LeaseHolders are finite: their cardinalities are naturals.  *)
LEMMA FinitePlaces ==
    /\ IsFiniteSet(Waiting) /\ Cardinality(Waiting) \in Nat
    /\ IsFiniteSet(LeaseHolders) /\ Cardinality(LeaseHolders) \in Nat
  <1>1. Waiting \subseteq Requests /\ LeaseHolders \subseteq Requests
    BY DEF Waiting, LeaseHolders
  <1>2. IsFiniteSet(Waiting) /\ IsFiniteSet(LeaseHolders)
    BY <1>1, RequestsAssumption, FS_Subset
  <1>3. QED
    BY <1>2, FS_CardinalityType

(* How one move of a request changes the two sets.                         *)
LEMMA MoveEffect ==
    ASSUME GateTypeOK, NEW r \in Requests, NEW p \in Places, MoveTo(r, p)
    PROVE  /\ place' \in [Requests -> Places]
           /\ Waiting' = IF p = "waiting" THEN Waiting \cup {r} ELSE Waiting \ {r}
           /\ LeaseHolders' = IF p = "leased" THEN LeaseHolders \cup {r} ELSE LeaseHolders \ {r}
  BY DEF GateTypeOK, MoveTo, Waiting, LeaseHolders, Places

(* What adding or removing one request does to a cardinality.              *)
LEMMA CountEffect ==
    ASSUME NEW S, IsFiniteSet(S), NEW r
    PROVE  /\ Cardinality(S) \in Nat
           /\ r \notin S => Cardinality(S \cup {r}) = Cardinality(S) + 1
           /\ r \notin S => S \ {r} = S
           /\ r \in S => Cardinality(S \ {r}) = Cardinality(S) - 1
           /\ r \in S => Cardinality(S) > 0
  <1>1. Cardinality(S) \in Nat
    BY FS_CardinalityType
  <1>2. r \notin S => Cardinality(S \cup {r}) = Cardinality(S) + 1
    BY FS_AddElement
  <1>3. r \in S => Cardinality(S \ {r}) = Cardinality(S) - 1
    BY FS_RemoveElement
  <1>4. r \in S => Cardinality(S) # 0
    BY FS_EmptySet
  <1>5. QED
    BY <1>1, <1>2, <1>3, <1>4

(* The initial states satisfy the invariant.                               *)
LEMMA GateStarts == InitGate => GateInv
  <1> SUFFICES ASSUME InitGate PROVE GateInv
    OBVIOUS
  <1>1. GateTypeOK
    BY DEF InitGate, GateTypeOK, Places
  <1>2. Waiting = {} /\ LeaseHolders = {}
    BY DEF InitGate, Waiting, LeaseHolders
  <1>3. QED
    BY <1>1, <1>2, FS_EmptySet, LimitsAssumption DEF InitGate, GateInv, Accounting, Bounded

(* Every step preserves the invariant.                                     *)
LEMMA GateGoesOn == GateInv /\ [GateNext]_admissionVars => GateInv'
  <1> SUFFICES ASSUME GateInv, [GateNext]_admissionVars PROVE GateInv'
    OBVIOUS
  <1> USE LimitsAssumption
  <1>0. /\ GateTypeOK /\ Accounting /\ Bounded
        /\ active = Cardinality(LeaseHolders) /\ queued = Cardinality(Waiting)
        /\ active <= ActiveLimit /\ queued <= QueueLimit
        /\ IsFiniteSet(Waiting) /\ IsFiniteSet(LeaseHolders)
    BY FinitePlaces DEF GateInv, Accounting, Bounded
  <1>1. ASSUME NEW r \in Requests, AdmitNow(r) PROVE GateInv'
    <2>1. r \notin Waiting /\ r \notin LeaseHolders
      BY <1>1 DEF AdmitNow, Waiting, LeaseHolders
    <2>2. /\ place' \in [Requests -> Places]
          /\ Waiting' = Waiting \ {r} /\ LeaseHolders' = LeaseHolders \cup {r}
      BY <1>0, <1>1, MoveEffect DEF AdmitNow, Places
    <2>3. Cardinality(Waiting') = queued /\ Cardinality(LeaseHolders') = active + 1
      BY <1>0, <2>1, <2>2, CountEffect
    <2>4. QED
      BY <1>0, <1>1, <2>2, <2>3 DEF AdmitNow, GateInv, GateTypeOK, Accounting, Bounded
  <1>2. ASSUME NEW r \in Requests, RefuseFull(r) PROVE GateInv'
    <2>1. r \notin Waiting /\ r \notin LeaseHolders
      BY <1>2 DEF RefuseFull, Waiting, LeaseHolders
    <2>2. /\ place' \in [Requests -> Places]
          /\ Waiting' = Waiting \ {r} /\ LeaseHolders' = LeaseHolders \ {r}
      BY <1>0, <1>2, MoveEffect DEF RefuseFull, Places
    <2>3. Waiting' = Waiting /\ LeaseHolders' = LeaseHolders
      BY <2>1, <2>2
    <2>4. QED
      BY <1>0, <1>2, <2>2, <2>3 DEF RefuseFull, GateInv, GateTypeOK, Accounting, Bounded
  <1>3. ASSUME NEW r \in Requests, Join(r) PROVE GateInv'
    <2>1. r \notin Waiting /\ r \notin LeaseHolders
      BY <1>3 DEF Join, Waiting, LeaseHolders
    <2>2. /\ place' \in [Requests -> Places]
          /\ Waiting' = Waiting \cup {r} /\ LeaseHolders' = LeaseHolders \ {r}
      BY <1>0, <1>3, MoveEffect DEF Join, Places
    <2>3. Cardinality(Waiting') = queued + 1 /\ Cardinality(LeaseHolders') = active
      BY <1>0, <2>1, <2>2, CountEffect
    <2>4. QED
      BY <1>0, <1>3, <2>2, <2>3 DEF Join, GateInv, GateTypeOK, Accounting, Bounded
  <1>4. ASSUME NEW r \in Requests, DeadlinePasses(r) PROVE GateInv'
    <2>1. Waiting' = Waiting /\ LeaseHolders' = LeaseHolders
      BY <1>4 DEF DeadlinePasses, Waiting, LeaseHolders
    <2>2. QED
      BY <1>0, <1>4, <2>1 DEF DeadlinePasses, GateInv, GateTypeOK, Accounting, Bounded
  <1>5. ASSUME NEW r \in Requests, Claim(r) PROVE GateInv'
    <2>1. r \in Waiting /\ r \notin LeaseHolders
      BY <1>5 DEF Claim, Waiting, LeaseHolders
    <2>2. /\ place' \in [Requests -> Places]
          /\ Waiting' = Waiting \ {r} /\ LeaseHolders' = LeaseHolders \cup {r}
      BY <1>0, <1>5, MoveEffect DEF Claim, Places
    <2>3. /\ Cardinality(Waiting') = queued - 1 /\ queued > 0
          /\ Cardinality(LeaseHolders') = active + 1
      BY <1>0, <2>1, <2>2, CountEffect
    <2>4. QED
      BY <1>0, <1>5, <2>2, <2>3 DEF Claim, GateInv, GateTypeOK, Accounting, Bounded
  <1>6. ASSUME NEW r \in Requests, NEW p \in {"refused", "cancelled"}, LeaveQueue(r, p)
        PROVE  GateInv'
    <2>1. r \in Waiting /\ r \notin LeaseHolders
      BY <1>6 DEF LeaveQueue, Waiting, LeaseHolders
    <2>2. /\ place' \in [Requests -> Places]
          /\ Waiting' = Waiting \ {r} /\ LeaseHolders' = LeaseHolders \ {r}
      BY <1>0, <1>6, MoveEffect DEF LeaveQueue, Places
    <2>3. /\ Cardinality(Waiting') = queued - 1 /\ queued > 0
          /\ Cardinality(LeaseHolders') = active
      BY <1>0, <2>1, <2>2, CountEffect
    <2>4. QED
      BY <1>0, <1>6, <2>2, <2>3 DEF LeaveQueue, GateInv, GateTypeOK, Accounting, Bounded
  <1>7. ASSUME NEW r \in Requests, Release(r) PROVE GateInv'
    <2>1. r \notin Waiting /\ r \in LeaseHolders
      BY <1>7 DEF Release, Waiting, LeaseHolders
    <2>2. /\ place' \in [Requests -> Places]
          /\ Waiting' = Waiting \ {r} /\ LeaseHolders' = LeaseHolders \ {r}
      BY <1>0, <1>7, MoveEffect DEF Release, Places
    <2>3. /\ Cardinality(Waiting') = queued
          /\ Cardinality(LeaseHolders') = active - 1 /\ active > 0
      BY <1>0, <2>1, <2>2, CountEffect
    <2>4. QED
      BY <1>0, <1>7, <2>2, <2>3 DEF Release, GateInv, GateTypeOK, Accounting, Bounded
  <1>8. CASE UNCHANGED admissionVars
    <2>1. Waiting' = Waiting /\ LeaseHolders' = LeaseHolders
      BY <1>8 DEF admissionVars, Waiting, LeaseHolders
    <2>2. QED
      BY <1>0, <1>8, <2>1 DEF admissionVars, GateInv, GateTypeOK, Accounting, Bounded
  <1>9. ASSUME NEW r \in Requests, TimeOut(r) \/ Cancel(r) PROVE GateInv'
    BY <1>6, <1>9 DEF TimeOut, Cancel
  <1>10. CASE RestartGate
    <2>1. Waiting' = {} /\ LeaseHolders' = {}
      BY <1>10 DEF RestartGate, Waiting, LeaseHolders
    <2>2. GateTypeOK'
      BY <1>0, <1>10 DEF RestartGate, GateTypeOK, Places
    <2>3. QED
      BY <1>10, <2>1, <2>2, FS_EmptySet DEF RestartGate, GateInv, Accounting, Bounded
  <1>11. QED
    BY <1>1, <1>2, <1>3, <1>4, <1>5, <1>7, <1>8, <1>9, <1>10 DEF GateNext, Poll

(* Every reachable state of the gate is well typed.                        *)
THEOREM GateIsTyped == GateSpec => []GateTypeOK
  BY GateStarts, GateGoesOn, PTL DEF GateSpec, GateInv

(* The two counters always equal the number of unreleased leases and of    *)
(* waiting requests.                                                       *)
THEOREM ExactAccounting == GateSpec => []Accounting
  BY GateStarts, GateGoesOn, PTL DEF GateSpec, GateInv

(* Never more lease holders than the concurrency limit, never more waiting *)
(* requests than the queue limit.                                          *)
THEOREM LimitsHold == GateSpec => []Bounded
  BY GateStarts, GateGoesOn, PTL DEF GateSpec, GateInv

(* A request is answered 429 only in a step that starts with every slot    *)
(* really leased.                                                          *)
THEOREM RefusalsAreJustified == GateSpec => RefusedOnlyWhenFull
  <1>1. ASSUME GateInv, [GateNext]_admissionVars
        PROVE  [\A r \in Requests :
                   (place[r] # "refused" /\ place'[r] = "refused")
                       => Cardinality(LeaseHolders) >= ActiveLimit]_admissionVars
    <2> SUFFICES ASSUME GateNext, NEW q \in Requests,
                        place[q] # "refused", place'[q] = "refused"
                 PROVE  active >= ActiveLimit
      BY <1>1 DEF GateInv, Accounting
    <2>1. PICK r \in Requests : \/ AdmitNow(r) \/ RefuseFull(r) \/ Join(r)
                                \/ DeadlinePasses(r) \/ Poll(r) \/ Cancel(r)
                                \/ Release(r)
      BY DEF GateNext, RestartGate
    <2>2. RefuseFull(r) \/ TimeOut(r)
      BY <1>1, <2>1 DEF GateInv, GateTypeOK, AdmitNow, Join, DeadlinePasses, Poll, Claim,
                        Cancel, LeaveQueue, Release, MoveTo
    <2>3. QED
      BY <2>2 DEF RefuseFull, TimeOut
  <1>2. QED
    BY <1>1, GateStarts, GateGoesOn, PTL DEF GateSpec, RefusedOnlyWhenFull

(* The gate of chat_application.py keeps its whole promise: exact books,   *)
(* both limits, and no refusal while a slot is free.                       *)
THEOREM GateKeepsItsPromise == GateSpec => GateIsExact
  BY GateIsTyped, ExactAccounting, LimitsHold, RefusalsAreJustified, PTL
     DEF GateIsExact

-----------------------------------------------------------------------------
(* The inductive invariant.                                                *)

(* The types of everything but the gate's variables.                       *)
OwnTypes ==
    /\ kind \in [Requests -> Kinds]
    /\ session \in [Requests -> Sessions]
    /\ target \in [Requests -> Requests \cup {None}]
    /\ pc \in [Requests -> HandlerStates]
    /\ lock \in [Sessions -> Requests \cup {None}]
    /\ history \in [Sessions -> Seq(Abstract!Messages)]
    /\ alive \in [Sessions -> BOOLEAN]
    /\ registry \in [Sessions -> Requests \cup {None}]
    /\ job \in [Requests -> JobStates]
    /\ stop \in [Requests -> BOOLEAN]
    /\ worker \in [Requests -> WorkerStates]
    /\ outcome \in [Requests -> Settled]
    /\ retried \in [Requests -> BOOLEAN]
    /\ crashes \in 0..MaxCrashes

(* A continuation past its arrival knows the turn it continues.            *)
TargetsAreTurns ==
    \A r \in Requests : (pc[r] # "new" /\ kind[r] = "continue") => target[r] \in Requests

(* The handler states a request can only be in before its worker exists.   *)
Unlaunched == {"new", "admission", "created", "lockWait", "open", "agent",
               "answered", "undo", "refused"}

(* The states of a worker whose job is still running.                      *)
Working == {"pull", "drafted", "persist", "replace", "append", "publish", "giveUp"}

(* A worker exists only for a launched request, and its job runs exactly   *)
(* until its final event.                                                  *)
WorkersMatchJobs ==
    \A r \in Requests :
        /\ pc[r] \in Unlaunched => worker[r] = "none"
        /\ worker[r] = "none" <=> job[r] = "none"
        /\ worker[r] \in Working <=> job[r] = "running"

(* TurnsAreSerialized says when the lock is held; the other parts tie the  *)
(* handler, worker and job of a turn together, without which the handover  *)
(* of the lock from handler to worker is not inductive.                    *)
IInv == OwnTypes /\ TargetsAreTurns /\ WorkersMatchJobs
            /\ TurnsAreSerialized /\ UnfinishedJobIsReachable

-----------------------------------------------------------------------------
(* Messages and histories.                                                 *)

(* The messages of a turn are messages of the conversation.                *)
LEMMA MessageTypes ==
    ASSUME NEW t \in Requests
    PROVE  /\ Question(t) \in Abstract!Messages
           /\ Draft(t) \in Abstract!Messages
           /\ \A st \in Settled : Answer(t, st) \in Abstract!Messages
  BY DEF Question, Draft, Answer, Settled, Abstract!Messages, Abstract!Question,
         Abstract!Answer, Abstract!Settled

(* Every mutation of a history keeps it a sequence of messages.            *)
LEMMA HistoryTypes ==
    ASSUME OwnTypes, NEW s \in Sessions, NEW m \in Abstract!Messages
    PROVE  /\ AppendMessage(s, m) => history' \in [Sessions -> Seq(Abstract!Messages)]
           /\ \A old : ReplaceMessage(s, old, m)
                          => history' \in [Sessions -> Seq(Abstract!Messages)]
           /\ \A old : RemoveMessage(s, old)
                          => history' \in [Sessions -> Seq(Abstract!Messages)]
           /\ Store(s, <<>>) => history' \in [Sessions -> Seq(Abstract!Messages)]
  <1> DEFINE M == Abstract!Messages
             h == history[s]
  <1>1. h \in Seq(M) /\ history \in [Sessions -> Seq(M)]
    BY DEF OwnTypes
  <1>2. ASSUME NEW q \in Seq(M), Store(s, q) PROVE history' \in [Sessions -> Seq(M)]
    BY <1>1, <1>2 DEF Store
  <1>3. Append(h, m) \in Seq(M) /\ <<>> \in Seq(M)
    BY <1>1, AppendProperties, EmptySeq
  <1>4. Len(h) \in Nat /\ DOMAIN h = 1..Len(h) /\ h \in [1..Len(h) -> M]
    BY <1>1, LenProperties
  <1>5. ASSUME NEW old
        PROVE  [i \in DOMAIN h |-> IF h[i] = old THEN m ELSE h[i]] \in Seq(M)
    BY <1>4, IsASeq
  <1>6. ASSUME NEW p \in DOMAIN h
        PROVE  [i \in 1..(Len(h) - 1) |-> h[IF i < p THEN i ELSE i + 1]] \in Seq(M)
    <2>1. Len(h) - 1 \in Nat
      BY <1>4, <1>6
    <2>2. \A i \in 1..(Len(h) - 1) : h[IF i < p THEN i ELSE i + 1] \in M
      BY <1>4, <1>6
    <2>3. QED
      BY <2>1, <2>2, IsASeq
  <1>7. AppendMessage(s, m) => history' \in [Sessions -> Seq(M)]
    BY <1>2, <1>3 DEF AppendMessage
  <1>8. ASSUME NEW old, ReplaceMessage(s, old, m) PROVE history' \in [Sessions -> Seq(M)]
    BY <1>2, <1>5, <1>8 DEF ReplaceMessage
  <1>9. ASSUME NEW old, RemoveMessage(s, old) PROVE history' \in [Sessions -> Seq(M)]
    BY <1>1, <1>2, <1>6, <1>9 DEF RemoveMessage, storeVars
  <1>10. Store(s, <<>>) => history' \in [Sessions -> Seq(M)]
    BY <1>2, <1>3
  <1>11. QED
    BY <1>7, <1>8, <1>9, <1>10

-----------------------------------------------------------------------------
(* Every step preserves the invariant.                                     *)

(* The initial states satisfy the invariant.                               *)
LEMMA InitEstablishes == Init => IInv
  <1> SUFFICES ASSUME Init PROVE IInv
    OBVIOUS
  <1>1. OwnTypes
    BY SessionsAssumption, BoundsAssumption, EmptySeq
       DEF Init, OwnTypes, Kinds, HandlerStates, WorkerStates, JobStates, Settled
  <1>2. QED
    BY <1>1, NoneAssumption
       DEF Init, IInv, OwnTypes, TargetsAreTurns, WorkersMatchJobs, Unlaunched, Working,
           TurnsAreSerialized, InProgress, UnfinishedJobIsReachable

(* Steps of a handler before it holds the lock, and steps that only move   *)
(* the gate.                                                               *)
LEMMA ArrivalPreserves ==
    ASSUME IInv, NEW r \in Requests,
           \/ \E k \in Kinds, s \in Sessions, t \in Requests \cup {None} : Arrive(r, k, s, t)
           \/ PollGate(r) \/ CancelInQueue(r) \/ PassDeadline(r)
    PROVE  IInv'
  <1> USE NoneAssumption DEF IInv, requestVars, storeVars, jobVars, workerVars
  <1>1. ASSUME NEW k \in Kinds, NEW s \in Sessions, NEW t \in Requests \cup {None},
               Arrive(r, k, s, t)
        PROVE  IInv'
    <2>1. k = "continue" => t \in Requests
      <3>1. ASSUME NEW i \in DOMAIN history[s] PROVE history[s][i].turn \in Requests
        <4>1. history[s][i] \in Abstract!Messages
          BY ElementOfSeq, LenProperties DEF OwnTypes
        <4>2. QED
          BY <4>1 DEF Abstract!Messages, Abstract!Question, Abstract!Answer
      <3>2. QED
        BY <1>1, <3>1 DEF Arrive
    <2>2. pc' \in [Requests -> HandlerStates] /\ (\A q \in Requests : q # r => pc'[q] = pc[q])
          /\ pc'[r] \in {"failed", "lockWait", "created", "admission", "refused"}
      BY <1>1 DEF Arrive, Leased, Goto, OwnTypes, HandlerStates
    <2>3. OwnTypes'
      BY <1>1, <2>2 DEF Arrive, OwnTypes
    <2>4. TargetsAreTurns'
      BY <1>1, <2>1, <2>2 DEF Arrive, OwnTypes, TargetsAreTurns
    <2>5. WorkersMatchJobs' /\ pc[r] = "new" /\ worker[r] = "none"
      BY <1>1, <2>2 DEF Arrive, OwnTypes, WorkersMatchJobs, Unlaunched
    <2>6. TurnsAreSerialized'
      BY <1>1, <2>2, <2>5 DEF Arrive, OwnTypes, TurnsAreSerialized, InProgress
    <2>7. UnfinishedJobIsReachable'
      BY <1>1, <2>5 DEF Arrive, OwnTypes, UnfinishedJobIsReachable, WorkersMatchJobs
    <2>8. QED
      BY <2>3, <2>4, <2>5, <2>6, <2>7
  <1>2. ASSUME PollGate(r) \/ CancelInQueue(r) PROVE IInv'
    <2>1. /\ pc[r] = "admission"
          /\ \E p \in {"lockWait", "created", "refused", "gone"} : Goto(r, p)
          /\ UNCHANGED <<requestVars, lock, storeVars, jobVars, workerVars, crashes>>
      BY <1>2 DEF PollGate, CancelInQueue, Leased
    <2>2. OwnTypes'
      BY <2>1 DEF Goto, OwnTypes, HandlerStates
    <2>3. QED
      BY <2>1, <2>2
         DEF Goto, OwnTypes, TargetsAreTurns, WorkersMatchJobs, Unlaunched,
             TurnsAreSerialized, InProgress, UnfinishedJobIsReachable
  <1>3. ASSUME PassDeadline(r) PROVE IInv'
    BY <1>3 DEF PassDeadline, OwnTypes, TargetsAreTurns, WorkersMatchJobs,
                TurnsAreSerialized, InProgress, UnfinishedJobIsReachable
  <1>4. QED
    BY <1>1, <1>2, <1>3

(* Steps of the endpoints that do not stream.                              *)
LEMMA SendPreserves ==
    ASSUME IInv, NEW r \in Requests,
           \/ SendBegin(r) \/ SendAgentDrafts(r) \/ SendAgentRaises(r) \/ SendUndo(r)
           \/ SendFinish(r) \/ ClearHistory(r)
    PROVE  IInv'
  <1> USE NoneAssumption DEF IInv, requestVars, storeVars, jobVars, workerVars
  <1> DEFINE Typed(h) == h \in [Sessions -> Seq(Abstract!Messages)]
  <1>0. session[r] \in Sessions /\ Typed(history)
    BY DEF OwnTypes
  <1>1. ASSUME SendBegin(r) PROVE IInv'
    <2>1. Typed(history') /\ UNCHANGED alive
      BY <1>0, <1>1, MessageTypes, HistoryTypes DEF SendBegin, AppendMessage, Store
    <2>2. \/ pc' = [pc EXCEPT ![r] = "agent"] /\ lock' = [lock EXCEPT ![session[r]] = r]
          \/ pc' = [pc EXCEPT ![r] = "failed"] /\ UNCHANGED lock
      BY <1>1 DEF SendBegin, Goto
    <2>3. /\ pc[r] = "lockWait" /\ lock[session[r]] = None
          /\ UNCHANGED <<requestVars, jobVars, workerVars, crashes>>
      BY <1>1 DEF SendBegin
    <2>4. OwnTypes'
      <3>1. lock \in [Sessions -> Requests \cup {None}] /\ pc \in [Requests -> HandlerStates]
        BY DEF OwnTypes
      <3>2. lock' \in [Sessions -> Requests \cup {None}]
        BY <1>0, <2>2, <3>1
      <3>3. pc' \in [Requests -> HandlerStates]
        BY <2>2, <3>1 DEF HandlerStates
      <3>4. QED
        BY <2>1, <2>3, <3>2, <3>3 DEF OwnTypes
    <2>5. TargetsAreTurns' /\ WorkersMatchJobs' /\ UnfinishedJobIsReachable'
      BY <2>2, <2>3 DEF OwnTypes, TargetsAreTurns, WorkersMatchJobs, Unlaunched,
                        UnfinishedJobIsReachable
    <2>6. TurnsAreSerialized'
      <3>1. CASE UNCHANGED lock /\ pc' = [pc EXCEPT ![r] = "failed"]
        BY <2>3, <3>1 DEF OwnTypes, WorkersMatchJobs, Unlaunched, TurnsAreSerialized, InProgress
      <3>2. CASE pc' = [pc EXCEPT ![r] = "agent"] /\ lock' = [lock EXCEPT ![session[r]] = r]
        BY <2>3, <3>2 DEF OwnTypes, TurnsAreSerialized, InProgress
      <3>3. QED
        BY <2>2, <3>1, <3>2
    <2>7. QED
      BY <2>4, <2>5, <2>6
  <1>2. ASSUME SendAgentDrafts(r) \/ SendAgentRaises(r) PROVE IInv'
    <2>1. Typed(history') /\ UNCHANGED alive
      BY <1>0, <1>2, MessageTypes, HistoryTypes
         DEF SendAgentDrafts, SendAgentRaises, AppendMessage, Store
    <2>2. /\ pc[r] \in {"agent", "answered"}
          /\ \E p \in {"answered", "undo"} : pc' = [pc EXCEPT ![r] = p]
          /\ UNCHANGED <<requestVars, lock, jobVars, workerVars, crashes>>
      BY <1>2 DEF SendAgentDrafts, SendAgentRaises, Goto
    <2>3. OwnTypes'
      BY <2>1, <2>2 DEF OwnTypes, HandlerStates
    <2>4. QED
      BY <2>2, <2>3 DEF OwnTypes, TargetsAreTurns, WorkersMatchJobs, Unlaunched,
                        UnfinishedJobIsReachable, TurnsAreSerialized, InProgress
  <1>3. ASSUME SendUndo(r) \/ SendFinish(r) PROVE IInv'
    <2>1. Typed(history') /\ UNCHANGED alive
      <3>1. CASE SendUndo(r)
        <4>1. RemoveMessage(session[r], Question(r))
          BY <3>1 DEF SendUndo
        <4>2. Typed(history')
          BY <1>0, <4>1, MessageTypes, HistoryTypes
        <4>3. QED
          BY <4>1, <4>2 DEF RemoveMessage, Store
      <3>2. CASE SendFinish(r)
        <4>1. \/ ReplaceMessage(session[r], Draft(r), Answer(r, "completed"))
              \/ UNCHANGED storeVars
          BY <3>2 DEF SendFinish
        <4>2. Typed(history')
          BY <1>0, <4>1, MessageTypes, HistoryTypes DEF Settled
        <4>3. QED
          BY <4>1, <4>2 DEF ReplaceMessage, Store
      <3>3. QED
        BY <1>3, <3>1, <3>2
    <2>2. /\ pc[r] \in {"answered", "undo"}
          /\ \E p \in {"over", "failed"} : pc' = [pc EXCEPT ![r] = p]
          /\ lock' = [lock EXCEPT ![session[r]] = None]
          /\ UNCHANGED <<requestVars, jobVars, workerVars, crashes>>
      BY <1>3 DEF SendUndo, SendFinish, Goto
    <2>3. OwnTypes'
      BY <2>1, <2>2 DEF OwnTypes, HandlerStates
    <2>4. QED
      BY <2>2, <2>3 DEF OwnTypes, TargetsAreTurns, WorkersMatchJobs, Unlaunched,
                        UnfinishedJobIsReachable, TurnsAreSerialized, InProgress
  <1>4. ASSUME ClearHistory(r) PROVE IInv'
    <2>1. Typed(history') /\ UNCHANGED alive
      BY <1>0, <1>4, MessageTypes, HistoryTypes DEF ClearHistory, Store
    <2>2. /\ pc[r] = "lockWait"
          /\ pc' = [pc EXCEPT ![r] = "over"]
          /\ UNCHANGED <<requestVars, lock, jobVars, workerVars, crashes>>
      BY <1>4 DEF ClearHistory, Goto
    <2>3. OwnTypes'
      BY <2>1, <2>2 DEF OwnTypes, HandlerStates
    <2>4. QED
      BY <2>2, <2>3 DEF OwnTypes, TargetsAreTurns, WorkersMatchJobs, Unlaunched,
                        UnfinishedJobIsReachable, TurnsAreSerialized, InProgress
  <1>5. QED
    BY <1>1, <1>2, <1>3, <1>4

(* Steps of the streaming endpoints; Launch hands the lock to the worker.  *)
LEMMA StreamPreserves ==
    ASSUME IInv, NEW r \in Requests,
           \/ StartGenerator(r) \/ OpenStream(r) \/ LaunchStream(r) \/ LaunchContinuation(r)
           \/ RefuseToLaunch(r) \/ EndOfStream(r) \/ Disconnect(r) \/ DisconnectEarly(r)
    PROVE  IInv'
  <1> USE NoneAssumption DEF IInv, requestVars, storeVars, jobVars, workerVars
  <1> DEFINE Typed(h) == h \in [Sessions -> Seq(Abstract!Messages)]
  <1>0. session[r] \in Sessions /\ Typed(history)
    BY DEF OwnTypes
  <1>1. ASSUME StartGenerator(r) \/ DisconnectEarly(r) PROVE IInv'
    <2>1. /\ pc[r] \in {"created", "lockWait"}
          /\ \E p \in {"lockWait", "gone"} : pc' = [pc EXCEPT ![r] = p]
          /\ UNCHANGED <<requestVars, lock, storeVars, jobVars, workerVars, crashes>>
      BY <1>1 DEF StartGenerator, DisconnectEarly, Goto
    <2>2. OwnTypes'
      BY <2>1 DEF OwnTypes, HandlerStates
    <2>3. QED
      BY <2>1, <2>2 DEF OwnTypes, TargetsAreTurns, WorkersMatchJobs, Unlaunched,
                        UnfinishedJobIsReachable, TurnsAreSerialized, InProgress
  <1>2. ASSUME OpenStream(r) PROVE IInv'
    <2>1. /\ pc[r] = "lockWait" /\ lock[session[r]] = None
          /\ pc' = [pc EXCEPT ![r] = "open"] /\ lock' = [lock EXCEPT ![session[r]] = r]
          /\ UNCHANGED <<requestVars, storeVars, jobVars, workerVars, crashes>>
      BY <1>2 DEF OpenStream, Goto
    <2>2. OwnTypes'
      BY <2>1 DEF OwnTypes, HandlerStates
    <2>3. TargetsAreTurns' /\ WorkersMatchJobs' /\ UnfinishedJobIsReachable'
      BY <2>1 DEF OwnTypes, TargetsAreTurns, WorkersMatchJobs, Unlaunched,
                  UnfinishedJobIsReachable
    <2>4. TurnsAreSerialized'
      BY <2>1 DEF OwnTypes, WorkersMatchJobs, Unlaunched, TurnsAreSerialized, InProgress
    <2>5. QED
      BY <2>2, <2>3, <2>4
  <1>3. ASSUME LaunchStream(r) \/ LaunchContinuation(r) PROVE IInv'
    <2>1. Typed(history') /\ UNCHANGED alive
      BY <1>0, <1>3, MessageTypes, HistoryTypes
         DEF LaunchStream, LaunchContinuation, AppendMessage, Store
    <2>2. /\ pc[r] = "open"
          /\ pc' = [pc EXCEPT ![r] = "follow"]
          /\ registry' = [registry EXCEPT ![session[r]] = r]
          /\ job' = [job EXCEPT ![r] = "running"]
          /\ worker' = [worker EXCEPT ![r] = "pull"]
          /\ UNCHANGED <<requestVars, lock, stop, outcome, retried, crashes>>
      BY <1>3 DEF LaunchStream, LaunchContinuation, Launch, Goto
    <2>3. OwnTypes'
      BY <2>1, <2>2 DEF OwnTypes, HandlerStates, JobStates, WorkerStates
    <2>4. TargetsAreTurns' /\ WorkersMatchJobs'
      BY <2>2 DEF OwnTypes, TargetsAreTurns, WorkersMatchJobs, Unlaunched, Working
    <2>5. lock[session[r]] = r
      BY <2>2 DEF TurnsAreSerialized, InProgress
    <2>6. TurnsAreSerialized'
      BY <2>2, <2>5 DEF OwnTypes, TurnsAreSerialized, InProgress
    <2>7. UnfinishedJobIsReachable'
      <3> SUFFICES ASSUME NEW q \in Requests, job'[q] = "running"
                   PROVE  registry'[session'[q]] = q
        BY DEF UnfinishedJobIsReachable
      <3>1. CASE q = r
        BY <2>2, <3>1 DEF OwnTypes
      <3>2. CASE q # r
        <4>1. job[q] = "running" /\ registry[session[q]] = q
          BY <2>2, <3>2 DEF OwnTypes, UnfinishedJobIsReachable
        <4>2. lock[session[q]] = q
          BY <4>1 DEF WorkersMatchJobs, Working, TurnsAreSerialized, InProgress
        <4>3. session[q] # session[r]
          BY <2>5, <3>2, <4>2
        <4>4. QED
          BY <2>2, <4>1, <4>3 DEF OwnTypes
      <3>3. QED
        BY <3>1, <3>2
    <2>8. QED
      BY <2>3, <2>4, <2>6, <2>7
  <1>4. ASSUME NEW p \in {"over", "failed", "gone"}, pc[r] \in {"open", "follow"},
               CloseGenerator(r, p)
        PROVE  IInv'
    <2>1. /\ pc' = [pc EXCEPT ![r] = p]
          /\ IF pc[r] = "open" THEN lock' = [lock EXCEPT ![session[r]] = None]
                               ELSE UNCHANGED lock
          /\ UNCHANGED <<requestVars, storeVars, jobVars, workerVars, crashes>>
      BY <1>4 DEF CloseGenerator, Goto
    <2>2. OwnTypes'
      BY <1>4, <2>1 DEF OwnTypes, HandlerStates
    <2>3. TargetsAreTurns' /\ WorkersMatchJobs' /\ UnfinishedJobIsReachable'
      BY <1>4, <2>1 DEF OwnTypes, TargetsAreTurns, WorkersMatchJobs, Unlaunched,
                  UnfinishedJobIsReachable
    <2>4. TurnsAreSerialized'
      <3>1. CASE pc[r] = "follow"
        BY <1>4, <2>1, <3>1 DEF OwnTypes, TurnsAreSerialized, InProgress
      <3>2. CASE pc[r] = "open"
        <4>1. lock[session[r]] = r /\ worker[r] = "none"
          BY <3>2 DEF TurnsAreSerialized, InProgress, WorkersMatchJobs, Unlaunched
        <4>2. lock' = [lock EXCEPT ![session[r]] = None]
          BY <2>1, <3>2
        <4>3. QED
          BY <1>4, <2>1, <4>1, <4>2 DEF OwnTypes, TurnsAreSerialized, InProgress
      <3>3. QED
        BY <1>4, <3>1, <3>2
    <2>5. QED
      BY <2>2, <2>3, <2>4
  <1>5. ASSUME RefuseToLaunch(r) \/ EndOfStream(r) \/ Disconnect(r) PROVE IInv'
    BY <1>4, <1>5 DEF RefuseToLaunch, EndOfStream, Disconnect
  <1>6. QED
    BY <1>1, <1>2, <1>3, <1>5

(* Steps of a worker thread.                                               *)
LEMMA WorkerPreserves ==
    ASSUME IInv, NEW r \in Requests, Worker(r)
    PROVE  IInv'
  <1> USE NoneAssumption DEF IInv, requestVars, storeVars, jobVars, workerVars, WorkerOnly
  <1> DEFINE Typed(h) == h \in [Sessions -> Seq(Abstract!Messages)]
  <1>0. session[r] \in Sessions /\ Typed(history)
    BY DEF OwnTypes
  (* Every step but the last two leaves the lock and the job alone. *)
  <1>1. ASSUME worker[r] \in Working, NEW w \in Working, worker' = [worker EXCEPT ![r] = w],
               Typed(history'), outcome' \in [Requests -> Settled],
               retried' \in [Requests -> BOOLEAN],
               UNCHANGED <<requestVars, pc, lock, alive, jobVars, crashes>>
        PROVE  IInv'
    <2>1. OwnTypes'
      BY <1>1 DEF OwnTypes, Working, WorkerStates
    <2>2. QED
      BY <1>1, <2>1 DEF OwnTypes, TargetsAreTurns, WorkersMatchJobs, Unlaunched, Working,
                        UnfinishedJobIsReachable, TurnsAreSerialized, InProgress
  <1>2. ASSUME NEW st \in Settled, Settle(r, st), worker[r] \in Working,
               retried' \in [Requests -> BOOLEAN], Typed(history'),
               UNCHANGED <<requestVars, pc, lock, alive, jobVars, crashes>>
        PROVE  IInv'
    BY <1>1, <1>2 DEF Settle, OwnTypes, Working
  <1>3. ASSUME Raise(r), worker[r] \in Working, Typed(history'),
               UNCHANGED <<requestVars, pc, lock, alive, jobVars, crashes>>
        PROVE  IInv'
    <2>1. CASE retried[r]
      BY <1>1, <1>3, <2>1 DEF Raise, OwnTypes, Working
    <2>2. CASE ~retried[r]
      BY <1>2, <1>3, <2>2 DEF Raise, OwnTypes, Settled
    <2>3. QED
      BY <2>1, <2>2
  <1>4. ASSUME AgentDrafts(r) PROVE IInv'
    <2>1. Typed(history') /\ UNCHANGED alive
      BY <1>0, <1>4, MessageTypes, HistoryTypes DEF AgentDrafts, AppendMessage, Store
    <2>2. QED
      BY <1>1, <1>4, <2>1 DEF AgentDrafts, OwnTypes, Working
  <1>5. ASSUME ReceiveStopped(r) \/ ReceiveFinal(r) \/ SourceRaises(r) PROVE IInv'
    <2>1. /\ worker[r] \in {"pull", "drafted"}
          /\ \E st \in Settled : Settle(r, st)
          /\ retried' \in [Requests -> BOOLEAN]
          /\ UNCHANGED <<lock, storeVars, jobVars, requestVars, pc, crashes>>
      BY <1>5 DEF ReceiveStopped, ReceiveFinal, SourceRaises, Settled, OwnTypes
    <2>2. QED
      BY <1>0, <1>2, <2>1 DEF Working
  <1>6. ASSUME ChooseWrite(r) PROVE IInv'
    BY <1>0, <1>1, <1>6 DEF ChooseWrite, OwnTypes, Working
  <1>7. ASSUME WriteFails(r) PROVE IInv'
    BY <1>0, <1>3, <1>7 DEF WriteFails, Working
  <1>8. ASSUME WriteReplacement(r) PROVE IInv'
    <2>0. worker[r] = "replace" /\ UNCHANGED <<lock, jobVars, requestVars, pc, crashes>>
      BY <1>8 DEF WriteReplacement
    <2>1. CASE ReplaceMessage(session[r], Replaced(r), Answer(TurnOf(r), outcome[r]))
      <3>1. pc[r] # "new" /\ TurnOf(r) \in Requests /\ outcome[r] \in Settled
        BY <2>0 DEF WorkersMatchJobs, Unlaunched, TargetsAreTurns, TurnOf, OwnTypes
      <3>2. Answer(TurnOf(r), outcome[r]) \in Abstract!Messages
        BY <3>1, MessageTypes
      <3>3. Typed(history') /\ UNCHANGED alive
        <4>1. Typed(history')
          BY <1>0, <2>1, <3>2, HistoryTypes
        <4>2. QED
          BY <2>1, <4>1 DEF ReplaceMessage, Store
      <3>4. CASE worker' = [worker EXCEPT ![r] = "publish"] /\ UNCHANGED <<outcome, retried>>
        BY <1>1, <2>0, <3>3, <3>4 DEF OwnTypes, Working
      <3>5. CASE worker' = [worker EXCEPT ![r] = "append"] /\ UNCHANGED <<outcome, retried>>
        BY <1>1, <2>0, <3>3, <3>5 DEF OwnTypes, Working
      <3>6. CASE Raise(r)
        BY <1>3, <2>0, <3>3, <3>6 DEF Working
      <3>7. QED
        BY <1>8, <3>4, <3>5, <3>6 DEF WriteReplacement
    <2>2. CASE UNCHANGED storeVars
      <3>1. CASE worker' = [worker EXCEPT ![r] = "append"] /\ UNCHANGED <<outcome, retried>>
        BY <1>0, <1>1, <2>0, <2>2, <3>1 DEF OwnTypes, Working
      <3>2. CASE worker' = [worker EXCEPT ![r] = "publish"] /\ UNCHANGED <<outcome, retried>>
        BY <1>0, <1>1, <2>0, <2>2, <3>2 DEF OwnTypes, Working
      <3>3. CASE Raise(r)
        BY <1>0, <1>3, <2>0, <2>2, <3>3 DEF Working
      <3>4. QED
        BY <1>8, <3>1, <3>2, <3>3 DEF WriteReplacement
    <2>3. QED
      BY <1>8, <2>1, <2>2 DEF WriteReplacement
  <1>9. ASSUME WriteAppend(r) PROVE IInv'
    <2>0. worker[r] = "append" /\ UNCHANGED <<lock, jobVars, requestVars, pc, crashes>>
      BY <1>9 DEF WriteAppend
    <2>1. CASE /\ AppendMessage(session[r], Answer(r, outcome[r]))
               /\ worker' = [worker EXCEPT ![r] = "publish"]
               /\ UNCHANGED <<outcome, retried>>
      <3>1. Answer(r, outcome[r]) \in Abstract!Messages
        BY MessageTypes DEF OwnTypes
      <3>2. Typed(history') /\ UNCHANGED alive
        BY <1>0, <2>1, <3>1, HistoryTypes DEF AppendMessage, Store
      <3>3. QED
        BY <1>1, <2>0, <2>1, <3>2 DEF OwnTypes, Working
    <2>2. CASE Raise(r) /\ UNCHANGED storeVars
      BY <1>0, <1>3, <2>0, <2>2 DEF Working
    <2>3. QED
      BY <1>9, <2>1, <2>2 DEF WriteAppend
  <1>10. ASSUME PublishFinal(r) PROVE IInv'
    <2>1. /\ worker[r] \in {"publish", "giveUp"}
          /\ \E st \in Settled \cup {"unsaved"} : job' = [job EXCEPT ![r] = st]
          /\ worker' = [worker EXCEPT ![r] = "closing"]
          /\ UNCHANGED <<requestVars, pc, lock, storeVars, registry, stop, outcome,
                         retried, crashes>>
      BY <1>10 DEF PublishFinal, OwnTypes
    <2>2. OwnTypes'
      BY <2>1 DEF OwnTypes, WorkerStates, JobStates, Settled
    <2>3. TargetsAreTurns' /\ WorkersMatchJobs'
      BY <2>1 DEF OwnTypes, TargetsAreTurns, WorkersMatchJobs, Unlaunched, Working, Settled
    <2>4. UnfinishedJobIsReachable' /\ TurnsAreSerialized'
      BY <2>1 DEF OwnTypes, UnfinishedJobIsReachable, TurnsAreSerialized, InProgress, Settled
    <2>5. QED
      BY <2>2, <2>3, <2>4
  <1>11. ASSUME ExitWorker(r) PROVE IInv'
    <2>1. /\ worker[r] = "closing"
          /\ worker' = [worker EXCEPT ![r] = "exited"]
          /\ lock' = [lock EXCEPT ![session[r]] = None]
          /\ UNCHANGED <<requestVars, pc, storeVars, jobVars, outcome, retried, crashes>>
      BY <1>11 DEF ExitWorker
    <2>2. OwnTypes'
      BY <2>1 DEF OwnTypes, WorkerStates
    <2>3. TargetsAreTurns' /\ WorkersMatchJobs' /\ UnfinishedJobIsReachable'
      BY <2>1 DEF OwnTypes, TargetsAreTurns, WorkersMatchJobs, Unlaunched, Working,
                  UnfinishedJobIsReachable
    <2>4. lock[session[r]] = r /\ pc[r] \notin {"open", "agent", "answered", "undo"}
      BY <2>1 DEF TurnsAreSerialized, InProgress, WorkersMatchJobs, Unlaunched
    <2>5. TurnsAreSerialized'
      BY <2>1, <2>4 DEF OwnTypes, TurnsAreSerialized, InProgress
    <2>6. QED
      BY <2>2, <2>3, <2>5
  <1>12. QED
    BY <1>4, <1>5, <1>6, <1>7, <1>8, <1>9, <1>10, <1>11 DEF Worker

(* Cancellation, expiry, deletion, restart.                                *)
LEMMA EnvironmentPreserves ==
    ASSUME IInv,
           \/ \E s \in Sessions : CancelGeneration(s) \/ ExpireJob(s) \/ DeleteSession(s)
           \/ Restart
    PROVE  IInv'
  <1> USE NoneAssumption DEF IInv, requestVars, storeVars, jobVars, workerVars
  <1>1. ASSUME NEW s \in Sessions, CancelGeneration(s) PROVE IInv'
    <2>1. OwnTypes'
      BY <1>1 DEF CancelGeneration, OwnTypes
    <2>2. QED
      BY <1>1, <2>1 DEF CancelGeneration, OwnTypes, TargetsAreTurns, WorkersMatchJobs,
                        TurnsAreSerialized, InProgress, UnfinishedJobIsReachable
  <1>2. ASSUME NEW s \in Sessions, ExpireJob(s) PROVE IInv'
    <2>1. OwnTypes'
      BY <1>2 DEF ExpireJob, OwnTypes
    <2>2. TargetsAreTurns' /\ WorkersMatchJobs' /\ TurnsAreSerialized'
      BY <1>2 DEF ExpireJob, OwnTypes, TargetsAreTurns, WorkersMatchJobs,
                  TurnsAreSerialized, InProgress
    <2>3. UnfinishedJobIsReachable'
      BY <1>2 DEF ExpireJob, OwnTypes, UnfinishedJobIsReachable
    <2>4. QED
      BY <2>1, <2>2, <2>3
  <1>3. ASSUME NEW s \in Sessions, DeleteSession(s) PROVE IInv'
    <2>1. OwnTypes'
      BY <1>3, EmptySeq DEF DeleteSession, OwnTypes
    <2>2. QED
      BY <1>3, <2>1 DEF DeleteSession, OwnTypes, TargetsAreTurns, WorkersMatchJobs,
                        TurnsAreSerialized, InProgress, UnfinishedJobIsReachable
  <1>4. ASSUME Restart PROVE IInv'
    <2>1. OwnTypes'
      BY <1>4, BoundsAssumption
         DEF Restart, OwnTypes, HandlerStates, WorkerStates, JobStates, Finished
    <2>2. TargetsAreTurns'
      BY <1>4 DEF Restart, OwnTypes, TargetsAreTurns, Finished
    <2>3. WorkersMatchJobs'
      <3> SUFFICES ASSUME NEW r \in Requests
                   PROVE  /\ pc'[r] \in Unlaunched => worker'[r] = "none"
                          /\ worker'[r] = "none" <=> job'[r] = "none"
                          /\ worker'[r] \in Working <=> job'[r] = "running"
        BY DEF WorkersMatchJobs
      <3>1. pc'[r] \in Unlaunched => pc[r] \in Unlaunched
        BY <1>4 DEF Restart, Unlaunched, Finished
      <3>2. QED
        BY <1>4, <3>1 DEF Restart, OwnTypes, WorkersMatchJobs, Working
    <2>4. TurnsAreSerialized' /\ UnfinishedJobIsReachable'
      BY <1>4 DEF Restart, OwnTypes, TurnsAreSerialized, InProgress, Finished,
                  UnfinishedJobIsReachable
    <2>5. QED
      BY <2>1, <2>2, <2>3, <2>4
  <1>5. QED
    BY <1>1, <1>2, <1>3, <1>4

(* Every step preserves the invariant.                                     *)
LEMMA StepPreserves == IInv /\ [Next]_vars => IInv'
  <1> SUFFICES ASSUME IInv, [Next]_vars PROVE IInv'
    OBVIOUS
  <1>1. CASE UNCHANGED vars
    BY <1>1 DEF vars, IInv, OwnTypes, TargetsAreTurns, WorkersMatchJobs, TurnsAreSerialized,
                InProgress, UnfinishedJobIsReachable
  <1>2. ASSUME NEW r \in Requests, Handler(r) PROVE IInv'
    BY <1>2, ArrivalPreserves, SendPreserves, StreamPreserves DEF Handler
  <1>3. ASSUME NEW r \in Requests, Worker(r) PROVE IInv'
    BY <1>3, WorkerPreserves
  <1>4. CASE \/ \E s \in Sessions : CancelGeneration(s) \/ ExpireJob(s) \/ DeleteSession(s)
             \/ Restart
    BY <1>4, EnvironmentPreserves
  <1>5. QED
    BY <1>1, <1>2, <1>3, <1>4 DEF Next

-----------------------------------------------------------------------------
(* The gate.                                                               *)

(* Every step of a handler moves the gate as the gate's own specification  *)
(* allows, or not at all.                                                  *)
LEMMA StepOfGate == [Next]_vars => [GateNext]_(admissionVars)
  <1> SUFFICES ASSUME [Next]_vars PROVE GateNext \/ UNCHANGED admissionVars
    OBVIOUS
  <1> USE DEF requestVars, admissionVars
  <1>1. CASE UNCHANGED vars
    BY <1>1 DEF vars
  <1>2. ASSUME NEW r \in Requests,
               \E k \in Kinds, s \in Sessions, t \in Requests \cup {None} : Arrive(r, k, s, t)
        PROVE  GateNext \/ UNCHANGED admissionVars
    BY <1>2 DEF Arrive, GateNext
  <1>3. ASSUME NEW r \in Requests, PollGate(r) \/ CancelInQueue(r) \/ PassDeadline(r)
        PROVE  GateNext \/ UNCHANGED admissionVars
    BY <1>3 DEF PollGate, CancelInQueue, PassDeadline, GateNext, Poll
  <1>4. ASSUME NEW r \in Requests,
               \/ SendBegin(r) \/ SendAgentDrafts(r) \/ SendAgentRaises(r) \/ SendUndo(r)
               \/ SendFinish(r) \/ ClearHistory(r)
        PROVE  GateNext \/ UNCHANGED admissionVars
    BY <1>4 DEF SendBegin, SendAgentDrafts, SendAgentRaises, SendUndo, SendFinish,
                ClearHistory, GateNext
  <1>5. ASSUME NEW r \in Requests,
               \/ StartGenerator(r) \/ OpenStream(r) \/ LaunchStream(r) \/ LaunchContinuation(r)
               \/ RefuseToLaunch(r) \/ EndOfStream(r) \/ Disconnect(r) \/ DisconnectEarly(r)
        PROVE  GateNext \/ UNCHANGED admissionVars
    BY <1>5 DEF StartGenerator, OpenStream, LaunchStream, LaunchContinuation, Launch,
                RefuseToLaunch, EndOfStream, Disconnect, DisconnectEarly, CloseGenerator,
                GateNext
  <1>6. ASSUME NEW r \in Requests, Worker(r) PROVE UNCHANGED admissionVars
    BY <1>6 DEF Worker, AgentDrafts, ReceiveStopped, ReceiveFinal, SourceRaises, ChooseWrite,
                WriteReplacement, WriteAppend, WriteFails, PublishFinal, ExitWorker, WorkerOnly
  <1>7. CASE \/ \E s \in Sessions : CancelGeneration(s) \/ ExpireJob(s) \/ DeleteSession(s)
             \/ Restart
    BY <1>7 DEF CancelGeneration, ExpireJob, DeleteSession, Restart, GateNext
  <1>8. QED
    BY <1>1, <1>2, <1>3, <1>4, <1>5, <1>6, <1>7 DEF Next, Handler

(* The composed system drives the gate only through the gate's own         *)
(* actions, so every theorem about the gate holds of it.                   *)
THEOREM GateIsUsedCorrectly == Spec => UsesGateCorrectly
  <1>1. Init => InitGate
    BY DEF Init
  <1>2. QED
    BY <1>1, StepOfGate, PTL DEF Spec, UsesGateCorrectly, GateSpec

(* Every reachable state is well typed; the gate's share of it comes from  *)
(* the gate's own invariant.                                               *)
THEOREM TypeCorrect == Spec => []TypeOK
  <1>1. Init => GateInv
    BY GateStarts DEF Init
  <1>2. GateInv /\ [Next]_vars => GateInv'
    BY StepOfGate, GateGoesOn
  <1>3. GateInv /\ IInv => TypeOK
    BY DEF GateInv, GateTypeOK, Places, IInv, OwnTypes, TypeOK
  <1>4. QED
    BY <1>1, <1>2, <1>3, InitEstablishes, StepPreserves, PTL DEF Spec

-----------------------------------------------------------------------------
(* Two turns of one session never run together, and the operation lock is  *)
(* held exactly while a turn is in progress, across the handover from the  *)
(* event loop to the worker thread and across restarts.                    *)
THEOREM SessionsAreSerialized == Spec => []TurnsAreSerialized
  BY InitEstablishes, StepPreserves, PTL DEF Spec, IInv

(* A running job can always be found by resume and cancel: a later turn of *)
(* the session never takes its place in the registry.                      *)
THEOREM RunningJobsAreRegistered == Spec => []UnfinishedJobIsReachable
  BY InitEstablishes, StepPreserves, PTL DEF Spec, IInv

(* A worker that is past its last publication has left a final event.      *)
THEOREM WorkersLeaveAFinalEvent == Spec => []ExitMeansTerminal
  <1>1. IInv => ExitMeansTerminal
    BY DEF IInv, WorkersMatchJobs, Working, ExitMeansTerminal
  <1>2. QED
    BY <1>1, InitEstablishes, StepPreserves, PTL DEF Spec

(* One turn at a time, under a lock it owns, and the running turn can be   *)
(* found by resume and cancel: for any requests, sessions and limits.      *)
THEOREM SessionsStaySafe == Spec => []SessionsAreSafe
  BY TypeCorrect, SessionsAreSerialized, RunningJobsAreRegistered, PTL
     DEF SessionsAreSafe

-----------------------------------------------------------------------------
(* Conversation: what any history that behaves as it keeps.                *)

(* The two facts about the log of one session.                             *)
Together(q) ==
    \A i, j \in DOMAIN q :
        (i < j /\ q[i].turn = q[j].turn)
            => j = i + 1 /\ q[i].role = "user" /\ q[j].role = "assistant"

(* A settled answer stands below the question of its turn.                 *)
Answered(q) ==
    \A i \in DOMAIN q :
        (q[i].role = "assistant" /\ q[i].status \in Abstract!Settled)
            => i > 1 /\ q[i - 1] = Abstract!Question(q[i].turn)

(* What the log of a session may look like.                                *)
Log(q) == q \in Seq(Abstract!Messages) /\ Together(q) /\ Answered(q)

(* A message has a turn; questions are asked, answers are not.             *)
LEMMA MessageShape ==
    ASSUME NEW m \in Abstract!Messages
    PROVE  /\ m.turn \in Requests
           /\ m.role \in {"user", "assistant"}
           /\ m.role = "user" => m = Abstract!Question(m.turn)
  BY DEF Abstract!Messages, Abstract!Question, Abstract!Answer, Abstract!Draft, Abstract!Settled

(* A message may be added if its turn is new and it is no settled answer.  *)
LEMMA AppendNew ==
    ASSUME NEW q, Log(q), NEW m \in Abstract!Messages,
           \A i \in DOMAIN q : q[i].turn # m.turn,
           ~(m.role = "assistant" /\ m.status \in Abstract!Settled)
    PROVE  Log(Append(q, m))
  <1> DEFINE p == Append(q, m)
  <1>1. p \in Seq(Abstract!Messages) /\ Len(p) = Len(q) + 1 /\ p[Len(p)] = m
    BY DEF Log
  <1>2. \A i \in 1..Len(q) : p[i] = q[i]
    BY DEF Log
  <1>3. DOMAIN p = 1..(Len(q) + 1) /\ DOMAIN q = 1..Len(q) /\ Len(q) \in Nat
    BY <1>1 DEF Log
  <1> HIDE DEF p
  <1>4. Together(p)
    BY <1>1, <1>2, <1>3 DEF Together, Log
  <1>5. Answered(p)
    <2> SUFFICES ASSUME NEW i \in DOMAIN p, p[i].role = "assistant", p[i].status \in Abstract!Settled
                 PROVE  i > 1 /\ p[i - 1] = Abstract!Question(p[i].turn)
      BY DEF Answered
    <2>1. i \in 1..Len(q)
      BY <1>1, <1>3
    <2>2. i > 1 /\ q[i - 1] = Abstract!Question(q[i].turn)
      BY <2>1, <1>2, <1>3 DEF Log, Answered
    <2> QED BY <2>1, <2>2, <1>2
  <1> QED BY <1>1, <1>4, <1>5 DEF Log, p

(* An answer may be added below the question of its turn.                  *)
LEMMA AppendAnswer ==
    ASSUME NEW q, Log(q), NEW t \in Requests, NEW m \in Abstract!Messages,
           q # <<>>, q[Len(q)] = Abstract!Question(t), m.turn = t, m.role = "assistant"
    PROVE  Log(Append(q, m))
  <1> DEFINE p == Append(q, m)
  <1> DEFINE n == Len(q)
  <1>1. p \in Seq(Abstract!Messages) /\ Len(p) = n + 1 /\ p[n + 1] = m
    BY DEF Log
  <1>2. \A i \in 1..n : p[i] = q[i]
    BY DEF Log
  <1>3. DOMAIN p = 1..(n + 1) /\ DOMAIN q = 1..n /\ n \in Nat /\ n > 0
    BY <1>1 DEF Log
  <1>4. q[n].turn = t /\ q[n].role = "user"
    BY DEF Abstract!Question
  <1>5. \A i \in 1..n : i < n => q[i].turn # t
    BY <1>3, <1>4 DEF Log, Together
  <1> HIDE DEF p, n
  <1>6. Together(p)
    <2> SUFFICES ASSUME NEW i \in DOMAIN p, NEW j \in DOMAIN p, i < j, p[i].turn = p[j].turn
                 PROVE  j = i + 1 /\ p[i].role = "user" /\ p[j].role = "assistant"
      BY DEF Together
    <2>1. CASE j = n + 1
      <3>1. i \in 1..n /\ q[i].turn = t
        BY <2>1, <1>1, <1>2, <1>3
      <3>2. i = n
        BY <3>1, <1>3, <1>5
      <3> QED BY <3>2, <2>1, <1>1, <1>2, <1>3, <1>4
    <2>2. CASE j # n + 1
      <3>1. i \in 1..n /\ j \in 1..n
        BY <2>2, <1>3
      <3> QED BY <3>1, <1>2, <1>3 DEF Log, Together
    <2> QED BY <2>1, <2>2
  <1>7. Answered(p)
    <2> SUFFICES ASSUME NEW i \in DOMAIN p, p[i].role = "assistant", p[i].status \in Abstract!Settled
                 PROVE  i > 1 /\ p[i - 1] = Abstract!Question(p[i].turn)
      BY DEF Answered
    <2>1. CASE i = n + 1
      BY <2>1, <1>1, <1>2, <1>3 DEF n
    <2>2. CASE i # n + 1
      <3>1. i \in 1..n
        BY <2>2, <1>3
      <3>2. i > 1 /\ q[i - 1] = Abstract!Question(q[i].turn)
        BY <3>1, <1>2, <1>3 DEF Log, Answered
      <3> QED BY <3>1, <3>2, <1>2, <1>3
    <2> QED BY <2>1, <2>2
  <1> QED BY <1>1, <1>6, <1>7 DEF Log, p

(* The last message may become another answer of its turn, a settled one   *)
(* if the question stands above it.                                        *)
LEMMA RewriteLast ==
    ASSUME NEW q, Log(q), NEW m \in Abstract!Messages,
           q # <<>>, q[Len(q)].turn = m.turn, q[Len(q)].role = "assistant",
           m.role = "assistant",
           Len(q) > 1, q[Len(q) - 1] = Abstract!Question(m.turn)
    PROVE  Log([q EXCEPT ![Len(q)] = m])
  <1> DEFINE p == [q EXCEPT ![Len(q)] = m]
  <1> DEFINE n == Len(q)
  <1>1. p \in Seq(Abstract!Messages) /\ Len(p) = n /\ p[n] = m
    BY DEF Log
  <1>2. \A i \in 1..n : i # n => p[i] = q[i]
    BY DEF Log
  <1>3. DOMAIN p = 1..n /\ DOMAIN q = 1..n /\ n \in Nat /\ n > 1
    BY <1>1 DEF Log
  <1>4. \A i \in 1..n : p[i].turn = q[i].turn /\ p[i].role = q[i].role
    BY <1>1, <1>2
  <1>5. q[n - 1] = Abstract!Question(m.turn)
    OBVIOUS
  <1> HIDE DEF p, n
  <1>6. Together(p)
    BY <1>3, <1>4 DEF Log, Together
  <1>7. Answered(p)
    <2> SUFFICES ASSUME NEW i \in DOMAIN p, p[i].role = "assistant", p[i].status \in Abstract!Settled
                 PROVE  i > 1 /\ p[i - 1] = Abstract!Question(p[i].turn)
      BY DEF Answered
    <2>1. CASE i = n
      BY <2>1, <1>1, <1>2, <1>3, <1>5
    <2>2. CASE i # n
      <3>1. i > 1 /\ q[i - 1] = Abstract!Question(q[i].turn)
        BY <2>2, <1>2, <1>3 DEF Log, Answered
      <3> QED BY <3>1, <2>2, <1>2, <1>3
    <2> QED BY <2>1, <2>2
  <1> QED BY <1>1, <1>6, <1>7 DEF Log, p, n

(* A log may lose its last messages.                                       *)
LEMMA Shortened ==
    ASSUME NEW q, Log(q), NEW k \in 0..Len(q)
    PROVE  /\ Log(SubSeq(q, 1, k))
           /\ Len(SubSeq(q, 1, k)) = k
           /\ \A i \in 1..k : SubSeq(q, 1, k)[i] = q[i]
  <1> DEFINE p == SubSeq(q, 1, k)
  <1>1. p \in Seq(Abstract!Messages) /\ Len(p) = k /\ \A i \in 1..k : p[i] = q[i]
    BY DEF Log
  <1>2. DOMAIN p = 1..k /\ DOMAIN q = 1..Len(q) /\ Len(q) \in Nat
    BY <1>1 DEF Log
  <1> HIDE DEF p
  <1>3. Together(p)
    BY <1>1, <1>2 DEF Log, Together
  <1>4. Answered(p)
    <2> SUFFICES ASSUME NEW i \in DOMAIN p, p[i].role = "assistant", p[i].status \in Abstract!Settled
                 PROVE  i > 1 /\ p[i - 1] = Abstract!Question(p[i].turn)
      BY DEF Answered
    <2>1. i > 1 /\ q[i - 1] = Abstract!Question(q[i].turn)
      BY <1>1, <1>2 DEF Log, Answered
    <2> QED BY <2>1, <1>1, <1>2
  <1> QED BY <1>1, <1>3, <1>4 DEF Log, p

(* A draft may stay when the question above it is withdrawn.               *)
LEMMA DraftKept ==
    ASSUME NEW q, Log(q), NEW t \in Requests,
           Len(q) > 1, q[Len(q) - 1] = Abstract!Question(t), q[Len(q)] = Abstract!Draft(t)
    PROVE  Log(Append(SubSeq(q, 1, Len(q) - 2), Abstract!Draft(t)))
  <1> DEFINE p == SubSeq(q, 1, Len(q) - 2)
  <1>1. Len(q) \in Nat /\ Len(q) - 2 \in 0..Len(q)
    BY DEF Log
  <1>2. Log(p) /\ Len(p) = Len(q) - 2 /\ \A i \in 1..Len(p) : p[i] = q[i]
    BY <1>1, Shortened
  <1> HIDE DEF p
  <1>3. \A i \in 1..(Len(q) - 2) : q[i].turn # t
    <2>1. q[Len(q)].turn = t
      BY DEF Abstract!Draft, Abstract!Answer
    <2>2. DOMAIN q = 1..Len(q)
      BY DEF Log
    <2> QED BY <1>1, <2>1, <2>2 DEF Log, Together
  <1>4. DOMAIN p = 1..(Len(q) - 2)
    BY <1>2 DEF Log
  <1>5. /\ Abstract!Draft(t) \in Abstract!Messages
        /\ Abstract!Draft(t).turn = t
        /\ Abstract!Draft(t).status \notin Abstract!Settled
    BY DEF Abstract!Draft, Abstract!Answer, Abstract!Messages, Abstract!Settled
  <1> QED BY <1>2, <1>3, <1>4, <1>5, AppendNew DEF p

-----------------------------------------------------------------------------
(* The inductive invariant: every log is one, and deleted sessions have    *)
(* none.                                                                   *)
LogsInv ==
    /\ DOMAIN history = Sessions
    /\ \A s \in Sessions : Log(history[s])
    /\ alive \in [Sessions -> BOOLEAN]
    /\ Abstract!DeletedSessionsStayEmpty
    /\ history \in [Sessions -> Seq(Abstract!Messages)]

(* The initial states satisfy the invariant.                               *)
LEMMA InitEstablishesLogsInv == Abstract!Init => LogsInv
  BY DEF Abstract!Init, LogsInv, Log, Together, Answered, Abstract!DeletedSessionsStayEmpty

(* A step that rewrites one log keeps the invariant if the new log is one  *)
(* and the session is alive or was not empty.                              *)
LEMMA RewriteKeepsLogs ==
    ASSUME LogsInv, NEW s \in Sessions, NEW q, Log(q), Abstract!Rewrite(s, q),
           alive[s] \/ history[s] # <<>>
    PROVE  LogsInv'
  BY DEF LogsInv, Abstract!Rewrite, Log, Abstract!DeletedSessionsStayEmpty

(* Every step preserves the invariant.                                     *)
LEMMA NextKeepsLogs == LogsInv /\ [Abstract!Next]_(Abstract!conversationVars) => LogsInv'
  <1> SUFFICES ASSUME LogsInv, [Abstract!Next]_(Abstract!conversationVars) PROVE LogsInv'
    OBVIOUS
  <1> USE DEF LogsInv
  <1>1. ASSUME NEW s \in Sessions, Abstract!Clear(s) PROVE LogsInv'
    <2>1. Log(<<>>)
      BY DEF Log, Together, Answered
    <2> QED BY <1>1, <2>1, RewriteKeepsLogs DEF Abstract!Clear
  <1>2. ASSUME NEW s \in Sessions, Abstract!Delete(s) PROVE LogsInv'
    BY <1>2 DEF Abstract!Delete, Log, Together, Answered, Abstract!DeletedSessionsStayEmpty
  <1>3. ASSUME NEW s \in Sessions, NEW t \in Requests, Abstract!Ask(s, t) PROVE LogsInv'
    <2>1. /\ Abstract!Question(t) \in Abstract!Messages
          /\ Abstract!Question(t).turn = t
          /\ Abstract!Question(t).role = "user"
      BY DEF Abstract!Question, Abstract!Messages
    <2>2. \A i \in DOMAIN history[s] : history[s][i].turn # t
      BY <1>3 DEF Abstract!Ask, Abstract!Mentions
    <2>3. Log(Append(history[s], Abstract!Question(t)))
      BY <2>1, <2>2, AppendNew
    <2> QED BY <1>3, <2>3, RewriteKeepsLogs DEF Abstract!Ask
  <1>4. ASSUME NEW s \in Sessions, NEW t \in Requests, NEW st \in Abstract!Settled \cup {"draft"},
               alive[s], Abstract!EndsWith(s, Abstract!Question(t)),
               Abstract!Rewrite(s,
               Append(history[s], Abstract!Answer(t, st)))
        PROVE LogsInv'
    <2>1. /\ Abstract!Answer(t, st) \in Abstract!Messages
          /\ Abstract!Answer(t, st).turn = t
          /\ Abstract!Answer(t, st).role = "assistant"
      BY DEF Abstract!Answer, Abstract!Messages
    <2>2. Log(Append(history[s], Abstract!Answer(t, st)))
      BY <1>4, <2>1, AppendAnswer DEF Abstract!EndsWith
    <2> QED BY <1>4, <2>2, RewriteKeepsLogs
  <1>5. ASSUME NEW s \in Sessions, NEW t \in Requests, NEW st \in Abstract!Settled,
               Abstract!SettleDraft(s, t, st) \/ Abstract!Resume(s, t, st)
        PROVE LogsInv'
    <2>1. /\ Abstract!Answer(t, st) \in Abstract!Messages
          /\ Abstract!Answer(t, st).turn = t
          /\ Abstract!Answer(t, st).role = "assistant"
      BY DEF Abstract!Answer, Abstract!Messages
    <2>2. /\ history[s] # <<>>
          /\ history[s][Len(history[s])].turn = t
          /\ history[s][Len(history[s])].role = "assistant"
          /\ Len(history[s]) > 1
          /\ history[s][Len(history[s]) - 1] = Abstract!Question(t)
      <3>1. CASE Abstract!SettleDraft(s, t, st)
        BY <3>1 DEF Abstract!SettleDraft, Abstract!EndsWithDraftOf, Abstract!Draft, Abstract!Answer
      <3>2. CASE Abstract!Resume(s, t, st)
        <4>1. history[s] # <<>> /\ history[s][Len(history[s])] = Abstract!Answer(t, "stopped")
          BY <3>2 DEF Abstract!Resume, Abstract!EndsWith
        <4>2. Len(history[s]) \in DOMAIN history[s]
          BY <4>1 DEF Log
        <4> QED BY <4>1, <4>2 DEF Log, Answered, Abstract!Answer, Abstract!Settled
      <3> QED BY <1>5, <3>1, <3>2
    <2>3. Log([history[s] EXCEPT ![Len(history[s])] = Abstract!Answer(t, st)])
      BY <2>1, <2>2, RewriteLast
    <2> QED BY <1>5, <2>2, <2>3, RewriteKeepsLogs DEF Abstract!SettleDraft, Abstract!Resume
  <1>6. ASSUME NEW s \in Sessions, NEW t \in Requests, Abstract!Withdraw(s, t) PROVE LogsInv'
    <2>1. ASSUME Abstract!EndsWith(s, Abstract!Question(t)),
                 Abstract!Rewrite(s, SubSeq(history[s], 1, Len(history[s]) - 1))
          PROVE LogsInv'
      <3>1. history[s] # <<>> /\ Len(history[s]) - 1 \in 0..Len(history[s])
        BY <2>1 DEF Abstract!EndsWith, Log
      <3>2. Log(SubSeq(history[s], 1, Len(history[s]) - 1))
        BY <3>1, Shortened
      <3> QED BY <2>1, <3>1, <3>2, RewriteKeepsLogs
    <2>2. ASSUME Abstract!EndsWithDraftOf(s, t),
                 Abstract!Rewrite(s, Append(SubSeq(history[s], 1, Len(history[s]) - 2),
                                            Abstract!Draft(t)))
          PROVE LogsInv'
      <3>1. Log(Append(SubSeq(history[s], 1, Len(history[s]) - 2), Abstract!Draft(t)))
        BY <2>2, DraftKept DEF Abstract!EndsWithDraftOf
      <3> QED BY <2>2, <3>1, RewriteKeepsLogs DEF Abstract!EndsWithDraftOf
    <2> QED BY <1>6, <2>1, <2>2 DEF Abstract!Withdraw
  <1>7. CASE UNCHANGED Abstract!conversationVars
    BY <1>7 DEF Abstract!conversationVars, Abstract!DeletedSessionsStayEmpty
  <1>8. ASSUME NEW s \in Sessions, NEW t \in Requests, Abstract!Sketch(s, t) PROVE LogsInv'
    BY <1>8, <1>4 DEF Abstract!Sketch, Abstract!Draft
  <1>9. ASSUME NEW s \in Sessions, NEW t \in Requests, NEW st \in Abstract!Settled,
               Abstract!SettleQuestion(s, t, st)
        PROVE LogsInv'
    BY <1>9, <1>4 DEF Abstract!SettleQuestion
  <1> QED BY <1>1, <1>2, <1>3, <1>5, <1>6, <1>7, <1>8, <1>9 DEF Abstract!Next

(* The invariant holds in every reachable state.                           *)
LEMMA LogsInvHolds == Abstract!Spec => []LogsInv
  BY InitEstablishesLogsInv, NextKeepsLogs, PTL DEF Abstract!Spec

-----------------------------------------------------------------------------

(* The messages of a turn stand together, question first, whatever other   *)
(* turns were asked, withdrawn, cleared or deleted meanwhile: no turn gets *)
(* a second answer.                                                        *)
THEOREM MessagesStandTogether == Abstract!Spec => []Abstract!TurnsStandTogether
  <1>1. LogsInv => Abstract!TurnsStandTogether
    BY DEF LogsInv, Log, Together, Abstract!TurnsStandTogether
  <1> QED BY <1>1, LogsInvHolds, PTL

(* Every settled answer stands directly below the question of its turn.    *)
THEOREM AnswersHaveQuestions == Abstract!Spec => []Abstract!AnswersFollowTheirQuestion
  <1>1. LogsInv => Abstract!AnswersFollowTheirQuestion
    BY DEF LogsInv, Log, Answered, Abstract!AnswersFollowTheirQuestion
  <1> QED BY <1>1, LogsInvHolds, PTL

(* A deleted session keeps no message and gets none, although turns that   *)
(* were running when it was deleted go on.                                 *)
THEOREM DeletedSessionsGetNothing == Abstract!Spec => []Abstract!DeletedSessionsStayEmpty
  <1>1. LogsInv => Abstract!DeletedSessionsStayEmpty
    BY DEF LogsInv
  <1> QED BY <1>1, LogsInvHolds, PTL

(* A completed or failed answer is never edited again: whatever step is    *)
(* taken, it stays where it is or the whole session is emptied.            *)
THEOREM FinishedAnswersStay == Abstract!Spec => Abstract!FinishedAnswersAreFinal
  <1> DEFINE Kept(s) ==
        \A i \in DOMAIN history[s] :
          (history[s][i].role = "assistant" /\ history[s][i].status \in {"completed", "error"})
              => history'[s] = <<>> \/ (i \in DOMAIN history'[s] /\ history'[s][i] = history[s][i])
  <1>1. ASSUME LogsInv, Abstract!Next, NEW s \in Sessions PROVE Kept(s)
    <2> DEFINE q == history[s]
    <2> DEFINE n == Len(q)
    <2>1. q \in Seq(Abstract!Messages) /\ n \in Nat /\ DOMAIN q = 1..n
      BY <1>1 DEF LogsInv
    <2>2. DOMAIN history = Sessions
      BY <1>1 DEF LogsInv
    <2>3. PICK u \in Sessions :
             \/ Abstract!Clear(u) \/ Abstract!Delete(u)
             \/ \E t \in Requests :
                   Abstract!Ask(u, t) \/ Abstract!Sketch(u, t) \/ Abstract!Withdraw(u, t)
             \/ \E t \in Requests, st \in Abstract!Settled :
                   \/ Abstract!SettleQuestion(u, t, st) \/ Abstract!SettleDraft(u, t, st)
                   \/ Abstract!Resume(u, t, st)
      BY <1>1 DEF Abstract!Next
    <2>4. CASE u # s
      BY <2>1, <2>2, <2>3, <2>4 DEF Abstract!Clear, Abstract!Delete, Abstract!Ask,
         Abstract!Sketch, Abstract!Withdraw, Abstract!SettleQuestion,
            Abstract!SettleDraft, Abstract!Resume, Abstract!Rewrite
    <2>5. CASE u = s
      <3>1. CASE Abstract!Clear(s) \/ Abstract!Delete(s)
        BY <3>1, <2>2 DEF Abstract!Clear, Abstract!Delete, Abstract!Rewrite
      <3>2. ASSUME NEW m, Abstract!Rewrite(s, Append(q, m)) PROVE Kept(s)
        BY <3>2, <2>1, <2>2 DEF Abstract!Rewrite
      <3>3. ASSUME NEW m, Abstract!Rewrite(s, [q EXCEPT ![n] = m]), q[n].status \in {"draft", "stopped"}
            PROVE  Kept(s)
        BY <3>3, <2>1, <2>2 DEF Abstract!Rewrite
      <3>4. ASSUME NEW t \in Requests, Abstract!Withdraw(s, t) PROVE Kept(s)
        <4>1. ASSUME Abstract!EndsWith(s, Abstract!Question(t)),
                     Abstract!Rewrite(s, SubSeq(q, 1, n - 1))
              PROVE  Kept(s)
          BY <4>1, <2>1, <2>2 DEF Abstract!EndsWith, Abstract!Question, Abstract!Rewrite
        <4>2. ASSUME Abstract!EndsWithDraftOf(s, t),
                     Abstract!Rewrite(s, Append(SubSeq(q, 1, n - 2), Abstract!Draft(t)))
              PROVE  Kept(s)
          <5>1. n > 1 /\ q[n - 1].role = "user" /\ q[n].status = "draft"
            BY <4>2 DEF Abstract!EndsWithDraftOf, Abstract!Question, Abstract!Draft, Abstract!Answer
          <5> DEFINE p == SubSeq(q, 1, n - 2)
          <5>2. /\ p \in Seq(Abstract!Messages) /\ Len(p) = n - 2
                /\ \A i \in 1..(n - 2) : p[i] = q[i]
            BY <2>1, <5>1
          <5> HIDE DEF p
          <5>3. \A i \in 1..(n - 2) :
                   i \in DOMAIN Append(p, Abstract!Draft(t)) /\ Append(p, Abstract!Draft(t))[i] = q[i]
            BY <5>2, <2>1, <5>1
          <5>4. history'[s] = Append(p, Abstract!Draft(t))
            BY <4>2, <2>2 DEF Abstract!Rewrite, p
          <5> QED BY <5>1, <5>3, <5>4, <2>1
        <4> QED BY <3>4, <4>1, <4>2 DEF Abstract!Withdraw
      <3>5. ASSUME NEW t \in Requests, NEW st \in Abstract!Settled,
                   Abstract!SettleDraft(s, t, st) \/ Abstract!Resume(s, t, st)
            PROVE  Kept(s)
        BY <3>5, <3>3 DEF Abstract!SettleDraft, Abstract!Resume, Abstract!EndsWith,
           Abstract!EndsWithDraftOf, Abstract!Draft, Abstract!Answer
      <3>6. ASSUME NEW t \in Requests, Abstract!Ask(s, t) \/ Abstract!Sketch(s, t) PROVE Kept(s)
        BY <3>6, <3>2 DEF Abstract!Ask, Abstract!Sketch
      <3>7. ASSUME NEW t \in Requests, NEW st \in Abstract!Settled,
                   Abstract!SettleQuestion(s, t, st)
            PROVE  Kept(s)
        BY <3>7, <3>2 DEF Abstract!SettleQuestion
      <3> QED BY <2>3, <2>5, <3>1, <3>4, <3>5, <3>6, <3>7
    <2> QED BY <2>4, <2>5
  <1>2. LogsInv /\ [Abstract!Next]_(Abstract!conversationVars)
            => [\A s \in Sessions : Kept(s)]_(Abstract!conversationVars)
    BY <1>1
  <1> QED BY <1>2, LogsInvHolds, PTL DEF Abstract!Spec, Abstract!FinishedAnswersAreFinal

-----------------------------------------------------------------------------
(* What the stored history says of a turn that is in progress.             *)

Asked(r)     == Abstract!EndsWith(session[r], Abstract!Question(r))
Drafted(r)   == Abstract!EndsWithDraftOf(session[r], r)
(* The stopped answer that a continuation resumes is the last message.     *)
Resumable(r) == Abstract!EndsWith(session[r], Abstract!Answer(target[r], "stopped"))
(* The answer of the turn is the last message, settled as st.              *)
Ended(r, st) == Abstract!EndsWith(session[r], Abstract!Answer(TurnOf(r), st))

(* The handler states a turn can be in before its question is stored.      *)
Unasked == {"new", "admission", "created", "lockWait", "open"}

(* No session knows a turn before its question is stored.                  *)
UnaskedTurnsAreUnmentioned ==
    \A r \in Requests : pc[r] \in Unasked => \A s \in Sessions : ~Abstract!Mentions(s, r)

(* Drafts are for new questions only.                                      *)
ContinuationsWriteNoDraft ==
    \A r \in Requests : worker[r] \in {"drafted", "append"} => kind[r] # "continue"

(* How the messages of its session end while r is in progress.             *)
LogOfTurn(r) ==
    /\ pc[r] = "agent" => Asked(r)
    /\ pc[r] = "answered" => Drafted(r)
    /\ pc[r] = "undo" => Asked(r) \/ Drafted(r)
    /\ (kind[r] = "continue" /\ worker[r] \in {"pull", "persist", "replace"}) => Resumable(r)
    /\ (kind[r] # "continue" /\ worker[r] \in {"pull", "append"}) => Asked(r)
    /\ (kind[r] # "continue" /\ worker[r] \in {"drafted", "replace"}) => Drafted(r)
    /\ (kind[r] # "continue" /\ worker[r] = "persist") => Asked(r) \/ Drafted(r)
    /\ worker[r] = "publish" => Ended(r, outcome[r])
    /\ (worker[r] = "closing" /\ job[r] \in Settled) => Ended(r, job[r])

(* So it is for every turn whose session was not deleted.                  *)
LogsShowTheTurn == \A r \in Requests : alive[session[r]] => LogOfTurn(r)

(* With the lock of IInv, nobody else moves the log of a turn in progress, *)
(* so the mutations, which look a message up by its id, find it where the  *)
(* abstract steps expect it: at the end.                                   *)
TurnInv == UnaskedTurnsAreUnmentioned /\ ContinuationsWriteNoDraft /\ LogsShowTheTurn

(* The invariant of the refinement: locks and workers, turns, histories.   *)
FullInv == IInv /\ TurnInv /\ LogsInv

-----------------------------------------------------------------------------
(* The messages a mutation finds.                                          *)

(* What the invariant says of one session's history.                       *)
LEMMA LogOfSession ==
    ASSUME FullInv, NEW s \in Sessions
    PROVE  /\ Log(history[s])
           /\ history[s] \in Seq(Abstract!Messages)
           /\ Len(history[s]) \in Nat
           /\ DOMAIN history[s] = 1..Len(history[s])
           /\ history[s] # <<>> => Len(history[s]) > 0 /\ alive[s]
           /\ alive[s] \in BOOLEAN
  <1>1. Log(history[s]) /\ (~alive[s] => history[s] = <<>>) /\ alive[s] \in BOOLEAN
    BY DEF FullInv, LogsInv, Abstract!DeletedSessionsStayEmpty
  <1>2. history[s] \in Seq(Abstract!Messages)
    BY DEF FullInv, IInv, OwnTypes
  <1> QED BY <1>1, <1>2

(* An answer that ends a log stands nowhere else in it.                    *)
LEMMA LastAnswerIsUnique ==
    ASSUME FullInv, NEW s \in Sessions, NEW m, m.role = "assistant",
           Abstract!EndsWith(s, m), NEW i \in DOMAIN history[s], history[s][i] = m
    PROVE  i = Len(history[s])
  <1>1. Together(history[s]) /\ Len(history[s]) \in Nat
        /\ DOMAIN history[s] = 1..Len(history[s])
    BY LogOfSession DEF Log
  <1>2. history[s][Len(history[s])] = m /\ Len(history[s]) \in DOMAIN history[s]
    BY <1>1 DEF Abstract!EndsWith
  <1> QED BY <1>1, <1>2 DEF Together

(* The question of a turn that ends the log, or has only its draft below,  *)
(* stands nowhere else.                                                    *)
LEMMA QuestionIsUnique ==
    ASSUME FullInv, NEW s \in Sessions, NEW t \in Requests,
           NEW i \in DOMAIN history[s], history[s][i] = Abstract!Question(t)
    PROVE  /\ Abstract!EndsWith(s, Abstract!Question(t)) => i = Len(history[s])
           /\ Abstract!EndsWithDraftOf(s, t) => i = Len(history[s]) - 1
  <1>1. /\ Abstract!Question(t).turn = t /\ Abstract!Question(t).role = "user"
        /\ Abstract!Draft(t).turn = t /\ Abstract!Draft(t).role = "assistant"
    BY DEF Abstract!Question, Abstract!Draft, Abstract!Answer
  <1>2. Together(history[s]) /\ Len(history[s]) \in Nat
        /\ DOMAIN history[s] = 1..Len(history[s])
    BY LogOfSession DEF Log
  <1> QED BY <1>1, <1>2 DEF Abstract!EndsWith, Abstract!EndsWithDraftOf, Together

(* replace_message on the last answer rewrites the end of the log.         *)
LEMMA ReplaceRewritesTheEnd ==
    ASSUME FullInv, NEW s \in Sessions, NEW old, old.role = "assistant", NEW new,
           Abstract!EndsWith(s, old), ReplaceMessage(s, old, new)
    PROVE  /\ Abstract!Rewrite(s, [history[s] EXCEPT ![Len(history[s])] = new])
           /\ history' = [history EXCEPT ![s] = [history[s] EXCEPT ![Len(history[s])] = new]]
           /\ alive' = alive
  <1> DEFINE h == history[s]
  <1>1. \A i \in DOMAIN h : h[i] = old <=> i = Len(h)
    BY LastAnswerIsUnique, LogOfSession DEF Abstract!EndsWith
  <1>2. [i \in DOMAIN h |-> IF h[i] = old THEN new ELSE h[i]] = [h EXCEPT ![Len(h)] = new]
    BY <1>1, LogOfSession
  <1> QED BY <1>2 DEF ReplaceMessage, Store, Abstract!Rewrite

(* delete_message on the question of a turn just asked withdraws it.       *)
LEMMA RemoveWithdraws ==
    ASSUME FullInv, NEW s \in Sessions, NEW t \in Requests,
           Abstract!EndsWith(s, Abstract!Question(t)) \/ Abstract!EndsWithDraftOf(s, t),
           RemoveMessage(s, Abstract!Question(t))
    PROVE  Abstract!Withdraw(s, t)
  <1> DEFINE h == history[s]
             n == Len(h)
  <1>1. h \in Seq(Abstract!Messages) /\ n \in Nat /\ DOMAIN h = 1..n
    BY LogOfSession
  <1>2. CASE Abstract!EndsWith(s, Abstract!Question(t))
    <2>1. n \in 1..n /\ h[n] = Abstract!Question(t)
      BY <1>1, <1>2 DEF Abstract!EndsWith
    <2>2. Store(s, [i \in 1..(n - 1) |-> h[IF i < n THEN i ELSE i + 1]])
      BY <2>1, <1>1, <1>2, QuestionIsUnique DEF RemoveMessage, Stored
    <2>3. [i \in 1..(n - 1) |-> h[IF i < n THEN i ELSE i + 1]] = SubSeq(h, 1, n - 1)
      <3>1. [i \in 1..(n - 1) |-> h[IF i < n THEN i ELSE i + 1]] = [i \in 1..(n - 1) |-> h[i]]
        BY <1>1
      <3> QED BY <3>1, <1>1, <2>1
    <2> QED BY <1>2, <2>2, <2>3 DEF Store, Abstract!Withdraw, Abstract!Rewrite
  <1>3. CASE Abstract!EndsWithDraftOf(s, t)
    <2>1. n > 1 /\ h[n - 1] = Abstract!Question(t) /\ h[n] = Abstract!Draft(t)
      BY <1>3 DEF Abstract!EndsWithDraftOf
    <2>2. Store(s, [i \in 1..(n - 1) |-> h[IF i < n - 1 THEN i ELSE i + 1]])
      <3>1. Stored(s, Abstract!Question(t))
        BY <1>1, <2>1 DEF Stored
      <3>2. PICK p \in DOMAIN h : /\ h[p] = Abstract!Question(t)
                                  /\ Store(s, [i \in 1..(n - 1) |-> h[IF i < p THEN i ELSE i + 1]])
        BY <3>1 DEF RemoveMessage
      <3>3. p = n - 1
        BY <3>2, <1>3, QuestionIsUnique
      <3> QED BY <3>2, <3>3
    <2>3. [i \in 1..(n - 1) |-> h[IF i < n - 1 THEN i ELSE i + 1]]
              = Append(SubSeq(h, 1, n - 2), Abstract!Draft(t))
      <3> DEFINE p == SubSeq(h, 1, n - 2)
                 d == Abstract!Draft(t)
                 q == [i \in 1..(n - 1) |-> h[IF i < n - 1 THEN i ELSE i + 1]]
      <3>1. d \in Abstract!Messages
        BY DEF Abstract!Draft, Abstract!Answer, Abstract!Messages
      <3>2. /\ p \in Seq(Abstract!Messages) /\ Len(p) = n - 2
            /\ \A i \in 1..(n - 2) : p[i] = h[i]
        BY <1>1, <2>1
      <3>3. /\ q \in Seq(Abstract!Messages) /\ Len(q) = n - 1
            /\ \A i \in 1..(n - 2) : q[i] = h[i]
            /\ q[n - 1] = d
        <4>1. \A i \in 1..(n - 1) : q[i] \in Abstract!Messages
          BY <1>1, <2>1, ElementOfSeq
        <4> QED BY <1>1, <2>1, <4>1, IsASeq
      <3> HIDE DEF p, d, q
      <3>4. /\ Append(p, d) \in Seq(Abstract!Messages) /\ Len(Append(p, d)) = n - 1
            /\ \A i \in 1..(n - 2) : Append(p, d)[i] = p[i]
            /\ Append(p, d)[n - 1] = d
        BY <1>1, <2>1, <3>1, <3>2
      <3>5. \A i \in 1..(n - 1) : q[i] = Append(p, d)[i]
        BY <1>1, <2>1, <3>2, <3>3, <3>4
      <3>6. q = Append(p, d)
        BY <3>3, <3>4, <3>5, <1>1, SeqEqual
      <3> QED BY <3>6 DEF p, d, q
    <2> QED BY <1>3, <2>2, <2>3 DEF Store, Abstract!Withdraw, Abstract!Rewrite
  <1> QED BY <1>2, <1>3

-----------------------------------------------------------------------------
(* Frames: what a step of one request leaves of the others.                *)

(* The step is one of r, or of its worker, only.                           *)
OthersStand(r) ==
    \A q \in Requests \ {r} :
        /\ pc'[q] = pc[q] /\ kind'[q] = kind[q]
        /\ session'[q] = session[q] /\ target'[q] = target[q]
        /\ worker'[q] = worker[q] /\ outcome'[q] = outcome[q] /\ job'[q] = job[q]

(* Only the log of s changes, and nothing is added to it but messages of   *)
(* turns it already has and of r.                                          *)
OnlyTouches(s, r) ==
    /\ \A x \in Sessions \ {s} : history'[x] = history[x] /\ alive'[x] = alive[x]
    /\ alive'[s] => alive[s]
    /\ \A i \in DOMAIN history'[s] :
          history'[s][i].turn = r \/ \E j \in DOMAIN history[s] :
                                        history[s][j].turn = history'[s][i].turn

(* What a step has to show about the request r that takes it.              *)
TurnMoves(r) ==
    /\ worker'[r] \in {"drafted", "append"} => kind'[r] # "continue"
    /\ alive'[session'[r]] => LogOfTurn(r)'

(* A step of the request that holds the lock, or of one nobody excludes,   *)
(* keeps what is known of every turn.                                      *)
LEMMA OwnerStepKeepsTurns ==
    ASSUME FullInv, NEW r \in Requests, NEW s \in Sessions,
           OthersStand(r), OnlyTouches(s, r), lock[s] \in {None, r},
           pc'[r] \notin Unasked, TurnMoves(r)
    PROVE  TurnInv'
  <1>1. ASSUME NEW q \in Requests, q # r PROVE alive'[session'[q]] => LogOfTurn(q)'
    <2>0. session[q] \in Sessions /\ LogsShowTheTurn
      BY DEF FullInv, TurnInv, IInv, OwnTypes
    <2>1. CASE session[q] # s
      BY <1>1, <2>0, <2>1
         DEF OthersStand, OnlyTouches, LogsShowTheTurn, LogOfTurn, Asked, Drafted, Resumable,
             Ended, TurnOf, Abstract!EndsWith, Abstract!EndsWithDraftOf
    <2>2. CASE session[q] = s
      <3>1. ~InProgress(q)
        BY <1>1, <2>2, NoneAssumption DEF FullInv, IInv, TurnsAreSerialized
      <3>2. ~InProgress(q)'
        BY <1>1, <3>1 DEF OthersStand, InProgress
      <3> QED BY <3>2 DEF LogOfTurn, InProgress
    <2> QED BY <2>1, <2>2
  <1>2. LogsShowTheTurn'
    BY <1>1 DEF LogsShowTheTurn, TurnMoves
  <1>3. UnaskedTurnsAreUnmentioned'
    BY DEF FullInv, TurnInv, UnaskedTurnsAreUnmentioned, OthersStand, OnlyTouches,
           Abstract!Mentions
  <1>4. ContinuationsWriteNoDraft'
    BY DEF FullInv, TurnInv, ContinuationsWriteNoDraft, OthersStand, TurnMoves
  <1> QED BY <1>2, <1>3, <1>4 DEF TurnInv

(* A step that leaves the store alone.                                     *)
LEMMA QuietStepKeepsTurns ==
    ASSUME FullInv, NEW r \in Requests, OthersStand(r), UNCHANGED storeVars,
           pc'[r] \in Unasked => pc[r] \in Unasked, TurnMoves(r)
    PROVE  TurnInv'
  <1>1. ASSUME NEW q \in Requests, q # r PROVE alive'[session'[q]] => LogOfTurn(q)'
    BY <1>1
       DEF FullInv, TurnInv, OthersStand, storeVars, LogsShowTheTurn, LogOfTurn, Asked, Drafted,
           Resumable, Ended, TurnOf, Abstract!EndsWith, Abstract!EndsWithDraftOf
  <1>2. LogsShowTheTurn'
    BY <1>1 DEF LogsShowTheTurn, TurnMoves
  <1>3. UnaskedTurnsAreUnmentioned'
    BY DEF FullInv, TurnInv, UnaskedTurnsAreUnmentioned, OthersStand, storeVars,
           Abstract!Mentions
  <1>4. ContinuationsWriteNoDraft'
    BY DEF FullInv, TurnInv, ContinuationsWriteNoDraft, OthersStand, TurnMoves
  <1> QED BY <1>2, <1>3, <1>4 DEF TurnInv

(* A message added at the end of a log.                                    *)
LEMMA AppendTouches ==
    ASSUME FullInv, NEW s \in Sessions, NEW r \in Requests, NEW m, m.turn = r,
           AppendMessage(s, m)
    PROVE  /\ OnlyTouches(s, r)
           /\ alive' = alive
           /\ Abstract!Rewrite(s, Append(history[s], m))
           /\ Len(history'[s]) = Len(history[s]) + 1
           /\ history'[s] # <<>>
           /\ history'[s][Len(history'[s])] = m
           /\ \A i \in 1..Len(history[s]) : history'[s][i] = history[s][i]
  <1> DEFINE h == history[s]
             g == Append(h, m)
  <1>1. h \in Seq(Abstract!Messages) /\ Len(h) \in Nat /\ DOMAIN h = 1..Len(h)
    BY LogOfSession
  <1>2. history' = [history EXCEPT ![s] = g] /\ alive' = alive
    BY DEF AppendMessage, Store
  <1>3. history'[s] = g /\ \A x \in Sessions \ {s} : history'[x] = history[x]
    BY <1>2 DEF FullInv, IInv, OwnTypes
  <1>4. /\ Len(g) = Len(h) + 1 /\ g # <<>> /\ g[Len(g)] = m /\ DOMAIN g = 1..(Len(h) + 1)
        /\ \A i \in 1..Len(h) : g[i] = h[i]
    BY <1>1
  <1> HIDE DEF g
  <1>5. OnlyTouches(s, r)
    BY <1>1, <1>2, <1>3, <1>4 DEF OnlyTouches
  <1> QED BY <1>2, <1>3, <1>4, <1>5 DEF g, Abstract!Rewrite

(* The last message rewritten.                                             *)
LEMMA RewriteTouches ==
    ASSUME FullInv, NEW s \in Sessions, NEW r, NEW m,
           history[s] # <<>>, history[s][Len(history[s])].turn = m.turn,
           history' = [history EXCEPT ![s] = [history[s] EXCEPT ![Len(history[s])] = m]],
           alive' = alive
    PROVE  /\ OnlyTouches(s, r)
           /\ history'[s] # <<>>
           /\ history'[s][Len(history'[s])] = m
  <1> DEFINE h == history[s]
             g == [h EXCEPT ![Len(h)] = m]
  <1>1. h \in Seq(Abstract!Messages) /\ Len(h) \in Nat /\ DOMAIN h = 1..Len(h) /\ Len(h) > 0
    BY LogOfSession
  <1>2. history'[s] = g /\ \A x \in Sessions \ {s} : history'[x] = history[x]
    BY DEF FullInv, IInv, OwnTypes
  <1>3. /\ DOMAIN g = 1..Len(h) /\ g # <<>> /\ g[Len(h)] = m
        /\ \A i \in 1..Len(h) : g[i].turn = h[i].turn
    BY <1>1
  <1>4. Len(g) = Len(h)
    BY <1>1, <1>3
  <1> HIDE DEF g
  <1>5. OnlyTouches(s, r)
    BY <1>1, <1>2, <1>3 DEF OnlyTouches
  <1> QED BY <1>2, <1>3, <1>4, <1>5

(* Removing a message touches one session only.                            *)
LEMMA RemoveTouches ==
    ASSUME FullInv, NEW s \in Sessions, NEW r, NEW m, RemoveMessage(s, m)
    PROVE  OnlyTouches(s, r)
  <1> DEFINE h == history[s]
  <1>1. Len(h) \in Nat /\ DOMAIN h = 1..Len(h)
    BY LogOfSession
  <1>2. ASSUME NEW p \in DOMAIN h,
               Store(s, [i \in 1..(Len(h) - 1) |-> h[IF i < p THEN i ELSE i + 1]])
        PROVE  OnlyTouches(s, r)
    <2> DEFINE g == [i \in 1..(Len(h) - 1) |-> h[IF i < p THEN i ELSE i + 1]]
    <2>1. history'[s] = g /\ \A x \in Sessions \ {s} : history'[x] = history[x]
      BY <1>2 DEF Store, FullInv, IInv, OwnTypes
    <2>2. \A i \in DOMAIN g : (IF i < p THEN i ELSE i + 1) \in DOMAIN h
                               /\ g[i] = h[IF i < p THEN i ELSE i + 1]
      BY <1>1
    <2> HIDE DEF g
    <2> QED BY <1>2, <2>1, <2>2 DEF OnlyTouches, Store
  <1>3. CASE UNCHANGED storeVars
    BY <1>3 DEF storeVars, OnlyTouches
  <1> QED BY <1>2, <1>3 DEF RemoveMessage

-----------------------------------------------------------------------------
(* Every step is a step of Conversation or leaves it alone, and keeps the  *)
(* log of every turn in progress as TurnInv says.                          *)

(* The step is one of the conversation, or a stutter, and keeps TurnInv.   *)
Implemented == TurnInv' /\ (Abstract!Next \/ UNCHANGED storeVars)

(* A request that arrives changes no history.                              *)
LEMMA ArrivalImplements ==
    ASSUME FullInv, NEW r \in Requests,
           NEW k \in Kinds, NEW s \in Sessions, NEW t \in Requests \cup {None},
           Arrive(r, k, s, t)
    PROVE  Implemented
  <1>1. /\ UNCHANGED storeVars /\ UNCHANGED workerVars /\ UNCHANGED jobVars
        /\ pc[r] = "new" /\ worker[r] = "none"
        /\ OthersStand(r)
        /\ pc' = [pc EXCEPT ![r] = pc'[r]]
        /\ pc'[r] \notin {"agent", "answered", "undo"}
    BY DEF Arrive, Goto, Leased, OthersStand, workerVars, jobVars, WorkersMatchJobs, Unlaunched,
           FullInv, IInv, OwnTypes
  <1>2. TurnMoves(r)
    BY <1>1 DEF TurnMoves, LogOfTurn, workerVars
  <1> QED BY <1>1, <1>2, QuietStepKeepsTurns DEF Implemented, Unasked

(* Handlers that wait, are refused or let go.                              *)
LEMMA HandlersImplement ==
    ASSUME FullInv, NEW r \in Requests,
           \/ PollGate(r) \/ CancelInQueue(r) \/ PassDeadline(r)
           \/ StartGenerator(r) \/ OpenStream(r) \/ RefuseToLaunch(r) \/ EndOfStream(r)
           \/ Disconnect(r) \/ DisconnectEarly(r) \/ SendAgentRaises(r)
    PROVE  Implemented
  <1>1. UNCHANGED <<storeVars, workerVars, jobVars, requestVars>>
    BY DEF PollGate, CancelInQueue, PassDeadline, StartGenerator, OpenStream,
           RefuseToLaunch, EndOfStream, Disconnect, DisconnectEarly, SendAgentRaises,
           CloseGenerator
  <1>2. /\ \E p : pc' = [pc EXCEPT ![r] = p]
        /\ pc'[r] \in Unasked => pc[r] \in Unasked
        /\ pc'[r] # pc[r] => pc'[r] \notin {"agent", "answered"}
        /\ pc'[r] = "undo" => pc[r] \in {"undo", "agent", "answered"}
    <2>1. CASE PassDeadline(r)
      BY <2>1 DEF PassDeadline, FullInv, IInv, OwnTypes
    <2>2. CASE \E p \in {"lockWait", "created", "open", "refused", "gone", "failed", "over"} :
                  Goto(r, p) /\ (p \in Unasked => pc[r] \in Unasked)
      BY <2>2 DEF Goto, FullInv, IInv, OwnTypes
    <2>3. CASE SendAgentRaises(r)
      BY <2>3 DEF SendAgentRaises, Goto, Unasked, FullInv, IInv, OwnTypes
    <2> QED
      BY <2>1, <2>2, <2>3 DEF PollGate, CancelInQueue, StartGenerator, OpenStream,
         RefuseToLaunch, EndOfStream, Disconnect, DisconnectEarly, CloseGenerator, Leased, Unasked
  <1>3. OthersStand(r)
    BY <1>1, <1>2 DEF OthersStand, workerVars, jobVars, requestVars, FullInv, IInv, OwnTypes
  <1>4. TurnMoves(r)
    BY <1>1, <1>2
       DEF TurnMoves, FullInv, TurnInv, ContinuationsWriteNoDraft, LogsShowTheTurn, LogOfTurn,
           Asked, Drafted, Resumable, Ended, TurnOf, Abstract!EndsWith,
           Abstract!EndsWithDraftOf, storeVars, workerVars, jobVars, requestVars
  <1> QED BY <1>1, <1>2, <1>3, <1>4, QuietStepKeepsTurns DEF Implemented

(* The question of a turn: Ask.                                            *)
LEMMA QuestionImplements ==
    ASSUME FullInv, NEW r \in Requests, SendBegin(r) \/ LaunchStream(r)
    PROVE  Implemented
  <1> DEFINE s == session[r]
  <1>0. s \in Sessions
    BY DEF FullInv, IInv, OwnTypes
  <1>1. CASE UNCHANGED storeVars
    <2>1. SendBegin(r) /\ pc' = [pc EXCEPT ![r] = "failed"]
      <3>1. ~AppendMessage(s, Question(r))
        BY <1>0, <1>1, LogOfSession DEF AppendMessage, Store, storeVars, FullInv, IInv, OwnTypes
      <3> QED BY <3>1 DEF SendBegin, LaunchStream, Goto
    <2>2. /\ UNCHANGED <<workerVars, jobVars, requestVars>> /\ worker[r] = "none"
      BY <2>1 DEF SendBegin, FullInv, IInv, WorkersMatchJobs, Unlaunched
    <2>3. OthersStand(r) /\ TurnMoves(r) /\ pc'[r] \notin Unasked
      BY <2>1, <2>2 DEF OthersStand, TurnMoves, LogOfTurn, Unasked, workerVars, jobVars,
         requestVars, FullInv, IInv, OwnTypes
    <2> QED BY <1>1, <2>3, QuietStepKeepsTurns DEF Implemented
  <1>2. CASE AppendMessage(s, Question(r)) /\ alive[s]
    <2>1. Question(r) = Abstract!Question(r) /\ Question(r).turn = r
      BY DEF Question, Abstract!Question
    <2>2. /\ pc[r] \in {"lockWait", "open"}
          /\ \/ /\ pc' = [pc EXCEPT ![r] = "agent"]
                /\ UNCHANGED <<worker, job>>
                /\ worker[r] = "none"
                /\ lock[s] = None
             \/ /\ pc' = [pc EXCEPT ![r] = "follow"]
                /\ worker' = [worker EXCEPT ![r] = "pull"]
                /\ job' = [job EXCEPT ![r] = "running"]
                /\ kind[r] = "stream"
                /\ lock[s] = r
          /\ UNCHANGED <<requestVars, outcome>>
      <3>1. CASE SendBegin(r)
        <4>1. pc' = [pc EXCEPT ![r] = "agent"]
          BY <3>1, <1>2 DEF SendBegin, Goto
        <4> QED BY <4>1, <3>1 DEF SendBegin, workerVars, jobVars,
                   FullInv, IInv, WorkersMatchJobs, Unlaunched
      <3>2. CASE LaunchStream(r)
        BY <3>2 DEF LaunchStream, Launch, Goto, FullInv, IInv, TurnsAreSerialized, InProgress
      <3> QED BY <3>1, <3>2
    <2>3. OthersStand(r) /\ pc'[r] \notin Unasked /\ lock[s] \in {None, r}
      BY <2>2 DEF OthersStand, Unasked, requestVars, FullInv, IInv, OwnTypes
    <2>4. /\ OnlyTouches(s, r) /\ Abstract!Rewrite(s, Append(history[s], Abstract!Question(r)))
          /\ history'[s] # <<>> /\ history'[s][Len(history'[s])] = Abstract!Question(r)
      BY <1>0, <1>2, <2>1, AppendTouches
    <2>5. TurnMoves(r)
      BY <2>2, <2>4 DEF TurnMoves, LogOfTurn, Asked, Abstract!EndsWith, requestVars,
         FullInv, IInv, OwnTypes
    <2>6. ~Abstract!Mentions(s, r)
      BY <1>0, <2>2 DEF FullInv, TurnInv, UnaskedTurnsAreUnmentioned, Unasked
    <2>7. Abstract!Ask(s, r)
      BY <1>2, <2>4, <2>6 DEF Abstract!Ask
    <2>8. TurnInv'
      BY <1>0, <2>3, <2>4, <2>5, OwnerStepKeepsTurns
    <2> QED BY <1>0, <2>7, <2>8 DEF Implemented, Abstract!Next
  <1> QED BY <1>1, <1>2 DEF SendBegin, LaunchStream

(* The draft of an answer: Sketch.                                         *)
LEMMA DraftImplements ==
    ASSUME FullInv, NEW r \in Requests, SendAgentDrafts(r) \/ AgentDrafts(r)
    PROVE  Implemented
  <1> DEFINE s == session[r]
  <1>0. s \in Sessions /\ alive[s] /\ AppendMessage(s, Draft(r))
    BY DEF SendAgentDrafts, AgentDrafts, FullInv, IInv, OwnTypes
  <1>1. Draft(r) = Abstract!Draft(r) /\ Draft(r).turn = r
    BY DEF Draft, Answer, Abstract!Draft, Abstract!Answer
  <1>2. /\ \/ /\ pc[r] = "agent" /\ pc' = [pc EXCEPT ![r] = "answered"]
             /\ UNCHANGED worker /\ worker[r] = "none"
          \/ /\ worker[r] = "pull" /\ worker' = [worker EXCEPT ![r] = "drafted"]
             /\ UNCHANGED pc /\ kind[r] = "stream"
             /\ pc[r] \notin Unasked \cup {"agent", "answered", "undo"}
        /\ UNCHANGED <<kind, session, target, outcome, job>>
    <2>1. CASE SendAgentDrafts(r)
      BY <2>1 DEF SendAgentDrafts, Goto, requestVars, workerVars, jobVars,
         FullInv, IInv, WorkersMatchJobs, Unlaunched
    <2>2. CASE AgentDrafts(r)
      BY <2>2 DEF AgentDrafts, WorkerOnly, requestVars, jobVars, Unasked,
         FullInv, IInv, WorkersMatchJobs, Unlaunched
    <2> QED BY <2>1, <2>2
  <1>3. OthersStand(r) /\ pc'[r] \notin Unasked /\ lock[s] = r
    BY <1>2 DEF OthersStand, Unasked, FullInv, IInv, OwnTypes, TurnsAreSerialized, InProgress
  <1>4. Abstract!EndsWith(s, Abstract!Question(r))
    BY <1>0, <1>2 DEF FullInv, TurnInv, LogsShowTheTurn, LogOfTurn, Asked
  <1>5. /\ OnlyTouches(s, r) /\ Abstract!Rewrite(s, Append(history[s], Abstract!Draft(r)))
        /\ Len(history'[s]) = Len(history[s]) + 1
        /\ history'[s][Len(history'[s])] = Abstract!Draft(r)
        /\ \A i \in 1..Len(history[s]) : history'[s][i] = history[s][i]
    BY <1>0, <1>1, AppendTouches
  <1>6. Abstract!EndsWithDraftOf(s, r)'
    <2>1. Len(history[s]) \in Nat \ {0} /\ history[s][Len(history[s])] = Abstract!Question(r)
      BY <1>0, <1>4, LogOfSession DEF Abstract!EndsWith
    <2>2. Len(history'[s]) > 1 /\ history'[s][Len(history'[s]) - 1] = Abstract!Question(r)
      BY <1>5, <2>1
    <2>3. \A q : Abstract!Question(q)' = Abstract!Question(q)
                /\ Abstract!Draft(q)' = Abstract!Draft(q)
      BY DEF Abstract!Question, Abstract!Draft, Abstract!Answer
    <2> QED BY <1>2, <1>5, <2>2, <2>3 DEF Abstract!EndsWithDraftOf
  <1>7. TurnMoves(r)
    BY <1>2, <1>6 DEF TurnMoves, LogOfTurn, Drafted, Abstract!EndsWithDraftOf,
       FullInv, IInv, OwnTypes
  <1>8. TurnInv'
    BY <1>0, <1>3, <1>5, <1>7, OwnerStepKeepsTurns
  <1>9. Abstract!Sketch(s, r)
    BY <1>0, <1>4, <1>5 DEF Abstract!Sketch
  <1> QED BY <1>0, <1>8, <1>9 DEF Implemented, Abstract!Next

(* The end of a send: SettleDraft or Withdraw.                             *)
LEMMA SendEndImplements ==
    ASSUME FullInv, NEW r \in Requests, SendFinish(r) \/ SendUndo(r)
    PROVE  Implemented
  <1> DEFINE s == session[r]
  <1>0. s \in Sessions
    BY DEF FullInv, IInv, OwnTypes
  <1>1. /\ pc[r] \in {"answered", "undo"}
        /\ \E p \in {"over", "failed"} : pc' = [pc EXCEPT ![r] = p]
        /\ UNCHANGED <<requestVars, jobVars, workerVars>>
        /\ worker[r] = "none"
        /\ lock[s] = r
    BY DEF SendFinish, SendUndo, Goto, FullInv, IInv, WorkersMatchJobs, Unlaunched,
       TurnsAreSerialized, InProgress
  <1>2. OthersStand(r) /\ pc'[r] \notin Unasked /\ TurnMoves(r)
    BY <1>1 DEF OthersStand, Unasked, TurnMoves, LogOfTurn, requestVars, workerVars, jobVars,
       FullInv, IInv, OwnTypes
  <1>3. CASE UNCHANGED storeVars
    BY <1>2, <1>3, QuietStepKeepsTurns DEF Implemented
  <1>4. CASE /\ pc[r] = "answered" /\ EndsWith(s, Draft(r))
             /\ ReplaceMessage(s, Draft(r), Answer(r, "completed"))
    <2>1. /\ Draft(r) = Abstract!Draft(r) /\ Answer(r, "completed") = Abstract!Answer(r, "completed")
          /\ Draft(r).role = "assistant" /\ Draft(r).turn = r /\ Answer(r, "completed").turn = r
      BY DEF Draft, Answer, Abstract!Draft, Abstract!Answer
    <2>2. /\ Abstract!EndsWith(s, Abstract!Draft(r)) /\ alive[s]
          /\ history[s] # <<>> /\ history[s][Len(history[s])].turn = r
      BY <1>0, <1>4, <2>1, LogOfSession DEF EndsWith, Abstract!EndsWith
    <2>3. Abstract!EndsWithDraftOf(s, r)
      BY <1>4, <2>2 DEF FullInv, TurnInv, LogsShowTheTurn, LogOfTurn, Drafted
    <2>4. /\ Abstract!Rewrite(s, [history[s] EXCEPT ![Len(history[s])]
                                    = Abstract!Answer(r, "completed")])
          /\ history' = [history EXCEPT ![s] = [history[s] EXCEPT ![Len(history[s])]
                                                   = Answer(r, "completed")]]
          /\ alive' = alive
      BY <1>0, <1>4, <2>1, <2>2, ReplaceRewritesTheEnd
    <2>5. OnlyTouches(s, r)
      BY <1>0, <2>1, <2>2, <2>4, RewriteTouches
    <2>6. TurnInv'
      BY <1>0, <1>1, <1>2, <2>5, OwnerStepKeepsTurns
    <2>7. Abstract!SettleDraft(s, r, "completed")
      BY <2>3, <2>4 DEF Abstract!SettleDraft
    <2> QED BY <1>0, <2>6, <2>7 DEF Implemented, Abstract!Next, Abstract!Settled
  <1>5. CASE pc[r] = "undo" /\ RemoveMessage(s, Question(r)) /\ ~UNCHANGED storeVars
    <2>1. Question(r) = Abstract!Question(r)
      BY DEF Question, Abstract!Question
    <2>2. alive[s]
      <3>1. history[s] # <<>>
        <4>1. \E p \in DOMAIN history[s] : TRUE
          BY <1>5 DEF RemoveMessage
        <4> QED BY <1>0, <4>1, LogOfSession
      <3> QED BY <1>0, <3>1, LogOfSession
    <2>3. Asked(r) \/ Drafted(r)
      BY <1>5, <2>2 DEF FullInv, TurnInv, LogsShowTheTurn, LogOfTurn
    <2>4. Abstract!Withdraw(s, r)
      BY <1>0, <1>5, <2>1, <2>3, RemoveWithdraws DEF Asked, Drafted
    <2>5. OnlyTouches(s, r)
      BY <1>0, <1>5, RemoveTouches
    <2>6. TurnInv'
      BY <1>0, <1>1, <1>2, <2>5, OwnerStepKeepsTurns
    <2> QED BY <1>0, <2>4, <2>6 DEF Implemented, Abstract!Next
  <1> QED BY <1>3, <1>4, <1>5 DEF SendFinish, SendUndo

(* Clearing a history is the conversation's Clear.                         *)
LEMMA ClearImplements ==
    ASSUME FullInv, NEW r \in Requests, ClearHistory(r)
    PROVE  Implemented
  <1> DEFINE s == session[r]
  <1>1. /\ s \in Sessions /\ lock[s] = None
        /\ pc[r] = "lockWait" /\ pc' = [pc EXCEPT ![r] = "over"]
        /\ UNCHANGED <<requestVars, jobVars, workerVars>> /\ worker[r] = "none"
    BY DEF ClearHistory, Goto, FullInv, IInv, OwnTypes, WorkersMatchJobs, Unlaunched
  <1>2. OthersStand(r) /\ pc'[r] \notin Unasked /\ TurnMoves(r)
    BY <1>1 DEF OthersStand, Unasked, TurnMoves, LogOfTurn, requestVars, workerVars, jobVars,
       FullInv, IInv, OwnTypes
  <1>3. CASE UNCHANGED storeVars
    BY <1>2, <1>3, QuietStepKeepsTurns DEF Implemented
  <1>4. CASE alive[s] /\ Store(s, <<>>)
    <2>1. OnlyTouches(s, r)
      BY <1>1, <1>4 DEF OnlyTouches, Store, FullInv, IInv, OwnTypes
    <2>2. TurnInv'
      BY <1>1, <1>2, <2>1, OwnerStepKeepsTurns
    <2>3. Abstract!Clear(s)
      BY <1>4 DEF Store, Abstract!Clear, Abstract!Rewrite
    <2> QED BY <1>1, <2>2, <2>3 DEF Implemented, Abstract!Next
  <1> QED BY <1>3, <1>4 DEF ClearHistory

(* Steps of a worker that only read the store, and the start of one for a  *)
(* continuation.                                                           *)
LEMMA WorkerReadsImplement ==
    ASSUME FullInv, NEW r \in Requests,
           \/ LaunchContinuation(r) \/ ReceiveStopped(r) \/ ReceiveFinal(r) \/ SourceRaises(r)
           \/ ChooseWrite(r) \/ WriteFails(r) \/ PublishFinal(r) \/ ExitWorker(r)
    PROVE  Implemented
  <1> DEFINE s == session[r]
  <1> USE DEF FullInv, IInv, OwnTypes
  <1>0. s \in Sessions /\ UNCHANGED storeVars
    BY DEF LaunchContinuation, ReceiveStopped, ReceiveFinal, SourceRaises, ChooseWrite,
           WriteFails, PublishFinal, ExitWorker
  <1>1. CASE LaunchContinuation(r)
    <2>1. /\ pc[r] = "open" /\ kind[r] = "continue"
          /\ pc' = [pc EXCEPT ![r] = "follow"] /\ worker' = [worker EXCEPT ![r] = "pull"]
          /\ job' = [job EXCEPT ![r] = "running"]
          /\ UNCHANGED <<requestVars, outcome>>
      BY <1>1 DEF LaunchContinuation, Launch, Goto
    <2>2. Resumable(r)
      BY <1>1 DEF LaunchContinuation, EndsWith, Answer, Resumable, Abstract!EndsWith,
         Abstract!Answer
    <2>3. TurnMoves(r) /\ OthersStand(r) /\ pc'[r] \notin Unasked
      BY <1>0, <2>1, <2>2 DEF TurnMoves, LogOfTurn, OthersStand, Unasked, requestVars, storeVars,
         Resumable, Abstract!EndsWith
    <2> QED BY <1>0, <2>3, QuietStepKeepsTurns DEF Implemented
  <1>2. CASE ~LaunchContinuation(r)
    <2>1. /\ UNCHANGED <<requestVars, pc>> /\ OthersStand(r)
          /\ pc[r] \notin {"agent", "answered", "undo"}
      <3>1. /\ UNCHANGED <<requestVars, pc>> /\ worker[r] # "none"
            /\ \A q \in Requests \ {r} : worker'[q] = worker[q] /\ outcome'[q] = outcome[q]
                                          /\ job'[q] = job[q]
        BY <1>2 DEF ReceiveStopped, ReceiveFinal, SourceRaises, ChooseWrite,
           WriteFails, PublishFinal, ExitWorker, WorkerOnly, Settle, Raise, jobVars
      <3> QED BY <3>1 DEF OthersStand, requestVars, WorkersMatchJobs, Unlaunched
    <2>2. alive[s] => LogOfTurn(r)
      BY DEF TurnInv, LogsShowTheTurn
    <2>3. /\ Asked(r)' = Asked(r) /\ Drafted(r)' = Drafted(r) /\ Resumable(r)' = Resumable(r)
          /\ alive'[session'[r]] = alive[s] /\ kind'[r] = kind[r] /\ pc'[r] = pc[r]
          /\ \A st : Ended(r, st)' = Ended(r, st)
      BY <1>0, <2>1 DEF Asked, Drafted, Resumable, Ended, TurnOf, Abstract!EndsWith,
         Abstract!EndsWithDraftOf, storeVars, requestVars
    <2>4. ASSUME worker[r] \in {"pull", "drafted", "persist", "replace", "append"},
                 worker'[r] \in {"persist", "giveUp"}
          PROVE  TurnMoves(r)
      BY <2>1, <2>2, <2>3, <2>4
         DEF TurnMoves, LogOfTurn, TurnInv, ContinuationsWriteNoDraft
    <2>5. TurnMoves(r)
      <3>1. CASE ReceiveStopped(r) \/ ReceiveFinal(r) \/ SourceRaises(r)
        <4>1. worker[r] \in {"pull", "drafted"} /\ worker'[r] = "persist"
          BY <3>1 DEF ReceiveStopped, ReceiveFinal, SourceRaises, Settle
        <4> QED BY <4>1, <2>4
      <3>2. CASE WriteFails(r)
        <4>1. worker[r] \in {"persist", "replace", "append"} /\ worker'[r] \in {"persist", "giveUp"}
          BY <3>2 DEF WriteFails, Raise, Settle
        <4> QED BY <4>1, <2>4
      <3>3. CASE ChooseWrite(r)
        <4>1. Draft(r) = Abstract!Draft(r) /\ Abstract!Draft(r) # Abstract!Question(r)
          BY DEF Draft, Answer, Abstract!Draft, Abstract!Answer, Abstract!Question
        <4>2. /\ worker[r] = "persist"
              /\ worker' = [worker EXCEPT ![r] = IF kind[r] = "continue" \/ EndsWith(s, Draft(r))
                                                 THEN "replace" ELSE "append"]
          BY <3>3 DEF ChooseWrite
        <4>3. (Asked(r) => ~EndsWith(s, Draft(r))) /\ (Drafted(r) => EndsWith(s, Draft(r)))
          BY <1>0, <4>1, LogOfSession DEF EndsWith, Asked, Drafted, Abstract!EndsWith,
             Abstract!EndsWithDraftOf
        <4> QED BY <2>1, <2>2, <2>3, <4>2, <4>3 DEF TurnMoves, LogOfTurn
      <3>4. CASE PublishFinal(r)
        <4>1. \/ worker[r] = "publish" /\ job'[r] = outcome[r]
              \/ worker[r] = "giveUp" /\ job'[r] = "unsaved"
          BY <3>4 DEF PublishFinal
        <4>2. worker'[r] = "closing"
          BY <3>4 DEF PublishFinal
        <4> QED BY <2>1, <2>2, <2>3, <4>1, <4>2 DEF TurnMoves, LogOfTurn, Settled
      <3>5. CASE ExitWorker(r)
        BY <2>1, <2>3, <3>5 DEF ExitWorker, TurnMoves, LogOfTurn
      <3> QED BY <1>2, <3>1, <3>2, <3>3, <3>4, <3>5
    <2> QED BY <1>0, <2>1, <2>5, QuietStepKeepsTurns DEF Implemented
  <1> QED BY <1>1, <1>2

(* The write of the answer.                                                *)
LEMMA WorkerWritesImplement ==
    ASSUME FullInv, NEW r \in Requests, WriteReplacement(r) \/ WriteAppend(r)
    PROVE  Implemented
  <1> DEFINE s == session[r]
             t == TurnOf(r)
  <1> USE DEF FullInv, IInv
  <1>0. s \in Sessions /\ outcome[r] \in Settled
    BY DEF OwnTypes
  <1>1. /\ worker[r] \in {"replace", "append"}
        /\ UNCHANGED <<requestVars, pc, job>>
        /\ pc[r] \notin Unasked \cup {"agent", "answered", "undo", "new"}
        /\ lock[s] = r
    BY DEF WriteReplacement, WriteAppend, WorkerOnly, jobVars, Unasked, WorkersMatchJobs,
       Unlaunched,
       TurnsAreSerialized, InProgress
  <1>2. /\ \A q \in Requests \ {r} : worker'[q] = worker[q] /\ outcome'[q] = outcome[q]
        /\ worker'[r] \in {"persist", "giveUp", "append", "publish"}
        /\ worker'[r] = "append" => worker[r] = "replace" /\ kind[r] # "continue"
    BY DEF WriteReplacement, WriteAppend, Raise, Settle, OwnTypes
  <1>3. OthersStand(r)
    BY <1>1, <1>2 DEF OthersStand, requestVars
  <1>4. LogOfTurn(r) \/ ~alive[s]
    BY <1>0 DEF TurnInv, LogsShowTheTurn, OwnTypes
  <1>5. /\ Draft(r) = Abstract!Draft(r)
        /\ \A x, st : Answer(x, st) = Abstract!Answer(x, st)
        /\ \A x, st : Answer(x, st).turn = x /\ Answer(x, st).role = "assistant"
        /\ Draft(r) = Answer(r, "draft")
    BY DEF Draft, Answer, Abstract!Draft, Abstract!Answer
  <1>6. /\ kind[r] = "continue" => t = target[r]
        /\ kind[r] # "continue" => t = r
        /\ t \in Requests
    BY <1>1 DEF TurnOf, TargetsAreTurns, Unasked
  <1>7. CASE WriteReplacement(r) /\ Stored(s, Replaced(r))
    <2> DEFINE m == Abstract!Answer(t, outcome[r])
    <2>1. /\ worker[r] = "replace" /\ worker'[r] = "publish" /\ outcome' = outcome
          /\ ReplaceMessage(s, Replaced(r), m)
      BY <1>5, <1>7 DEF WriteReplacement, OwnTypes
    <2>2. alive[s]
      <3>1. \E i \in DOMAIN history[s] : TRUE
        BY <1>7 DEF Stored
      <3> QED BY <1>0, <3>1, LogOfSession
    <2>3. /\ kind[r] = "continue" => Resumable(r)
          /\ kind[r] # "continue" => Drafted(r)
      BY <1>4, <2>1, <2>2 DEF LogOfTurn
    <2>4. /\ Abstract!EndsWith(s, Replaced(r))
          /\ Replaced(r).role = "assistant" /\ Replaced(r).turn = t
      <3>1. CASE kind[r] = "continue"
        BY <1>5, <1>6, <2>3, <3>1 DEF Replaced, Resumable
      <3>2. CASE kind[r] # "continue"
        BY <1>0, <1>5, <1>6, <2>3, <3>2, LogOfSession
           DEF Replaced, Drafted, Abstract!EndsWith, Abstract!EndsWithDraftOf
      <3> QED BY <3>1, <3>2
    <2>5. /\ Abstract!Rewrite(s, [history[s] EXCEPT ![Len(history[s])] = m])
          /\ history' = [history EXCEPT ![s] = [history[s] EXCEPT ![Len(history[s])] = m]]
          /\ alive' = alive
      BY <1>0, <2>1, <2>4, ReplaceRewritesTheEnd
    <2>6. /\ OnlyTouches(s, r)
          /\ history'[s] # <<>> /\ history'[s][Len(history'[s])] = m
      <3>1. m.turn = t
        BY <1>5
      <3> HIDE DEF m
      <3> QED BY <1>0, <2>4, <2>5, <3>1, RewriteTouches DEF Abstract!EndsWith
    <2>7. TurnMoves(r)
      <3>1. Ended(r, outcome[r])'
        BY <1>1, <2>1, <2>6 DEF Ended, Abstract!EndsWith, Abstract!Answer, TurnOf, requestVars
      <3> QED BY <1>1, <2>1, <3>1 DEF TurnMoves, LogOfTurn, requestVars
    <2>8. TurnInv'
      BY <1>0, <1>1, <1>3, <2>6, <2>7, OwnerStepKeepsTurns
    <2>9. Abstract!SettleDraft(s, t, outcome[r]) \/ Abstract!Resume(s, t, outcome[r])
      BY <1>6, <2>3, <2>5
         DEF Abstract!SettleDraft, Abstract!Resume, Resumable, Drafted
    <2> QED BY <1>0, <1>6, <2>8, <2>9 DEF Implemented, Abstract!Next, Settled, Abstract!Settled
  <1>8. CASE WriteReplacement(r) /\ ~Stored(s, Replaced(r))
    <2>1. UNCHANGED storeVars /\ worker[r] = "replace"
      BY <1>8 DEF WriteReplacement
    <2>2. ~alive[s]
      <3>1. ASSUME alive[s] PROVE Stored(s, Replaced(r))
        <4>1. /\ kind[r] = "continue" => Resumable(r)
              /\ kind[r] # "continue" => Drafted(r)
          BY <1>4, <2>1, <3>1 DEF LogOfTurn
        <4>2. \E i \in DOMAIN history[s] : history[s][i] = Replaced(r)
          BY <1>0, <1>5, <4>1, LogOfSession
             DEF Replaced, Resumable, Drafted, Abstract!EndsWith, Abstract!EndsWithDraftOf
        <4> QED BY <4>2 DEF Stored
      <3> QED BY <1>8, <3>1
    <2>3. TurnMoves(r)
      BY <1>1, <1>2, <2>1, <2>2, <1>8 DEF TurnMoves, storeVars, requestVars, WriteReplacement
    <2> QED BY <1>1, <1>3, <2>1, <2>3, QuietStepKeepsTurns DEF Implemented
  <1>9. CASE WriteAppend(r) /\ alive[s]
    <2> DEFINE m == Abstract!Answer(r, outcome[r])
    <2>1. /\ worker[r] = "append" /\ worker'[r] = "publish" /\ outcome' = outcome
          /\ AppendMessage(s, m)
      BY <1>5, <1>9 DEF WriteAppend, OwnTypes
    <2>2. kind[r] # "continue" /\ t = r
      BY <1>6, <2>1 DEF TurnInv, ContinuationsWriteNoDraft
    <2>3. Asked(r)
      BY <1>4, <1>9, <2>1, <2>2 DEF LogOfTurn
    <2>4. /\ OnlyTouches(s, r) /\ Abstract!Rewrite(s, Append(history[s], m))
          /\ history'[s] # <<>> /\ history'[s][Len(history'[s])] = m
      <3>1. m.turn = r
        BY <1>5
      <3> HIDE DEF m
      <3> QED BY <1>0, <2>1, <3>1, AppendTouches
    <2>5. TurnMoves(r)
      <3>1. Ended(r, outcome[r])'
        BY <1>1, <2>1, <2>2, <2>4 DEF Ended, Abstract!EndsWith, Abstract!Answer, TurnOf, requestVars
      <3> QED BY <1>1, <2>1, <3>1 DEF TurnMoves, LogOfTurn, requestVars
    <2>6. TurnInv'
      BY <1>0, <1>1, <1>3, <2>4, <2>5, OwnerStepKeepsTurns
    <2>7. Abstract!SettleQuestion(s, r, outcome[r])
      BY <1>9, <2>3, <2>4 DEF Abstract!SettleQuestion, Asked
    <2> QED BY <1>0, <2>6, <2>7 DEF Implemented, Abstract!Next, Settled, Abstract!Settled
  <1>10. CASE WriteAppend(r) /\ ~alive[s]
    <2>1. UNCHANGED storeVars
      BY <1>10 DEF WriteAppend
    <2>2. TurnMoves(r)
      BY <1>1, <1>2, <1>10, <2>1 DEF TurnMoves, storeVars, requestVars, WriteAppend
    <2> QED BY <1>1, <1>3, <2>1, <2>2, QuietStepKeepsTurns DEF Implemented
  <1> QED BY <1>7, <1>8, <1>9, <1>10

(* Cancellation, expiry, deletion, restart.                                *)
LEMMA EnvironmentImplements ==
    ASSUME FullInv,
           \/ \E s \in Sessions : CancelGeneration(s) \/ ExpireJob(s) \/ DeleteSession(s)
           \/ Restart
    PROVE  Implemented
  <1> USE DEF FullInv, IInv, OwnTypes, TurnInv
  <1>1. CASE \E s \in Sessions : CancelGeneration(s) \/ ExpireJob(s)
    <2>1. UNCHANGED <<pc, requestVars, storeVars, job, workerVars>>
      BY <1>1 DEF CancelGeneration, ExpireJob
    <2>2. TurnInv'
      BY <2>1 DEF requestVars, storeVars, workerVars, UnaskedTurnsAreUnmentioned,
         ContinuationsWriteNoDraft, LogsShowTheTurn, LogOfTurn, Asked, Drafted, Resumable, Ended,
         TurnOf, Abstract!EndsWith, Abstract!EndsWithDraftOf, Abstract!Mentions
    <2> QED BY <2>1, <2>2 DEF Implemented
  <1>2. ASSUME NEW s \in Sessions, DeleteSession(s) PROVE Implemented
    <2>1. /\ UNCHANGED <<pc, requestVars, job, workerVars>>
          /\ history'[s] = <<>> /\ ~alive'[s]
          /\ \A x \in Sessions \ {s} : history'[x] = history[x] /\ alive'[x] = alive[x]
      BY <1>2 DEF DeleteSession, jobVars
    <2>2. UnaskedTurnsAreUnmentioned' /\ ContinuationsWriteNoDraft'
      <3>1. \A x \in Sessions, q \in Requests : Abstract!Mentions(x, q)' => Abstract!Mentions(x, q)
        <4>1. DOMAIN <<>> = {}
          OBVIOUS
        <4> QED BY <2>1, <4>1 DEF Abstract!Mentions
      <3> QED BY <2>1, <3>1 DEF requestVars, workerVars, UnaskedTurnsAreUnmentioned,
                 ContinuationsWriteNoDraft
    <2>3. ASSUME NEW q \in Requests, alive'[session'[q]] PROVE LogOfTurn(q)'
      <3>1. session'[q] = session[q] /\ session[q] \in Sessions
        BY <2>1 DEF requestVars
      <3>2. session[q] # s
        BY <2>1, <2>3, <3>1
      <3>3. history'[session[q]] = history[session[q]] /\ alive[session[q]]
        BY <2>1, <2>3, <3>1, <3>2
      <3>4. LogOfTurn(q)
        BY <3>3 DEF LogsShowTheTurn
      <3>5. /\ Asked(q)' = Asked(q) /\ Drafted(q)' = Drafted(q) /\ Resumable(q)' = Resumable(q)
            /\ \A o : Ended(q, o)' = Ended(q, o)
        BY <2>1, <3>3 DEF requestVars, Asked, Drafted, Resumable, Ended, TurnOf,
           Abstract!EndsWith, Abstract!EndsWithDraftOf
      <3> QED BY <2>1, <3>4, <3>5 DEF requestVars, workerVars, LogOfTurn
    <2>4. LogsShowTheTurn'
      BY <2>3 DEF LogsShowTheTurn
    <2>5. Abstract!Delete(s)
      BY <1>2 DEF DeleteSession, Abstract!Delete
    <2> QED BY <2>2, <2>4, <2>5 DEF Implemented, Abstract!Next
  <1>3. CASE Restart
    <2>1. /\ UNCHANGED <<requestVars, storeVars>>
          /\ \A r \in Requests :
                /\ pc'[r] \in {"agent", "answered", "undo"} \cup Unasked
                      => pc'[r] = "new" /\ pc[r] = "new"
                /\ worker'[r] \in {"none", "exited"}
      BY <1>3 DEF Restart, Finished, Unasked
    <2>2. UnaskedTurnsAreUnmentioned'
      BY <2>1 DEF UnaskedTurnsAreUnmentioned, storeVars, Abstract!Mentions, Unasked
    <2>3. ContinuationsWriteNoDraft' /\ LogsShowTheTurn'
      BY <2>1 DEF ContinuationsWriteNoDraft, LogsShowTheTurn, LogOfTurn
    <2> QED BY <2>1, <2>2, <2>3 DEF Implemented
  <1> QED BY <1>1, <1>2, <1>3

(* Every step is a step of the conversation or a stutter.                  *)
LEMMA StepImplements == FullInv /\ [Next]_vars => Implemented
  <1> SUFFICES ASSUME FullInv, [Next]_vars PROVE Implemented
    OBVIOUS
  <1>1. CASE UNCHANGED vars
    BY <1>1 DEF vars, storeVars, Implemented, FullInv, TurnInv, UnaskedTurnsAreUnmentioned,
         ContinuationsWriteNoDraft, LogsShowTheTurn, LogOfTurn, Asked, Drafted, Resumable, Ended,
         TurnOf, Abstract!EndsWith, Abstract!EndsWithDraftOf, Abstract!Mentions
  <1>2. ASSUME NEW r \in Requests, Handler(r) PROVE Implemented
    BY <1>2, ArrivalImplements, HandlersImplement, QuestionImplements, DraftImplements,
       SendEndImplements, ClearImplements, WorkerReadsImplement DEF Handler
  <1>3. ASSUME NEW r \in Requests, Worker(r) PROVE Implemented
    BY <1>3, DraftImplements, WorkerReadsImplement, WorkerWritesImplement DEF Worker
  <1> QED BY <1>1, <1>2, <1>3, EnvironmentImplements DEF Next

(* The whole invariant is kept, the abstract part of it by the abstract    *)
(* step.                                                                   *)
LEMMA FullInvIsKept == FullInv /\ [Next]_vars => FullInv'
  BY NextKeepsLogs, StepImplements, StepPreserves
     DEF FullInv, Implemented, storeVars, Abstract!conversationVars

(* The initial states satisfy the whole invariant.                         *)
LEMMA InitEstablishesFullInv == Init => FullInv
  <1> SUFFICES ASSUME Init PROVE FullInv
    OBVIOUS
  <1>1. TurnInv
    BY DEF Init, TurnInv, UnaskedTurnsAreUnmentioned, ContinuationsWriteNoDraft, LogsShowTheTurn,
           LogOfTurn, Abstract!Mentions
  <1>2. LogsInv
    <2>1. Abstract!Init
      BY DEF Init, Abstract!Init
    <2> QED BY <2>1, InitEstablishesLogsInv
  <1> QED BY <1>1, <1>2, InitEstablishes DEF FullInv

(* The history of every session behaves as the abstract Conversation: each *)
(* handler and worker step, with every interleaving, deletion and restart, *)
(* is one abstract step on one session or leaves the histories alone.      *)
THEOREM HistoriesAreConversations == Spec => ImplementsConversation
  <1>1. Init => Abstract!Init
    BY DEF Init, Abstract!Init
  <1>2. FullInv /\ [Next]_vars => [Abstract!Next]_(Abstract!conversationVars)
    BY StepImplements DEF Implemented, storeVars, Abstract!conversationVars
  <1> QED BY <1>1, <1>2, InitEstablishesFullInv, FullInvIsKept, PTL
          DEF Spec, ImplementsConversation, Abstract!Spec

(* What the final event of a job says is what the history says: the answer *)
(* is stored with the status the event carries.                            *)
THEOREM FinalEventsMatch == Spec => []FinalEventMatchesHistory
  <1>1. FullInv => FinalEventMatchesHistory
    <2> SUFFICES ASSUME FullInv, NEW r \in Requests, worker[r] = "closing", job[r] \in Settled,
                        alive[session[r]]
                 PROVE  Stored(session[r], Answer(TurnOf(r), job[r]))
      BY DEF FinalEventMatchesHistory
    <2>1. Ended(r, job[r]) /\ session[r] \in Sessions
      BY DEF FullInv, TurnInv, LogsShowTheTurn, LogOfTurn, IInv, OwnTypes
    <2> QED BY <2>1, LogOfSession DEF Ended, Abstract!EndsWith, Abstract!Answer, Answer, Stored
  <1> QED BY <1>1, InitEstablishesFullInv, FullInvIsKept, PTL DEF Spec

(* So every history keeps what is proved of a Conversation: the messages   *)
(* of a turn stand together, settled answers stand below their question,   *)
(* nothing is written to a deleted session and a finished answer is not    *)
(* edited.                                                                 *)
THEOREM HistoriesStaySound ==
    Spec => /\ [](/\ Abstract!TurnsStandTogether
                  /\ Abstract!AnswersFollowTheirQuestion
                  /\ Abstract!DeletedSessionsStayEmpty)
            /\ Abstract!FinishedAnswersAreFinal
  BY HistoriesAreConversations, MessagesStandTogether, AnswersHaveQuestions,
     DeletedSessionsGetNothing, FinishedAnswersStay, PTL DEF ImplementsConversation

=============================================================================
