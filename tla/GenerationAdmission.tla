------------------------ MODULE GenerationAdmission ------------------------
(***************************************************************************)
(* The process-wide admission gate of api/chat_application.py:             *)
(* _GenerationAdmission and the leases it hands out.  Two integer counters *)
(* are the whole state of the gate; what each request believes about its   *)
(* own place (it waits, it holds an unreleased lease) is kept beside them, *)
(* because the counters are only right as long as the two agree.           *)
(*                                                                         *)
(* The counters change only under the gate's mutex, and acquire has no     *)
(* await between taking and leaving the mutex, so each critical section is *)
(* one action.  Time is abstracted to "the deadline of r has passed".      *)
(***************************************************************************)
EXTENDS Integers, FiniteSets

CONSTANTS Requests,      \* the requests that ask for a generation slot
          ActiveLimit,   \* MODEL_GENERATION_CONCURRENCY_LIMIT
          QueueLimit     \* MODEL_GENERATION_QUEUE_LIMIT

ASSUME LimitsAssumption == /\ ActiveLimit \in Nat \ {0}
                           /\ QueueLimit \in Nat

ASSUME RequestsAssumption == IsFiniteSet(Requests)

VARIABLES active,   \* _active
          queued,   \* _queued
          place,    \* where each request stands with the gate
          late      \* the waiting requests whose deadline has passed

admissionVars == <<active, queued, place, late>>

Places == {"new", "waiting", "leased", "released", "refused", "cancelled"}

Waiting == {r \in Requests : place[r] = "waiting"}
LeaseHolders == {r \in Requests : place[r] = "leased"}

InitGate ==
    /\ active = 0
    /\ queued = 0
    /\ place = [r \in Requests |-> "new"]
    /\ late = {}

-----------------------------------------------------------------------------

MoveTo(r, p) == place' = [place EXCEPT ![r] = p]

(* The fast path: a free slot is taken at once, whoever else is waiting.   *)
AdmitNow(r) ==
    /\ place[r] = "new"
    /\ active < ActiveLimit
    /\ active' = active + 1
    /\ MoveTo(r, "leased")
    /\ UNCHANGED <<queued, late>>

(* HTTP 429 at the door: no slot and no room to wait.                      *)
RefuseFull(r) ==
    /\ place[r] = "new"
    /\ active >= ActiveLimit
    /\ queued >= QueueLimit
    /\ MoveTo(r, "refused")
    /\ UNCHANGED <<active, queued, late>>

Join(r) ==
    /\ place[r] = "new"
    /\ active >= ActiveLimit
    /\ queued < QueueLimit
    /\ queued' = queued + 1
    /\ MoveTo(r, "waiting")
    /\ UNCHANGED <<active, late>>

DeadlinePasses(r) ==
    /\ place[r] = "waiting"
    /\ r \notin late
    /\ late' = late \cup {r}
    /\ UNCHANGED <<active, queued, place>>

(* Mutant of Claim: the claimed slot is counted, the queue place is not    *)
(* given back.                                                             *)
ClaimKeepsPlace(r) ==
    /\ place[r] = "waiting"
    /\ active < ActiveLimit
    /\ active' = active + 1
    /\ MoveTo(r, "leased")
    /\ late' = late \ {r}
    /\ UNCHANGED queued

(* A poll that finds a slot claims it, even after the deadline.            *)
Claim(r) ==
    /\ place[r] = "waiting"
    /\ active < ActiveLimit
    /\ active' = active + 1
    /\ queued' = queued - 1
    /\ MoveTo(r, "leased")
    /\ late' = late \ {r}

(* The finally block of acquire: it gives the place in the queue back.     *)
LeaveQueue(r, p) ==
    /\ place[r] = "waiting"
    /\ queued' = IF queued > 0 THEN queued - 1 ELSE queued
    /\ MoveTo(r, p)
    /\ late' = late \ {r}
    /\ UNCHANGED active

(* Mutant of TimeOut: an expired request keeps polling.                    *)
TimeOutNever(r) == r \in late /\ active >= ActiveLimit /\ UNCHANGED admissionVars

(* A poll that finds no slot after the deadline: HTTP 429.                 *)
TimeOut(r) ==
    /\ r \in late
    /\ active >= ActiveLimit
    /\ LeaveQueue(r, "refused")

(* The task is cancelled while it sleeps between two polls.                *)
Cancel(r) == LeaveQueue(r, "cancelled")

(* lease.release(): a second call finds _released set and does nothing,    *)
(* which is a stuttering step here.                                        *)
Release(r) ==
    /\ place[r] = "leased"
    /\ active' = IF active > 0 THEN active - 1 ELSE 0
    /\ MoveTo(r, "released")
    /\ UNCHANGED <<queued, late>>

(* The process restarts: the gate is a module-level object, so it is built *)
(* afresh and every request of the old process is gone.                    *)
RestartGate ==
    /\ active' = 0
    /\ queued' = 0
    /\ place' = [r \in Requests |-> IF place[r] \in {"waiting", "leased"}
                                     THEN "cancelled" ELSE place[r]]
    /\ late' = {}

Poll(r) == Claim(r) \/ TimeOut(r)

GateNext ==
    \/ \E r \in Requests :
          \/ AdmitNow(r) \/ RefuseFull(r) \/ Join(r)
          \/ DeadlinePasses(r) \/ Poll(r) \/ Cancel(r)
          \/ Release(r)
    \/ RestartGate

GateSpec == InitGate /\ [][GateNext]_admissionVars

(* The event loop keeps resuming a sleeping poller and clocks advance;     *)
(* nothing obliges a request to arrive or a holder to give its slot back.  *)
GateFairness ==
    \A r \in Requests : WF_admissionVars(DeadlinePasses(r)) /\ WF_admissionVars(Poll(r))

FairGateSpec == GateSpec /\ GateFairness

-----------------------------------------------------------------------------

GateTypeOK ==
    /\ active \in Nat
    /\ queued \in Nat
    /\ place \in [Requests -> Places]
    /\ late \subseteq Requests

(* The counters are exactly the number of unreleased leases and of waiting *)
(* requests: neither drifts however claims, expiries, cancellations and    *)
(* releases interleave, so the max(0, ...) and the "if > 0" of the code    *)
(* never have to hide an accounting error.                                 *)
Accounting == /\ active = Cardinality(LeaseHolders)
              /\ queued = Cardinality(Waiting)

(* The two bounds the class docstring promises, over the real holders and  *)
(* waiters instead of over the counters.                                   *)
Bounded == /\ Cardinality(LeaseHolders) <= ActiveLimit
           /\ Cardinality(Waiting) <= QueueLimit

(* A request turned away (429) is turned away while every slot is held by  *)
(* some other request: a slot freed before the last poll is never wasted   *)
(* on a refusal.                                                           *)
RefusedOnlyWhenFull ==
    [][\A r \in Requests :
          (place[r] # "refused" /\ place'[r] = "refused")
              => Cardinality(LeaseHolders) >= ActiveLimit]_admissionVars

(* The gate's promise as one property: in every state the counters are the *)
(* real holders and waiters and both limits hold, and no step refuses a    *)
(* request while a slot is free.                                           *)
GateIsExact == [](GateTypeOK /\ Accounting /\ Bounded) /\ RefusedOnlyWhenFull

(* Nobody waits for ever: even if the holders never give a slot back the   *)
(* deadline turns the wait into an answer.                                 *)
EveryWaitEnds == \A r \in Requests : (place[r] = "waiting") ~> (place[r] # "waiting")

=============================================================================
