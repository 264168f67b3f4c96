-------------------------- MODULE EmbeddingCircuit --------------------------
(***************************************************************************)
(* shared/embeddings.py: the one way to the embedding service.  Callers    *)
(* share a cache of vectors and a circuit breaker.  A managed request is   *)
(* tried twice and counts for the breaker; one that only observes is tried *)
(* once, keeps away while the breaker is open, and changes nothing of it.  *)
(* The lock is held for each look and each change, never for a request.    *)
(***************************************************************************)
EXTENDS Naturals, Sequences, FiniteSets, SequencesExt

CONSTANTS Callers,
          Threshold,     \* _CIRCUIT_FAILURE_THRESHOLD
          MaxAttempts,   \* _MANAGED_MAX_ATTEMPTS
          OpenFor,       \* how long the breaker stays open
          VectorsKept,   \* how many vectors are cached
          MaxClock

VARIABLES circuit,       \* [failures, until]: _CIRCUIT
          vectors,       \* _QUERY_CACHE: the keys, the least recent first
          clock,
          calls,         \* of each caller
          ended          \* how the last managed requests ended

cvars == <<circuit, vectors, clock, calls, ended>>

Quiet == [at |-> "idle", managed |-> FALSE, key |-> <<>>, attempt |-> 0]

InitCircuit ==
    /\ circuit = [failures |-> 0, until |-> 0]
    /\ vectors = <<>> /\ clock = 1
    /\ calls = [c \in Callers |-> Quiet]
    /\ ended = <<>>

Open == circuit.until > clock

(* What goes to the end of a cache that keeps so many.                     *)
Kept(cache, entry, size) ==
    LET all == Append(RemoveFirst(cache, entry), entry)
    IN  SubSeq(all, IF Len(all) > size THEN 2 ELSE 1, Len(all))

(* Ghost: whether the last managed requests succeeded.                     *)
Ended(managed, ok) ==
    LET all == Append(ended, ok)
    IN  IF managed THEN SubSeq(all, IF Len(all) > Threshold THEN 2 ELSE 1, Len(all)) ELSE ended

MoveTo(c, at) == calls' = [calls EXCEPT ![c].at = at]

(* A cached vector is returned whatever the breaker says.                  *)
Ask(c, managed, key) ==
    /\ calls[c].at = "idle"
    /\ LET hit == Contains(vectors, key)
       IN  /\ calls' = [calls EXCEPT ![c] = [at |-> IF hit THEN "vector" ELSE "missed",
                                             managed |-> managed, key |-> key, attempt |-> 1]]
           /\ vectors' = IF hit THEN Kept(vectors, key, VectorsKept) ELSE vectors
    /\ UNCHANGED <<circuit, clock, ended>>

PassCircuit(c) ==
    /\ calls[c].at = "missed"
    /\ MoveTo(c, IF Open THEN "none" ELSE "calling")
    /\ UNCHANGED <<circuit, vectors, clock, ended>>

Answer(c) ==
    /\ calls[c].at = "calling"
    /\ MoveTo(c, "answered")
    /\ UNCHANGED <<circuit, vectors, clock, ended>>

(* _is_retryable_embedding_error: a timeout, a lost connection, an         *)
(* overloaded server.                                                      *)
Retry(c) ==
    /\ calls[c].at = "calling" /\ calls[c].managed /\ calls[c].attempt < MaxAttempts
    /\ calls' = [calls EXCEPT ![c].attempt = @ + 1]
    /\ UNCHANGED <<circuit, vectors, clock, ended>>

Fail(c) ==
    /\ calls[c].at = "calling"
    /\ MoveTo(c, "failed")
    /\ UNCHANGED <<circuit, vectors, clock, ended>>

(* Mutant of RecordFailure: every request counts.                          *)
RecordAnyFailure(c) ==
    /\ calls[c].at = "failed"
    /\ LET failures == circuit.failures + 1
       IN  circuit' = [failures |-> IF failures > Threshold THEN Threshold ELSE failures,
                       until |-> IF failures >= Threshold THEN clock + OpenFor ELSE circuit.until]
    /\ ended' = Ended(calls[c].managed, FALSE)
    /\ MoveTo(c, "none")
    /\ UNCHANGED <<vectors, clock>>

(* _record_failure.  The count is kept when the breaker opens, so that the *)
(* first failure after it has closed again opens it anew (here it stops at *)
(* the threshold).                                                         *)
RecordFailure(c) ==
    /\ calls[c].at = "failed"
    /\ IF calls[c].managed
       THEN LET failures == circuit.failures + 1
            IN  circuit' = [failures |-> IF failures > Threshold THEN Threshold ELSE failures,
                            until |-> IF failures >= Threshold THEN clock + OpenFor ELSE circuit.until]
       ELSE UNCHANGED circuit
    /\ ended' = Ended(calls[c].managed, FALSE)
    /\ MoveTo(c, "none")
    /\ UNCHANGED <<vectors, clock>>

(* _record_success.                                                        *)
RecordSuccess(c) ==
    /\ calls[c].at = "answered"
    /\ circuit' = IF calls[c].managed THEN [failures |-> 0, until |-> 0] ELSE circuit
    /\ ended' = Ended(calls[c].managed, TRUE)
    /\ MoveTo(c, "keep")
    /\ UNCHANGED <<vectors, clock>>

Keep(c) ==
    /\ calls[c].at = "keep"
    /\ vectors' = Kept(vectors, calls[c].key, VectorsKept)
    /\ MoveTo(c, "vector")
    /\ UNCHANGED <<circuit, clock, ended>>

Tick ==
    /\ clock < MaxClock
    /\ clock' = clock + 1
    /\ UNCHANGED <<circuit, vectors, calls, ended>>

Step(c) ==
    \/ PassCircuit(c) \/ Answer(c) \/ Retry(c) \/ Fail(c)
    \/ RecordFailure(c) \/ RecordSuccess(c) \/ Keep(c)

-----------------------------------------------------------------------------

(* The breaker is open only while the service is really out: the last      *)
(* Threshold managed requests that ended, in whatever order their callers  *)
(* ran and whatever the observers met, all failed.                         *)
BreakerIsEarned ==
    Open => ended = [n \in 1 .. Threshold |-> FALSE]

=============================================================================
