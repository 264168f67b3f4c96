------------------------ MODULE AssessmentGeneration ------------------------
(***************************************************************************)
(* assessment/service.py with its generator, verifier, critic and bank of  *)
(* reviewed items: a quiz of an exact number of questions, slot by slot.   *)
(* A slot is accepted or pending; what is accepted carries the certificate *)
(* of its review.  A failed attempt leaves its progress for a retry.       *)
(* A question is what item_identity sees of it.                            *)
(***************************************************************************)
EXTENDS Integers, Sequences, SequencesExt, FiniteSets, FiniteSetsExt, Functions

CONSTANTS Slots,      \* 1 .. request.count
          Questions,  \* identities a model may write
          Members,    \* what a composite target requires to be covered
          MaxRepairs, MaxRounds,   \* MAX_REPAIR_ROUNDS and the 4 of all retries
          None

VARIABLES pc,
          strict,    \* strict_quality
          accepted, certificates, pending,   \* by slot
          exposure,  \* identities this student must not meet again
          batch,     \* the review of the questions as one composition
          round,     \* repair_round, kept across retries
          tries      \* reviews and repairs of this attempt

vars == <<pc, strict, accepted, certificates, pending, exposure, batch, round, tries>>

Nothing == <<>>
Drop(f, S) == Restrict(f, DOMAIN f \ S)
Onto(f, g) == [s \in DOMAIN f \cup DOMAIN g |-> IF s \in DOMAIN f THEN f[s] ELSE g[s]]
SlotOrder(S) == SetToSortSeq(S, LAMBDA i, j : i < j)

Rejection(question, reviewer, kind) ==
    [question |-> question, reviewer |-> reviewer, kind |-> kind]
Retryable(rejection) == rejection.kind # "permanent"

NoTries == [review |-> 0, repair |-> 0]
NoBatch == [required |-> FALSE, certificate |-> None, failure |-> None]

Init ==
    /\ pc = "idle"
    /\ strict \in BOOLEAN
    /\ accepted = Nothing /\ certificates = Nothing /\ pending = Nothing
    /\ exposure = {}
    /\ batch = NoBatch
    /\ round = 0
    /\ tries = NoTries

-----------------------------------------------------------------------------
(* Checks.                                                                 *)

(* The deterministic checks, in slot order: a question already met, one    *)
(* whose stem is taken, or one that fails another of them.  Of those that  *)
(* pass the others, the first with a stem takes it.                        *)
Sound(written, taken, bad) ==
    LET passing == {s \in DOMAIN written \ bad : written[s] \notin exposure \cup taken}
    IN  {s \in passing : \A r \in passing : r < s => written[r] # written[s]}

(* The verifier and the critic judge the questions; both must answer.  An  *)
(* outage leaves every question as it is; a permanent one outranks.        *)
Outage(asked, kind) ==
    [accepted |-> Nothing, certificates |-> Nothing, down |-> kind,
     rejected |-> [s \in DOMAIN asked |-> Rejection(asked[s], TRUE, kind)]]

Judgment(asked, passed, proof) ==
    [accepted |-> Restrict(asked, passed),
     certificates |-> [s \in passed |-> [question |-> asked[s], supports |-> proof[s]]],
     down |-> None,
     rejected |-> [s \in DOMAIN asked \ passed |-> Rejection(asked[s], FALSE, "slot")]]

Verdicts(asked) ==
    {Outage(asked, kind) : kind \in {"reviewer", "transient", "permanent"}}
    \cup
    UNION {{Judgment(asked, passed, proof) : proof \in [passed -> SUBSET Members]} :
           passed \in SUBSET DOMAIN asked}

Covered(reviews) == UNION {reviews[s].supports : s \in DOMAIN reviews}

(* _coverage_rejections: the slot whose loss leaves least uncovered, the   *)
(* last of those.                                                          *)
CoverageGap(questions, reviews) ==
    LET Missing(s) == Cardinality(Members \ Covered(Drop(reviews, {s})))
    IN  {s \in DOMAIN questions :
            /\ DOMAIN questions = DOMAIN reviews /\ Covered(reviews) # Members
            /\ \A r \in DOMAIN questions :
                 Missing(s) < Missing(r) \/ (Missing(s) = Missing(r) /\ s >= r)}

Composition(questions) == [n \in 1 .. Cardinality(DOMAIN questions) |->
                              questions[SlotOrder(DOMAIN questions)[n]]]
BatchIsOpen == batch.required /\ batch.certificate = None

-----------------------------------------------------------------------------
(* The start of an attempt.                                                *)

Ends == pc' = "ended" /\ UNCHANGED <<strict, accepted, certificates, pending, batch, round, tries>>

(* Retrieval is down or gives no usable passage: nothing is kept.          *)
NoStart ==
    /\ pc = "idle"
    /\ \E now \in SUBSET Questions : exposure' = now
    /\ Ends

(* Reviewed questions of the bank fill slots; those of several earlier     *)
(* quizzes have not been reviewed as one.                                  *)
Reuse ==
    /\ pc = "idle"
    /\ \E now \in SUBSET Questions, filled \in (SUBSET Slots) \ {{}}, several \in BOOLEAN :
       \E chosen \in [filled -> Questions \ now], proof \in [filled -> SUBSET Members] :
          LET reviews == [s \in filled |-> [question |-> chosen[s], supports |-> proof[s]]]
              gap == IF strict /\ filled = Slots THEN CoverageGap(chosen, reviews) ELSE {}
          IN  /\ IsInjective(chosen)
              /\ filled # gap
              /\ exposure' = now
              /\ accepted' = Drop(chosen, gap)
              /\ certificates' = Drop(reviews, gap)
              /\ pending' = [s \in Slots \ (filled \ gap) |->
                    IF s \in gap THEN Rejection(chosen[s], FALSE, "slot")
                    ELSE Rejection(None, FALSE, "slot")]
              /\ batch' = [NoBatch EXCEPT !.required = several /\ strict]
    /\ pc' = "sift"
    /\ UNCHANGED <<strict, round, tries>>

(* Without the quality gates every slot must pass the deterministic checks *)
(* at once; with them what does not pass is pending.                       *)
Draft ==
    /\ pc = "idle"
    /\ \E now \in SUBSET Questions : exposure' = now
    /\ pc' = "drafting"
    /\ batch' \in {[NoBatch EXCEPT !.required = several /\ strict] : several \in BOOLEAN}
    /\ UNCHANGED <<strict, accepted, certificates, pending, round, tries>>

Drafted ==
    /\ pc = "drafting"
    /\ \E n \in (IF strict THEN 1 .. Cardinality(Slots) ELSE {Cardinality(Slots)}),
          bad \in SUBSET Slots :
       \E written \in [1 .. n -> Questions] :
          LET sound == Sound(written, {}, bad)
              faulty == [s \in Slots \ sound |->
                           Rejection(IF s <= n THEN written[s] ELSE None, FALSE, "slot")]
          IN  \/ /\ strict
                 /\ \E verdict \in Verdicts(Restrict(written, sound)) :
                       /\ accepted' = verdict.accepted
                       /\ certificates' = verdict.certificates
                       /\ pending' = Onto(verdict.rejected, faulty)
                 /\ pc' = "sift"
              \/ /\ ~strict /\ sound = Slots
                 /\ accepted' = written
                 /\ pc' = "sift"
                 /\ UNCHANGED <<certificates, pending>>
              \/ /\ ~strict /\ sound # Slots
                 /\ pc' = "ended"
                 /\ UNCHANGED <<accepted, certificates, pending>>
    /\ UNCHANGED <<strict, exposure, batch, round, tries>>

(* No parseable draft leaves every slot to the editor, or ends the attempt *)
(* without the gates; a provider that fails leaves them to the next one.   *)
DraftFails ==
    /\ pc = "drafting"
    /\ LET Left(kind) == pending' = [s \in Slots |-> Rejection(None, FALSE, kind)]
       IN  \/ strict /\ Left("slot") /\ pc' = "sift"
           \/ ~strict /\ pc' = "ended" /\ UNCHANGED pending
           \/ \E kind \in {"slot", "transient", "permanent"} : Left(kind) /\ pc' = "failed"
    /\ UNCHANGED <<strict, accepted, certificates, exposure, batch, round, tries>>

(* AssessmentGenerationProgress.retryable                                  *)
CanRetry ==
    /\ round < MaxRounds
    /\ \/ pending # Nothing /\ \A s \in DOMAIN pending : Retryable(pending[s])
       \/ pending = Nothing /\ BatchIsOpen /\ batch.failure # "permanent"

Retry ==
    /\ pc = "failed" /\ CanRetry
    /\ \E now \in SUBSET Questions : exposure' = exposure \cup now
    /\ \/ pc' = "sift" \/ pc' = "ended"     \* the course resources have changed
    /\ tries' = NoTries
    /\ batch' = IF strict THEN batch ELSE NoBatch
    /\ UNCHANGED <<strict, accepted, certificates, pending, round>>

-----------------------------------------------------------------------------
(* The loop.                                                               *)

(* Mutant of Sift: what is set aside keeps its certificate.                *)
SiftKeepingCertificates ==
    /\ pc = "sift"
    /\ LET met == {s \in DOMAIN accepted : accepted[s] \in exposure}
           left == Drop(accepted, met)
       IN  /\ pending' = Onto([s \in met |-> Rejection(accepted[s], FALSE, "slot")], pending)
           /\ accepted' = left
    /\ pc' = "decide"
    /\ UNCHANGED <<strict, certificates, exposure, batch, round, tries>>

(* Questions the student has met since, and one question if the accepted   *)
(* ones leave the target uncovered, are pending again; a review of another *)
(* composition is void.                                                    *)
Sift ==
    /\ pc = "sift"
    /\ LET met == {s \in DOMAIN accepted : accepted[s] \in exposure}
           waiting == Onto([s \in met |-> Rejection(accepted[s], FALSE, "slot")], pending)
           left == Drop(accepted, met)
           gap == IF strict /\ waiting = Nothing /\ DOMAIN left = Slots
                  THEN CoverageGap(left, Drop(certificates, met)) ELSE {}
       IN  /\ pending' = Onto([s \in gap |-> Rejection(accepted[s], FALSE, "slot")], waiting)
           /\ accepted' = Drop(left, gap)
           /\ certificates' = Drop(certificates, met \cup gap)
           /\ batch' = IF batch.required /\ batch.certificate # Composition(accepted')
                       THEN [NoBatch EXCEPT !.required = TRUE] ELSE batch
    /\ pc' = "decide"
    /\ UNCHANGED <<strict, exposure, round, tries>>

(* The composition is reviewed; this is no try and no round.               *)
ReviewBatch ==
    /\ pc = "decide" /\ pending = Nothing /\ BatchIsOpen
    /\ round < MaxRounds \/ tries # NoTries
    /\ \E verdict \in Verdicts(accepted) :
          IF verdict.down # None
          THEN /\ round' = Min({MaxRounds, round + 1})
               /\ batch' = [batch EXCEPT !.failure = verdict.down]
               /\ pc' = "finish"
               /\ UNCHANGED <<accepted, certificates, pending>>
          ELSE /\ accepted' = verdict.accepted
               /\ pending' = verdict.rejected
               /\ certificates' = verdict.certificates
               /\ batch' = [NoBatch EXCEPT !.required = TRUE, !.certificate =
                               IF verdict.rejected = Nothing THEN Composition(accepted) ELSE None]
               /\ UNCHANGED <<pc, round>>
    /\ UNCHANGED <<strict, exposure, tries>>

(* Nothing is pending: what the student has met is read once more.         *)
Refresh ==
    /\ pc = "decide" /\ pending = Nothing /\ ~BatchIsOpen
    /\ \E now \in SUBSET Questions :
          /\ exposure' = exposure \cup now
          /\ pc' = IF Range(accepted) \cap (exposure \cup now) # {} THEN "sift" ELSE "finish"
    /\ UNCHANGED <<strict, accepted, certificates, pending, batch, round, tries>>

Unreviewed == {s \in DOMAIN pending : /\ pending[s].reviewer
                                      /\ Retryable(pending[s])}

(* Questions that only await a reviewer go back to the gates, unchanged.   *)
ReviewAgain ==
    /\ pc = "decide" /\ Unreviewed # {}
    /\ tries.review < MaxRepairs /\ round < MaxRounds
    /\ tries' = [tries EXCEPT !.review = @ + 1]
    /\ round' = round + 1
    /\ \E verdict \in Verdicts([s \in Unreviewed |-> pending[s].question]) :
          /\ accepted' = Onto(verdict.accepted, accepted)
          /\ certificates' = Onto(verdict.certificates, certificates)
          /\ pending' = Onto(verdict.rejected, Drop(pending, Unreviewed))
          /\ pc' = IF verdict.down # None THEN "finish" ELSE "sift"
    /\ UNCHANGED <<strict, exposure, batch>>

Repairable == {s \in DOMAIN pending : Retryable(pending[s])}

(* _repair_slots: one call of the editor for all the slots, which may fail,*)
(* leave a slot out or name it twice; then the checks and the gates.       *)
EditorFails(kind) ==
    [accepted |-> Nothing, certificates |-> Nothing,
     rejected |-> [s \in Repairable |-> [pending[s] EXCEPT !.kind = kind]]]

Reviewed(written, sound) ==
    LET faulty == [s \in Repairable \ sound |->
                     IF s \in DOMAIN written THEN Rejection(written[s], FALSE, "slot")
                     ELSE [pending[s] EXCEPT !.kind = "slot"]]
    IN  {[accepted |-> verdict.accepted, certificates |-> verdict.certificates,
          rejected |-> Onto(verdict.rejected, faulty)] :
            verdict \in Verdicts(Restrict(written, sound))}

Repairs ==
    {EditorFails(kind) : kind \in {"slot", "transient", "permanent"}}
    \cup
    UNION {Reviewed(written, Sound(written, Range(accepted), bad)) :
           written \in UNION {[given -> Questions] : given \in SUBSET Repairable},
           bad \in SUBSET Repairable}

Repair ==
    /\ pc = "decide" /\ \A s \in DOMAIN pending : ~pending[s].reviewer
    /\ Repairable # {} /\ tries.repair < MaxRepairs /\ round < MaxRounds
    /\ tries' = [tries EXCEPT !.repair = @ + 1]
    /\ round' = round + 1
    /\ \E repair \in Repairs :
          /\ accepted' = Onto(repair.accepted, accepted)
          /\ certificates' = Onto(repair.certificates, certificates)
          /\ pending' = Onto(repair.rejected, Drop(pending, Repairable))
          /\ pc' = IF /\ repair.rejected # Nothing
                      /\ \A s \in DOMAIN repair.rejected : repair.rejected[s].kind = "transient"
                   THEN "finish" ELSE "sift"
    /\ UNCHANGED <<strict, exposure, batch>>

(* Budgets are spent, or a reviewer is down for good.                      *)
GiveUp ==
    /\ pc = "decide"
    /\ IF pending = Nothing
       THEN BatchIsOpen /\ round = MaxRounds /\ tries = NoTries
       ELSE IF Unreviewed # {}
       THEN tries.review = MaxRepairs \/ round = MaxRounds
       ELSE \/ \E s \in DOMAIN pending : pending[s].reviewer
            \/ Repairable = {} \/ tries.repair = MaxRepairs \/ round = MaxRounds
    /\ pc' = "finish"
    /\ UNCHANGED <<strict, accepted, certificates, pending, exposure, batch, round, tries>>

-----------------------------------------------------------------------------
(* Mutant of Complete: the review of the composition is not asked for.     *)
CompleteSlots == pending = Nothing /\ DOMAIN accepted = Slots

Complete ==
    /\ pending = Nothing /\ DOMAIN accepted = Slots
    /\ batch.required => batch.certificate = Composition(accepted)

(* An incomplete quiz fails with its progress; a complete one is held back *)
(* if it repeats itself, lacks certificates or coverage, or if the course  *)
(* resources have changed.                                                 *)
Finish ==
    /\ pc = "finish"
    /\ IF ~Complete THEN pc' = "failed"
       ELSE IF \/ ~IsInjective(accepted)
               \/ strict /\ (DOMAIN certificates # Slots \/ Covered(certificates) # Members)
       THEN pc' = "ended"
       ELSE pc' \in {"generated", "ended"}
    /\ UNCHANGED <<strict, accepted, certificates, pending, exposure, batch, round, tries>>

(* _assign reads the student's history a last time before it publishes; it *)
(* calls for a review of the composition if a question must go.            *)
Publish ==
    /\ pc = "generated"
    /\ \E now \in SUBSET Questions :
          LET met == {s \in Slots : accepted[s] \in now}
          IN  /\ exposure' = exposure \cup now
              /\ IF met = {}
                 THEN pc' = "published" /\ UNCHANGED <<accepted, certificates, pending, batch>>
                 ELSE /\ pc' = "failed"
                      /\ accepted' = Drop(accepted, met)
                      /\ certificates' = IF strict THEN Drop(certificates, met) ELSE Nothing
                      /\ pending' = [s \in met |-> Rejection(accepted[s], FALSE, "slot")]
                      /\ batch' = [NoBatch EXCEPT !.required = TRUE]
    /\ UNCHANGED <<strict, round, tries>>

Over == pc \in {"published", "ended"} \/ (pc = "failed" /\ ~CanRetry)

Next ==
    \/ NoStart \/ Reuse \/ Draft \/ Drafted \/ DraftFails \/ Retry
    \/ Sift \/ ReviewBatch \/ Refresh \/ ReviewAgain \/ Repair \/ GiveUp
    \/ Finish \/ Publish
    \/ Over /\ UNCHANGED vars

Spec == Init /\ [][Next]_vars

-----------------------------------------------------------------------------

(* Whatever failed, was retried or was replaced in between: every slot is  *)
(* accepted or pending and never both, a certificate is about the question *)
(* its slot holds, and what is published holds no question twice or that   *)
(* the student has met, and under strict quality was certified slot by     *)
(* slot, and as a composition where that was called for.                   *)
PublishedQuizIsReviewed ==
    /\ pc \notin {"idle", "drafting", "ended"} =>
          /\ DOMAIN accepted \cup DOMAIN pending = Slots
          /\ DOMAIN accepted \cap DOMAIN pending = {}
    /\ \A s \in DOMAIN certificates :
          s \in DOMAIN accepted /\ certificates[s].question = accepted[s]
    /\ pc = "published" =>
          /\ IsInjective(accepted) /\ Range(accepted) \cap exposure = {}
          /\ strict => DOMAIN certificates = Slots
          /\ batch.required => batch.certificate = Composition(accepted)

=============================================================================
