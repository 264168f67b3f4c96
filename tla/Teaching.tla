------------------------------ MODULE Teaching ------------------------------
(***************************************************************************)
(* The parts of a turn that keep to themselves: the agent's turn, the      *)
(* context, the model's history, web reading, concept mapping over its     *)
(* breaker, code execution, weak spots and the preparation of practice.    *)
(* They share no state, so one of them is chosen at the start and runs     *)
(* alone.  PracticeLoop is extended, the others are instantiated.          *)
(***************************************************************************)
EXTENDS PracticeLoop

CONSTANTS
    TurnQuestions, MaxPieces, MaxRetries,
    Pages, Length, BlankAt, Depth,
    Summarizers, Histories, MaxRecent, SummarizeAfter, Budget, PreserveRecent,
    SummarySizes, Short, MaxCoolDowns,
    Answers, Domain, Skipped, PageRank, Leads, MaxRedirects, Wanted, MaxAttempts, MaxWorkers,
    Callers, Threshold, EmbedAttempts, OpenFor, VectorsKept, MaxClock, Courses, Concepts,
    Aliases, Questions, TopK, MinRules, AnswersKept, Masked,
    Programs, MaxConcurrent, MaxChars, Marker, Outputs,
    Chats, Topics, MaxTime

(* What the proofs assume of the constants: the cue of the boundary rule   *)
(* is the scope guard's to give; what a search answers are addresses, of   *)
(* which none is None; finitely many requests and programs at a time, and  *)
(* limits that are numbers.                                                *)
ASSUME TurnAssumption == \A q \in TurnQuestions : "boundary" \notin q.cues

ASSUME GuardAssumption == IsFiniteSet(Summarizers) /\ None \notin Summarizers

ASSUME WebAssumption ==
    /\ Answers \subseteq Seq(DOMAIN Domain) /\ None \notin DOMAIN Domain
    /\ PageRank \in [DOMAIN Domain -> Int]
    /\ Wanted \in Nat /\ MaxAttempts \in Nat /\ MaxWorkers \in Nat \ {0}

ASSUME MapAssumption ==
    /\ Threshold \in Nat \ {0} /\ OpenFor \in Nat
    /\ VectorsKept \in Nat /\ AnswersKept \in Nat

ASSUME CodeAssumption ==
    /\ IsFiniteSet(Programs) /\ MaxConcurrent \in Nat
    /\ MaxChars \in Nat \ {0} /\ Marker \in Nat
    /\ Outputs \subseteq Nat \X Nat

VARIABLES
    which,  \* the part that runs
    agentPc, agentTurn, agentCall, agentEvents, agentMemory,
    contextCovered, contextFragments, contextRemoved, contextSkipped, contextStopped,
    contextRanked,
    modelRequest, modelThread, modelStrays, modelGuard, modelCoolDowns,
    webTurn, webReads,
    conceptsCircuit, conceptsVectors, conceptsClock, conceptsCalls, conceptsEnded,
    conceptsSettings, conceptsRequests, conceptsAnswers, conceptsUnlucky,
    codePolicy, codeDaemon, codeCalls, codeSlots,
    spotsLog, spotsTurns, spotsManual, spotsClock

-----------------------------------------------------------------------------
(* A turn of the agent: routing, the handler, the model and its retries.   *)
Agent == INSTANCE AgentTurn WITH
    Questions <- TurnQuestions, pc <- agentPc, turn <- agentTurn, call <- agentCall,
    events <- agentEvents, memory <- agentMemory

agentVars == <<agentPc, agentTurn, agentCall, agentEvents, agentMemory>>

agentOff == agentPc = None /\ agentTurn = None /\ agentCall = None /\
            agentEvents = None /\ agentMemory = None

-----------------------------------------------------------------------------
(* Retrieved passages become one context.                                  *)
Context == INSTANCE ContextAssembly WITH
    covered <- contextCovered, fragments <- contextFragments,
    removed <- contextRemoved, skipped <- contextSkipped, stopped <- contextStopped,
    ranked <- contextRanked

contextVars ==
    <<contextCovered, contextFragments, contextRemoved, contextSkipped,
      contextStopped, contextRanked>>

contextOff == contextCovered = None /\ contextFragments = None /\
              contextRemoved = None /\ contextSkipped = None /\
              contextStopped = None /\ contextRanked = None

-----------------------------------------------------------------------------
(* The history that fits a model call; the summary guard.                  *)
Model == INSTANCE ModelContext WITH
    Requests <- Summarizers, Sessions <- Histories, request <- modelRequest,
    thread <- modelThread, strays <- modelStrays, guard <- modelGuard,
    coolDowns <- modelCoolDowns

modelVars == <<modelRequest, modelThread, modelStrays, modelGuard, modelCoolDowns>>

modelOff == modelRequest = None /\ modelThread = None /\ modelStrays = None /\
            modelGuard = None /\ modelCoolDowns = None

-----------------------------------------------------------------------------
(* Search, reading and citing of web pages.                                *)
Web == INSTANCE WebResearch WITH
    Rank <- PageRank, turn <- webTurn, reads <- webReads

webVars == <<webTurn, webReads>>

webOff == webTurn = None /\ webReads = None

-----------------------------------------------------------------------------
(* Questions to concepts, over the embedding service and its breaker.      *)
Mapping == INSTANCE ConceptMapping WITH
    MaxAttempts <- EmbedAttempts, circuit <- conceptsCircuit,
    vectors <- conceptsVectors, clock <- conceptsClock, calls <- conceptsCalls,
    ended <- conceptsEnded, settings <- conceptsSettings,
    requests <- conceptsRequests, answers <- conceptsAnswers,
    unlucky <- conceptsUnlucky

conceptsVars ==
    <<conceptsCircuit, conceptsVectors, conceptsClock, conceptsCalls, conceptsEnded,
      conceptsSettings, conceptsRequests, conceptsAnswers, conceptsUnlucky>>

conceptsOff == conceptsCircuit = None /\ conceptsVectors = None /\
               conceptsClock = None /\ conceptsCalls = None /\ conceptsEnded = None /\
               conceptsSettings = None /\ conceptsRequests = None /\
               conceptsAnswers = None /\ conceptsUnlucky = None

-----------------------------------------------------------------------------
(* Programs run in a container or on the host.                             *)
Code == INSTANCE CodeExecution WITH
    Calls <- Programs, policy <- codePolicy, daemon <- codeDaemon, calls <- codeCalls,
    slots <- codeSlots

codeVars == <<codePolicy, codeDaemon, codeCalls, codeSlots>>

codeOff == codePolicy = None /\ codeDaemon = None /\ codeCalls = None /\
           codeSlots = None

-----------------------------------------------------------------------------
(* Weak spots that conversations open and close.                           *)
Spots == INSTANCE WeakSpots WITH
    Sessions <- Chats, Concepts <- Topics, log <- spotsLog, turns <- spotsTurns,
    manual <- spotsManual, clock <- spotsClock

spotsVars == <<spotsLog, spotsTurns, spotsManual, spotsClock>>

spotsOff == spotsLog = None /\ spotsTurns = None /\ spotsManual = None /\
            spotsClock = None

-----------------------------------------------------------------------------
(* Practice: its tables are empty until it runs.                           *)
practiceOff == Init

-----------------------------------------------------------------------------
(* Only the chosen part starts; the variables of the others stay as they   *)
(* are off.                                                                *)
TeachingInit ==
    \/ which = "agent" /\ Agent!Init /\ contextOff /\ modelOff /\ webOff /\
       conceptsOff /\ codeOff /\ spotsOff /\ practiceOff
    \/ which = "context" /\ Context!Init /\ agentOff /\ modelOff /\ webOff /\
       conceptsOff /\ codeOff /\ spotsOff /\ practiceOff
    \/ which = "model" /\ Model!Init /\ agentOff /\ contextOff /\ webOff /\
       conceptsOff /\ codeOff /\ spotsOff /\ practiceOff
    \/ which = "web" /\ Web!Init /\ agentOff /\ contextOff /\ modelOff /\
       conceptsOff /\ codeOff /\ spotsOff /\ practiceOff
    \/ which = "concepts" /\ Mapping!Init /\ agentOff /\ contextOff /\ modelOff /\
       webOff /\ codeOff /\ spotsOff /\ practiceOff
    \/ which = "code" /\ Code!Init /\ agentOff /\ contextOff /\ modelOff /\ webOff /\
       conceptsOff /\ spotsOff /\ practiceOff
    \/ which = "spots" /\ Spots!Init /\ agentOff /\ contextOff /\ modelOff /\ webOff /\
       conceptsOff /\ codeOff /\ practiceOff
    \/ which = "practice" /\ Init /\ agentOff /\ contextOff /\ modelOff /\ webOff /\
       conceptsOff /\ codeOff /\ spotsOff

AgentStep ==
    /\ which = "agent" /\ Agent!Next
    /\ UNCHANGED <<which, contextVars, modelVars, webVars, conceptsVars, codeVars,
                   spotsVars, vars>>

ContextStep ==
    /\ which = "context" /\ Context!Next
    /\ UNCHANGED <<which, agentVars, modelVars, webVars, conceptsVars, codeVars,
                   spotsVars, vars>>

ModelStep ==
    /\ which = "model" /\ Model!Next
    /\ UNCHANGED <<which, agentVars, contextVars, webVars, conceptsVars, codeVars,
                   spotsVars, vars>>

WebStep ==
    /\ which = "web" /\ Web!Next
    /\ UNCHANGED <<which, agentVars, contextVars, modelVars, conceptsVars, codeVars,
                   spotsVars, vars>>

MappingStep ==
    /\ which = "concepts" /\ Mapping!Next
    /\ UNCHANGED <<which, agentVars, contextVars, modelVars, webVars, codeVars,
                   spotsVars, vars>>

CodeStep ==
    /\ which = "code" /\ Code!Next
    /\ UNCHANGED <<which, agentVars, contextVars, modelVars, webVars, conceptsVars,
                   spotsVars, vars>>

SpotsStep ==
    /\ which = "spots" /\ Spots!Next
    /\ UNCHANGED <<which, agentVars, contextVars, modelVars, webVars, conceptsVars,
                   codeVars, vars>>

PracticeStep ==
    /\ which = "practice" /\ Next
    /\ UNCHANGED <<which, agentVars, contextVars, modelVars, webVars, conceptsVars,
                   codeVars, spotsVars>>

TeachingNext ==
    \/ AgentStep \/ ContextStep \/ ModelStep \/ WebStep \/ MappingStep
    \/ CodeStep \/ SpotsStep \/ PracticeStep

teachingVars ==
    <<which, agentVars, contextVars, modelVars, webVars, conceptsVars, codeVars,
      spotsVars, vars>>

TeachingSpec == TeachingInit /\ [][TeachingNext]_teachingVars

-----------------------------------------------------------------------------
(* AgentService streams, recovers and persists in different places: what   *)
(* the student saw is what the memory keeps, the words come from one model *)
(* call although calls are retried and replaced, the final event takes     *)
(* back nothing that was shown, even after an error, a stand-in teaches    *)
(* nothing, and what the scope guard turns away reaches no model and no    *)
(* search.                                                                 *)
TurnsTeachWhatTheyShow == which = "agent" => Agent!TurnsTeachWhatTheyShow

(* ContextAssembler merges overlapping chunks with a cursor per page: the  *)
(* context holds every character of the passages once, and the count of    *)
(* what was removed is exact.  What a model call is sent keeps the         *)
(* session's latest messages without a gap after at most one summary.      *)
ContextIsExact ==
    /\ which = "context" => Context!ContextIsExact
    /\ which = "model" => Model!CallsAreWhole

(* The semantic summary runs in a daemon thread that is given up after a   *)
(* timeout: however requests and threads end, the single-flight guard is   *)
(* opened again, and calls left behind are bounded by the cool-downs.      *)
GuardNeverSticks == which = "model" => Model!GuardNeverSticks

(* Pages are read by several workers in any order and through redirects: a *)
(* citation [n] names search result n, which was read, once, and no page   *)
(* that failed is shown as read.                                           *)
CitationsNameWhatWasRead == which = "web" => Web!CitationsNameWhatWasRead

(* The embedding breaker is shared by all callers: it opens on failures in *)
(* a row only, and a concept answer names what the question names, similar *)
(* concepts only where the rules leave room.                               *)
ConceptsAreFaithful == which = "concepts" => Mapping!MappingIsFaithful

(* Sandboxed code is run within the limit, a second time only on the host  *)
(* and only where docker itself failed, and neither a refused nor a        *)
(* timed-out call leaves more than the code accounts for.                  *)
ExecutionIsContained == which = "code" => Code!ExecutionIsContained

(* A weak spot is open exactly while two clarifications came after the     *)
(* last mastery signal, although facts are stored late and out of order,   *)
(* and one the student was told to have closed is closed.                  *)
WeakSpotsAreEarned == which = "spots" => Spots!WeakSpotsAreEarned
=============================================================================
