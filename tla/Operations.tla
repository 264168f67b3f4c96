----------------------------- MODULE Operations -----------------------------
(***************************************************************************)
(* What runs beside the turns: the shared skills, quotas, titles,          *)
(* assessments, imports, backups, migrations and the building of courses.  *)
(* They share no state, so one of them is chosen at the start and runs     *)
(* alone; a constant is that of the part, or parts, that have a parameter  *)
(* of its name.                                                            *)
(***************************************************************************)
EXTENDS Naturals, FiniteSets

CONSTANTS
    None,
    Threads, NEntries, SkillManifests, MaxEdits,
    Callers, Students, Limit, GlobalLimit, Window, MaxWait, MaxClock,
    Messages, Topic, Default, Manual, Named, Raw, MaxSends, MaxTasks,
    Requests, CompleteAnswers,
    Items, Harder, MaxTests, BatchSizes,
    Documents, Sentences, Members, MaxDocuments, MaxSentences, MaxSources, MaxChars,
    Slots, Questions, QuizMembers, MaxRepairs, MaxRounds,
    Sessions, MaxMessages, MaxChanges,
    NPaths, MaxWrites, MaxBackups, Absent,
    Versions, Payloads, MaxFaults,
    Parses, Builders, Publishers, MaxBuilds, Torn,
    Contents, Unreadable, Empty, MaxRuns,
    Toc, LastPage, ChapterTexts, ChunkSize, MaxSize, Overlap, LeastTail,
    Promoters, Bundles, Manifests, Collections, BundleTexts, ExpectedBundle,
    ExpectedManifest, BatchSize

VARIABLES
    which,  \* the part that runs
    skillsDisk, skillsCatalog, skillsTurns, skillsOvertaken,
    quotaClock, quotaWindows, quotaCallers, quotaGranted,
    titlesRow, titlesMessages, titlesTasks, titlesPending, titlesSends,
    submissionRow, submissionRequests, submissionEvidence,
    readyTests,
    evidenceTaken, evidenceWindow, evidenceSeen, evidenceRemaining, evidenceSpans,
    evidenceEvidence,
    quizPc, quizStrict, quizAccepted, quizCertificates, quizPending, quizExposure,
    quizBatch, quizRound, quizTries,
    backfillFiles, backfillDeleted, backfillPlan, backfillRows, backfillTombs,
    backfillChanges,
    backupHistory, backupArchives, backupCommand, backupMade, backupTarget,
    schemaSchema, schemaRows, schemaCallers, schemaEdited, schemaFaults,
    releaseCandidate, releaseOutput, releaseBinding, releaseBuilder, releasePromoter,
    releaseBuilds,
    importSource, importJob, importArtifact, importRunner, importRuns, importEdits,
    chunkingPage, chunkingText, chunkingPrevious, chunkingSpans, chunkingOpen,
    chunkingChunks,
    promotionFiles, promotionOutput, promotionPromoter, promotionEdits

(* None is told from what is compared with it, and an incomplete attempt   *)
(* from a complete one.                                                    *)
ASSUME SubmissionAssumption ==
    /\ None \notin CompleteAnswers \cup {"incomplete"} \cup Requests
    /\ "incomplete" \notin CompleteAnswers

(* A source has contents.                                                  *)
ASSUME ImportAssumption == None \notin Contents

(* Migrations are numbered.                                                *)
ASSUME MigrationAssumption == Versions \in SUBSET Nat

ASSUME BackupAssumption == NPaths \in Nat

(* A file on disk is told from a missing one.                              *)
ASSUME SkillsAssumption ==
    /\ NEntries \in Nat /\ MaxEdits \in Nat
    /\ \A text \in SkillManifests, stamp \in 1 .. MaxEdits :
          [text |-> text, stamp |-> stamp] # None

(* The limits on the evidence of a quiz and the lengths of sentences are   *)
(* numbers.                                                                *)
ASSUME EvidenceAssumption ==
    /\ MaxSources \in Nat /\ MaxChars \in Nat
    /\ \A s \in Sentences : s.size \in Nat

(* Limits, windows and waits are numbers, and no student is named as all   *)
(* of them together are.                                                   *)
ASSUME QuotaAssumption ==
    /\ Limit \in Nat /\ GlobalLimit \in Nat /\ Window \in Nat /\ MaxWait \in Nat
    /\ "all" \notin Students

(* A parse yields finitely many chunks.                                    *)
ASSUME ReleaseAssumption == \A parse \in Parses : IsFiniteSet(parse)

-----------------------------------------------------------------------------
(* The catalogue of teaching skills, shared without a lock.                *)
Skills == INSTANCE SkillCatalog WITH
    Manifests <- SkillManifests, disk <- skillsDisk, catalog <- skillsCatalog,
    turns <- skillsTurns, overtaken <- skillsOvertaken

skillsVars == <<skillsDisk, skillsCatalog, skillsTurns, skillsOvertaken>>

skillsOff == skillsDisk = None /\ skillsCatalog = None /\ skillsTurns = None /\
             skillsOvertaken = None

-----------------------------------------------------------------------------
(* Requests per student and in all within a window.                        *)
Quota == INSTANCE RequestQuota WITH
    clock <- quotaClock, windows <- quotaWindows, callers <- quotaCallers,
    granted <- quotaGranted

quotaVars == <<quotaClock, quotaWindows, quotaCallers, quotaGranted>>

quotaOff == quotaClock = None /\ quotaWindows = None /\ quotaCallers = None /\
            quotaGranted = None

-----------------------------------------------------------------------------
(* The title of a session, by rule, by model and by hand.                  *)
Titles == INSTANCE SessionTitles WITH
    row <- titlesRow, messages <- titlesMessages, tasks <- titlesTasks,
    pending <- titlesPending, sends <- titlesSends

titlesVars ==
    <<titlesRow, titlesMessages, titlesTasks, titlesPending, titlesSends>>

titlesOff == titlesRow = None /\ titlesMessages = None /\ titlesTasks = None /\
             titlesPending = None /\ titlesSends = None

-----------------------------------------------------------------------------
(* Requests that submit one quiz.                                          *)
Submission == INSTANCE AssessmentSubmission WITH
    Complete <- CompleteAnswers, row <- submissionRow,
    requests <- submissionRequests, evidence <- submissionEvidence

submissionVars == <<submissionRow, submissionRequests, submissionEvidence>>

submissionOff == submissionRow = None /\ submissionRequests = None /\
                 submissionEvidence = None

-----------------------------------------------------------------------------
(* When practice has earned the next level.                                *)
Ready == INSTANCE PracticeReadiness WITH
    tests <- readyTests

readyVars == <<readyTests>>

readyOff == readyTests = None

-----------------------------------------------------------------------------
(* Which sentences a quiz rests on.                                        *)
Evidence == INSTANCE EvidenceSelection WITH
    taken <- evidenceTaken, window <- evidenceWindow, seen <- evidenceSeen,
    remaining <- evidenceRemaining, spans <- evidenceSpans,
    evidence <- evidenceEvidence

evidenceVars ==
    <<evidenceTaken, evidenceWindow, evidenceSeen, evidenceRemaining, evidenceSpans,
      evidenceEvidence>>

evidenceOff == evidenceTaken = None /\ evidenceWindow = None /\
               evidenceSeen = None /\ evidenceRemaining = None /\
               evidenceSpans = None /\ evidenceEvidence = None

-----------------------------------------------------------------------------
(* The generation of a reviewed quiz.                                      *)
Quiz == INSTANCE AssessmentGeneration WITH
    Members <- QuizMembers, pc <- quizPc, strict <- quizStrict,
    accepted <- quizAccepted, certificates <- quizCertificates,
    pending <- quizPending, exposure <- quizExposure, batch <- quizBatch,
    round <- quizRound, tries <- quizTries

(* Slots are numbered, and None is told from the questions of a quiz in    *)
(* their order.                                                            *)
ASSUME QuizAssumption ==
    /\ Cardinality(Slots) \in Nat /\ Slots = 1 .. Cardinality(Slots)
    /\ \A filled \in SUBSET Slots : \A f \in [filled -> Questions] : Quiz!Composition(f) # None

quizVars ==
    <<quizPc, quizStrict, quizAccepted, quizCertificates, quizPending, quizExposure,
      quizBatch, quizRound, quizTries>>

quizOff == quizPc = None /\ quizStrict = None /\ quizAccepted = None /\
           quizCertificates = None /\ quizPending = None /\ quizExposure = None /\
           quizBatch = None /\ quizRound = None /\ quizTries = None

-----------------------------------------------------------------------------
(* The import of the old session files.                                    *)
Backfill == INSTANCE SessionBackfill WITH
    files <- backfillFiles, deleted <- backfillDeleted, plan <- backfillPlan,
    rows <- backfillRows, tombs <- backfillTombs, changes <- backfillChanges

backfillVars ==
    <<backfillFiles, backfillDeleted, backfillPlan, backfillRows, backfillTombs,
      backfillChanges>>

backfillOff == backfillFiles = None /\ backfillDeleted = None /\
               backfillPlan = None /\ backfillRows = None /\ backfillTombs = None /\
               backfillChanges = None

-----------------------------------------------------------------------------
(* Backup, rotation and restore of the runtime files.                      *)
Backup == INSTANCE RuntimeBackup WITH
    history <- backupHistory, archives <- backupArchives, command <- backupCommand,
    made <- backupMade, target <- backupTarget

backupVars ==
    <<backupHistory, backupArchives, backupCommand, backupMade, backupTarget>>

backupOff == backupHistory = None /\ backupArchives = None /\ backupCommand = None /\
             backupMade = None /\ backupTarget = None

-----------------------------------------------------------------------------
(* The migration of the database by processes that start together.         *)
Schema == INSTANCE SchemaMigration WITH
    schema <- schemaSchema, rows <- schemaRows, callers <- schemaCallers,
    edited <- schemaEdited, faults <- schemaFaults

schemaVars ==
    <<schemaSchema, schemaRows, schemaCallers, schemaEdited, schemaFaults>>

schemaOff == schemaSchema = None /\ schemaRows = None /\ schemaCallers = None /\
             schemaEdited = None /\ schemaFaults = None

-----------------------------------------------------------------------------
(* Building and promoting a course's knowledge base.                       *)
Release == INSTANCE CourseRelease WITH
    Promoters <- Publishers, candidate <- releaseCandidate, output <- releaseOutput,
    binding <- releaseBinding, builder <- releaseBuilder,
    promoter <- releasePromoter, builds <- releaseBuilds

releaseVars ==
    <<releaseCandidate, releaseOutput, releaseBinding, releaseBuilder,
      releasePromoter, releaseBuilds>>

releaseOff == releaseCandidate = None /\ releaseOutput = None /\
              releaseBinding = None /\ releaseBuilder = None /\
              releasePromoter = None /\ releaseBuilds = None

-----------------------------------------------------------------------------
(* The import of a course's source file.                                   *)
Import == INSTANCE CourseImport WITH
    source <- importSource, job <- importJob, artifact <- importArtifact,
    runner <- importRunner, runs <- importRuns, edits <- importEdits

importVars ==
    <<importSource, importJob, importArtifact, importRunner, importRuns, importEdits>>

importOff == importSource = None /\ importJob = None /\ importArtifact = None /\
             importRunner = None /\ importRuns = None /\ importEdits = None

-----------------------------------------------------------------------------
(* Pages become chunks under the headings of the book.                     *)
Chunks == INSTANCE Chunking WITH
    Texts <- ChapterTexts, page <- chunkingPage, text <- chunkingText,
    previous <- chunkingPrevious, spans <- chunkingSpans, open <- chunkingOpen,
    chunks <- chunkingChunks

chunkingVars ==
    <<chunkingPage, chunkingText, chunkingPrevious, chunkingSpans, chunkingOpen,
      chunkingChunks>>

chunkingOff == chunkingPage = None /\ chunkingText = None /\
               chunkingPrevious = None /\ chunkingSpans = None /\
               chunkingOpen = None /\ chunkingChunks = None

-----------------------------------------------------------------------------
(* The promotion of the frozen retrieval index.                            *)
Promotion == INSTANCE IndexPromotion WITH
    PageTexts <- BundleTexts, files <- promotionFiles, output <- promotionOutput,
    promoter <- promotionPromoter, edits <- promotionEdits

promotionVars ==
    <<promotionFiles, promotionOutput, promotionPromoter, promotionEdits>>

promotionOff == promotionFiles = None /\ promotionOutput = None /\
                promotionPromoter = None /\ promotionEdits = None

-----------------------------------------------------------------------------
(* Only the chosen part starts; the variables of the others stay at None.  *)
Init ==
    \/ which = "skills" /\ Skills!Init /\ quotaOff /\ titlesOff /\ submissionOff /\
       readyOff /\ evidenceOff /\ quizOff /\ backfillOff /\ backupOff /\ schemaOff /\
       releaseOff /\ importOff /\ chunkingOff /\ promotionOff
    \/ which = "quota" /\ Quota!Init /\ skillsOff /\ titlesOff /\ submissionOff /\
       readyOff /\ evidenceOff /\ quizOff /\ backfillOff /\ backupOff /\ schemaOff /\
       releaseOff /\ importOff /\ chunkingOff /\ promotionOff
    \/ which = "titles" /\ Titles!Init /\ skillsOff /\ quotaOff /\ submissionOff /\
       readyOff /\ evidenceOff /\ quizOff /\ backfillOff /\ backupOff /\ schemaOff /\
       releaseOff /\ importOff /\ chunkingOff /\ promotionOff
    \/ which = "submission" /\ Submission!Init /\ skillsOff /\ quotaOff /\
       titlesOff /\ readyOff /\ evidenceOff /\ quizOff /\ backfillOff /\ backupOff /\
       schemaOff /\ releaseOff /\ importOff /\ chunkingOff /\ promotionOff
    \/ which = "ready" /\ Ready!Init /\ skillsOff /\ quotaOff /\ titlesOff /\
       submissionOff /\ evidenceOff /\ quizOff /\ backfillOff /\ backupOff /\
       schemaOff /\ releaseOff /\ importOff /\ chunkingOff /\ promotionOff
    \/ which = "evidence" /\ Evidence!Init /\ skillsOff /\ quotaOff /\ titlesOff /\
       submissionOff /\ readyOff /\ quizOff /\ backfillOff /\ backupOff /\
       schemaOff /\ releaseOff /\ importOff /\ chunkingOff /\ promotionOff
    \/ which = "quiz" /\ Quiz!Init /\ skillsOff /\ quotaOff /\ titlesOff /\
       submissionOff /\ readyOff /\ evidenceOff /\ backfillOff /\ backupOff /\
       schemaOff /\ releaseOff /\ importOff /\ chunkingOff /\ promotionOff
    \/ which = "backfill" /\ Backfill!Init /\ skillsOff /\ quotaOff /\ titlesOff /\
       submissionOff /\ readyOff /\ evidenceOff /\ quizOff /\ backupOff /\
       schemaOff /\ releaseOff /\ importOff /\ chunkingOff /\ promotionOff
    \/ which = "backup" /\ Backup!Init /\ skillsOff /\ quotaOff /\ titlesOff /\
       submissionOff /\ readyOff /\ evidenceOff /\ quizOff /\ backfillOff /\
       schemaOff /\ releaseOff /\ importOff /\ chunkingOff /\ promotionOff
    \/ which = "schema" /\ Schema!Init /\ skillsOff /\ quotaOff /\ titlesOff /\
       submissionOff /\ readyOff /\ evidenceOff /\ quizOff /\ backfillOff /\
       backupOff /\ releaseOff /\ importOff /\ chunkingOff /\ promotionOff
    \/ which = "release" /\ Release!Init /\ skillsOff /\ quotaOff /\ titlesOff /\
       submissionOff /\ readyOff /\ evidenceOff /\ quizOff /\ backfillOff /\
       backupOff /\ schemaOff /\ importOff /\ chunkingOff /\ promotionOff
    \/ which = "import" /\ Import!Init /\ skillsOff /\ quotaOff /\ titlesOff /\
       submissionOff /\ readyOff /\ evidenceOff /\ quizOff /\ backfillOff /\
       backupOff /\ schemaOff /\ releaseOff /\ chunkingOff /\ promotionOff
    \/ which = "chunking" /\ Chunks!Init /\ skillsOff /\ quotaOff /\ titlesOff /\
       submissionOff /\ readyOff /\ evidenceOff /\ quizOff /\ backfillOff /\
       backupOff /\ schemaOff /\ releaseOff /\ importOff /\ promotionOff
    \/ which = "promotion" /\ Promotion!Init /\ skillsOff /\ quotaOff /\ titlesOff /\
       submissionOff /\ readyOff /\ evidenceOff /\ quizOff /\ backfillOff /\
       backupOff /\ schemaOff /\ releaseOff /\ importOff /\ chunkingOff

SkillsStep ==
    /\ which = "skills" /\ Skills!Next
    /\ UNCHANGED <<which, quotaVars, titlesVars, submissionVars, readyVars,
                   evidenceVars, quizVars, backfillVars, backupVars, schemaVars,
                   releaseVars, importVars, chunkingVars, promotionVars>>

QuotaStep ==
    /\ which = "quota" /\ Quota!Next
    /\ UNCHANGED <<which, skillsVars, titlesVars, submissionVars, readyVars,
                   evidenceVars, quizVars, backfillVars, backupVars, schemaVars,
                   releaseVars, importVars, chunkingVars, promotionVars>>

TitlesStep ==
    /\ which = "titles" /\ Titles!Next
    /\ UNCHANGED <<which, skillsVars, quotaVars, submissionVars, readyVars,
                   evidenceVars, quizVars, backfillVars, backupVars, schemaVars,
                   releaseVars, importVars, chunkingVars, promotionVars>>

SubmissionStep ==
    /\ which = "submission" /\ Submission!Next
    /\ UNCHANGED <<which, skillsVars, quotaVars, titlesVars, readyVars, evidenceVars,
                   quizVars, backfillVars, backupVars, schemaVars, releaseVars,
                   importVars, chunkingVars, promotionVars>>

ReadyStep ==
    /\ which = "ready" /\ Ready!Next
    /\ UNCHANGED <<which, skillsVars, quotaVars, titlesVars, submissionVars,
                   evidenceVars, quizVars, backfillVars, backupVars, schemaVars,
                   releaseVars, importVars, chunkingVars, promotionVars>>

EvidenceStep ==
    /\ which = "evidence" /\ Evidence!Next
    /\ UNCHANGED <<which, skillsVars, quotaVars, titlesVars, submissionVars,
                   readyVars, quizVars, backfillVars, backupVars, schemaVars,
                   releaseVars, importVars, chunkingVars, promotionVars>>

QuizStep ==
    /\ which = "quiz" /\ Quiz!Next
    /\ UNCHANGED <<which, skillsVars, quotaVars, titlesVars, submissionVars,
                   readyVars, evidenceVars, backfillVars, backupVars, schemaVars,
                   releaseVars, importVars, chunkingVars, promotionVars>>

BackfillStep ==
    /\ which = "backfill" /\ Backfill!Next
    /\ UNCHANGED <<which, skillsVars, quotaVars, titlesVars, submissionVars,
                   readyVars, evidenceVars, quizVars, backupVars, schemaVars,
                   releaseVars, importVars, chunkingVars, promotionVars>>

BackupStep ==
    /\ which = "backup" /\ Backup!Next
    /\ UNCHANGED <<which, skillsVars, quotaVars, titlesVars, submissionVars,
                   readyVars, evidenceVars, quizVars, backfillVars, schemaVars,
                   releaseVars, importVars, chunkingVars, promotionVars>>

SchemaStep ==
    /\ which = "schema" /\ Schema!Next
    /\ UNCHANGED <<which, skillsVars, quotaVars, titlesVars, submissionVars,
                   readyVars, evidenceVars, quizVars, backfillVars, backupVars,
                   releaseVars, importVars, chunkingVars, promotionVars>>

ReleaseStep ==
    /\ which = "release" /\ Release!Next
    /\ UNCHANGED <<which, skillsVars, quotaVars, titlesVars, submissionVars,
                   readyVars, evidenceVars, quizVars, backfillVars, backupVars,
                   schemaVars, importVars, chunkingVars, promotionVars>>

ImportStep ==
    /\ which = "import" /\ Import!Next
    /\ UNCHANGED <<which, skillsVars, quotaVars, titlesVars, submissionVars,
                   readyVars, evidenceVars, quizVars, backfillVars, backupVars,
                   schemaVars, releaseVars, chunkingVars, promotionVars>>

ChunksStep ==
    /\ which = "chunking" /\ Chunks!Next
    /\ UNCHANGED <<which, skillsVars, quotaVars, titlesVars, submissionVars,
                   readyVars, evidenceVars, quizVars, backfillVars, backupVars,
                   schemaVars, releaseVars, importVars, promotionVars>>

PromotionStep ==
    /\ which = "promotion" /\ Promotion!Next
    /\ UNCHANGED <<which, skillsVars, quotaVars, titlesVars, submissionVars,
                   readyVars, evidenceVars, quizVars, backfillVars, backupVars,
                   schemaVars, releaseVars, importVars, chunkingVars>>

Next ==
    \/ SkillsStep \/ QuotaStep \/ TitlesStep \/ SubmissionStep \/ ReadyStep
    \/ EvidenceStep \/ QuizStep \/ BackfillStep \/ BackupStep \/ SchemaStep
    \/ ReleaseStep \/ ImportStep \/ ChunksStep \/ PromotionStep

vars ==
    <<which, skillsVars, quotaVars, titlesVars, submissionVars, readyVars,
      evidenceVars, quizVars, backfillVars, backupVars, schemaVars, releaseVars,
      importVars, chunkingVars, promotionVars>>

Spec == Init /\ [][Next]_vars

-----------------------------------------------------------------------------
(* The skill registry has no lock and caches on file metadata: a turn      *)
(* still picks the skills that the manifests of some moment of its asking  *)
(* make candidates.                                                        *)
PicksFollowTheManifests == which = "skills" => Skills!PicksFollowTheManifests

(* Callers read the clock before they take the lock of the quota: no       *)
(* window grants more than its limits, less that wait, and nobody is       *)
(* refused below them.                                                     *)
QuotaIsExact == which = "quota" => Quota!QuotaIsExact

(* Requests that open, submit and repeat one assessment meet in the        *)
(* database only: the submission stored first stands, and evidence and     *)
(* results are about it.                                                   *)
FirstSubmissionStands == which = "submission" => Submission!FirstSubmissionStands

(* Practice levels rest on distinct items answered right at first sight,   *)
(* over several tests; recent errors and repeated items never raise them.  *)
ReadinessIsEarned == which = "ready" => Ready!ReadinessIsEarned

(* The evidence of an assessment is grounded sentence by sentence, free of *)
(* contradictions, names every member of its target and stays within its   *)
(* limits.                                                                 *)
EvidenceSupportsTheTarget == which = "evidence" => Evidence!EvidenceSupportsTheTarget

(* Whatever was retried, replaced or repaired on the way, a quiz is        *)
(* published only with a certificate for the very questions it holds, and  *)
(* without one the student has met.                                        *)
PublishedQuizIsReviewed == which = "quiz" => Quiz!PublishedQuizIsReviewed

(* What a restore puts in place is what the runtime held while the archive *)
(* was made, also when backups, prunings and restores fail or overlap.     *)
RestoredStateWasLive == which = "backup" => Backup!RestoredStateWasLive

(* Processes that start together plan their migrations outside the         *)
(* transaction: none takes effect twice or unrecorded, and whoever is      *)
(* served finds them all.                                                  *)
MigrationsApplyOnce == which = "schema" => Schema!MigrationsApplyOnce

(* Builders may write a candidate while it is promoted: a promoted index   *)
(* holds exactly the chunks its revision is the digest of.                 *)
ReleaseIsSealed == which = "release" => Release!ReleaseIsSealed

(* A course import that reads index_ready rests on the artifacts of one    *)
(* run over one source, through failures, repetitions and edits of the     *)
(* source.                                                                 *)
ImportIsWhole == which = "import" => Import!ImportIsWhole

(* Every chunk is filed under the heading its text stands under, across    *)
(* missing pages, overlaps and code blocks, and nothing is lost or         *)
(* reordered.                                                              *)
ChunksAreFiled == which = "chunking" => Chunks!ChunksAreFiled

(* However many promotions run or fail, the index that is put in place has *)
(* one row for each chunk of its bundle, with a text of its page.          *)
PromotedIndexIsWhole == which = "promotion" => Promotion!PromotedIndexIsWhole

(* A title given by the model or the student is changed by the student     *)
(* only, although title tasks finish late; the one exception is a task     *)
(* that was already running.                                               *)
GivenTitlesStand == [][which = "titles" => Titles!GivenTitleStands]_vars

(* The import of legacy session files adds and never changes: what a       *)
(* session holds stays its beginning, a deleted session stays deleted, and *)
(* a plan is applied as a whole.                                           *)
ImportOnlyAdds == [][which = "backfill" => Backfill!ImportAdds]_vars
=============================================================================
