SPECIFICATION TeachingSpec

CONSTANTS
    None = None

    TurnQuestions <- MCTurnQuestions
    MaxPieces = 2
    MaxRetries = 2

    Pages = {1, 2}
    Length = 4
    BlankAt = {2}
    Depth = 3

    Summarizers = {p1, p2}
    Histories <- MCHistories
    MaxRecent = 3
    SummarizeAfter = 4
    Budget = 6
    PreserveRecent = 3
    SummarySizes = {1, 3}
    Short = 1
    MaxCoolDowns = 1

    Answers <- MCAnswers
    Domain <- MCDomain
    Skipped = {"s"}
    PageRank <- MCRank
    Leads <- MCLeads
    MaxRedirects = 2
    Wanted = 2
    MaxAttempts = 3
    MaxWorkers = 2

    Callers = {p1, p2}
    Threshold = 2
    EmbedAttempts = 2
    OpenFor = 1
    VectorsKept = 1
    MaxClock = 2
    Courses <- MCCourses
    Concepts <- MCConcepts
    Aliases <- MCAliases
    Questions <- MCQuestions
    TopK = {2}
    MinRules = 1
    AnswersKept = 1
    Masked = Masked

    Programs = {p1, p2}
    MaxConcurrent = 1
    MaxChars = 6
    Marker = 2
    Outputs <- MCOutputs

    Chats = {p1, p2}
    Topics = {"tree"}
    MaxTime = 4

    \* Practice of two targets, of which the budgets allow one.
    Sessions = {"s"}
    Targets = {q1, q2}
    Requests = {"r"}
    ExplicitIds = {e1}
    MaxTargets = 1
    MaxPerTarget = 1
    MaxJobs = 2
    MaxRevision = 1
    MaxCrashes = 1
    MaxStamp = 3

SYMMETRY Symmetry

INVARIANTS
    
    ContextIsExact
    GuardNeverSticks
    CitationsNameWhatWasRead
    ConceptsAreFaithful
    
    
    RowsAreSound

\* Every part comes to a rest: its bounds are used up.
CHECK_DEADLOCK FALSE
