SPECIFICATION Spec

CONSTANTS
    None = None

    Threads = {p1, p2}
    NEntries = 2
    SkillManifests <- MCSkills
    MaxEdits = 2

    Callers = {p1, p2}
    Students = {q1, q2}
    Limit = 2
    GlobalLimit = 3
    Window = 3
    MaxWait = 1
    MaxClock = 4

    Messages = {"m1", "m2", "m3"}
    Topic <- MCTopic
    Default = "new"
    Manual = {"mine"}
    Named = {"good"}
    Raw = {"raw"}
    MaxSends = 3
    MaxTasks = 3

    Requests = {p1, p2, q1, q2}
    CompleteAnswers = {"A", "B"}

    Items = {p1, p2, q1, q2}
    Harder = {q1, q2}
    MaxTests = 3
    BatchSizes = {1, 2}

    Documents <- MCDocuments
    Sentences <- MCSentences
    Members = {"x", "y"}
    MaxDocuments = 2
    MaxSentences = 3
    MaxSources = 2
    MaxChars = 5

    Slots = {1, 2}
    Questions = {1, 2}
    QuizMembers = {"m"}
    MaxRepairs = 1
    MaxRounds = 3

    Sessions = {p1, p2}
    MaxMessages = 2
    MaxChanges = 2

    NPaths = 2
    MaxWrites = 2
    MaxBackups = 2
    Absent = Absent

    Versions = {3, 4, 5}
    Payloads = {"old", "new"}
    MaxFaults = 2

    Parses <- MCParses
    Builders = {p1, p2}
    Publishers = {"promoter"}
    MaxBuilds = 2
    Torn = Torn

    Contents = {"v1", "v2", "blank", "broken"}
    Unreadable = {"broken"}
    Empty = {"blank"}
    MaxRuns = 2

    Toc <- MCToc
    LastPage = 6
    ChapterTexts <- MCChapters
    ChunkSize = 5
    MaxSize = 6
    Overlap = 3
    LeastTail = 1

    Promoters = {p1, p2}
    Bundles <- MCBundles
    Manifests <- MCManifests
    Collections = {{"a"}, {"a", "b"}}
    BundleTexts <- MCBundleTexts
    ExpectedBundle = "frozen"
    ExpectedManifest = "frozen"
    BatchSize = 2

SYMMETRY Symmetry

INVARIANTS
    
    QuotaIsExact
    
    ReadinessIsEarned
    EvidenceSupportsTheTarget
    
    
    MigrationsApplyOnce
    ReleaseIsSealed
    
    
    

PROPERTIES
    GivenTitlesStand
    

\* Every part comes to a rest: its bounds are used up.
CHECK_DEADLOCK FALSE
