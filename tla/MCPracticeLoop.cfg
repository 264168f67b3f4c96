\* One session and an explicit request about one target, through changed
\* resources, retries and a crash; no symmetry because of liveness. The
\* instance with two targets and budgets is the part "practice" of MCTeaching.
CONSTANTS
    Sessions = {s1}
    Targets = {k1}
    Requests = {r1}
    ExplicitIds = {e1}
    MaxTargets = 1
    MaxPerTarget = 1
    MaxJobs = 1
    MaxRevision = 1
    MaxStamp = 3
    MaxCrashes = 1
    None = none
SPECIFICATION FairSpec
INVARIANT TestsAreShared
PROPERTY EveryJobSettles
CHECK_DEADLOCK FALSE
