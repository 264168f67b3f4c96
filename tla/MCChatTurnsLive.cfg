\* Two requests on one session, one restart, no symmetry because of liveness.
CONSTANTS
    Requests = {r1, r2}
    Sessions = {s1}
    None = none
    ActiveLimit = 1
    QueueLimit = 1
    MaxCrashes = 1
SPECIFICATION FairSpec
PROPERTY CancelledTurnNeverCompletes
PROPERTY EveryTurnIsSettled
CHECK_DEADLOCK FALSE
