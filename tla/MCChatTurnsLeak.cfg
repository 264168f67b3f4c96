\* One request whose client disconnects early.
CONSTANTS
    Requests = {r1, r2}
    Sessions = {s1}
    None = none
    ActiveLimit = 1
    QueueLimit = 1
    MaxCrashes = 0
SPECIFICATION Spec
INVARIANT LeasesAreReturned
CHECK_DEADLOCK FALSE
