\* Three requests of any kind on one session, no restart.
CONSTANTS
    Requests = {r1, r2, r3}
    Sessions = {s1}
    None = none
    ActiveLimit = 2
    QueueLimit = 1
    MaxCrashes = 0
SPECIFICATION Spec
SYMMETRY Symmetry
INVARIANT SessionsAreSafe
INVARIANT FinalEventMatchesHistory
PROPERTY ImplementsConversation
 
CHECK_DEADLOCK FALSE
