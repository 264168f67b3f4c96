\* Two slots and one place in the queue, contended by five requests; no
\* symmetry because of liveness.
CONSTANTS
    Requests = {r1, r2, r3, r4, r5}
    ActiveLimit = 2
    QueueLimit = 1
SPECIFICATION FairGateSpec
PROPERTY GateIsExact
PROPERTY EveryWaitEnds
CHECK_DEADLOCK FALSE
