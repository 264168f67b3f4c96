\* The author's stream and a resumed one over five events, with a restart.
CONSTANTS
    Connections = {post, c1}
    Author = post
    MaxEvents = 5
SPECIFICATION FairStreamSpec
INVARIANT ReadersGetTheLog
PROPERTY EveryStreamEnds
CHECK_DEADLOCK FALSE
