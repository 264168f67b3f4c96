\* One tab over three events: the author's stream, two reconnects, a restart.
CONSTANTS
    Connections = {post, c1, c2}
    Author = post
    MaxEvents = 3
    None = none
    Crashes = TRUE
SPECIFICATION Spec
INVARIANT ShownIsTheAnswer
PROPERTY ShownTextOnlyGrows
SYMMETRY Reconnections
CHECK_DEADLOCK FALSE
