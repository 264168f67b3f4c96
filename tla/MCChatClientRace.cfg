\* No restart: the history is read while the worker finishes.
CONSTANTS
    Connections = {post, c1}
    Author = post
    MaxEvents = 4
    None = none
    Crashes = FALSE
SPECIFICATION Spec
PROPERTY ReconnectionGoesOn
CHECK_DEADLOCK FALSE
