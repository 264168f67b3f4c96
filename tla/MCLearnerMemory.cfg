\* Two threads over a turn, an assessment and a note.
CONSTANTS
    Threads = {t1, t2}
    Turns = {u1}
    Assessments = {a1}
    Notes = {n1}
    None = none
SPECIFICATION Spec
INVARIANT MemoryIsGrounded
INVARIANT CurrentProfileMissesOnlyLateFacts
CHECK_DEADLOCK FALSE
