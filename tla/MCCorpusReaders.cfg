\* Two builders over two documents that share a chunk, one of three chunks
\* structural; a clear, a kill, and readers all along.
CONSTANTS
    c1 = c1
    c2 = c2
    c3 = c3
    b1 = b1
    b2 = b2
    Chunks = {c1, c2, c3}
    Structural = {c3}
    Documents <- MCDocuments
    Builders = {b1, b2}
    BatchSize = 1
    MaxIngests = 2
    MaxKills = 1
    Questions = {q1}
    ManifestCount = 2
    RefreshAttempts = 2
    None = none
SPECIFICATION Spec
SYMMETRY Symmetry
INVARIANT ReadersSeeTheCorpus
PROPERTY HashesAreTrue
CHECK_DEADLOCK FALSE
