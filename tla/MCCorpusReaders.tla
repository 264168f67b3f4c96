-------------------------- MODULE MCCorpusReaders --------------------------
EXTENDS CorpusReaders, TLC

CONSTANTS c1, c2, c3, b1, b2

MCDocuments == {{c1, c2}, {c2, c3}}
Symmetry == Permutations({b1, b2})

=============================================================================
