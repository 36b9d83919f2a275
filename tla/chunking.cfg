\* Three Chunkers of a file with up to eight bytes that is edited once.
SPECIFICATION Spec
CONSTANTS
    c0 = c0
    c2 = c2
    c3 = c3
    Chunkers = {c0, c2, c3}
    Size <- MCSize
    Lengths = {0, 1, 2, 5, 8}
    MaxEdits = 1
INVARIANTS
    TypeOK
    ChunkCount
    VerdictExplained
CHECK_DEADLOCK FALSE
