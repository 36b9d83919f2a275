\* Three files of one request, each with a thread of its own, and one more
\* whose name has no dot.
SPECIFICATION Spec
CONSTANTS
    a = a
    b = b
    c = c
    d = d
    r1 = r1
    r2 = r2
    w1 = w1
    Files = {a, b, c, d}
    Requests = {r1}
    Workers = {w1}
    RequestOf <- OneRequest
    WorkerOf <- OneWorker
    Dotless = {d}
    PoolSize = 3
SYMMETRY FileSymmetry
INVARIANTS
    TypeOK
    DuplicatesNeedOverlap
    LossNeedsSibling
    EndLeavesNoFiles
PROPERTY
    ImplementsIntake
