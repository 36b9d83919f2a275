\* Two files share a Session, a third comes on its own, and the three jobs
\* compete for the two threads of the process.
SPECIFICATION Spec
CONSTANTS
    a = a
    b = b
    c = c
    d = d
    r1 = r1
    r2 = r2
    w1 = w1
    Files = {a, b, d}
    Requests = {r1, r2}
    Workers = {w1}
    RequestOf <- TwoRequests
    WorkerOf <- OneWorker
    Dotless = {}
    PoolSize = 2
INVARIANT
    LossNeedsSibling
PROPERTY
    EveryAcceptedSettles
