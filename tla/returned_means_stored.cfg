\* A pending record is expunged by a sibling.
SPECIFICATION Spec
CONSTANTS
    a = a
    b = b
    c = c
    d = d
    r1 = r1
    r2 = r2
    w1 = w1
    Files = {a, b}
    Requests = {r1}
    Workers = {w1}
    RequestOf <- OneRequest
    WorkerOf <- OneWorker
    Dotless = {}
    PoolSize = 2
INVARIANT
    ReturnedMeansStored
