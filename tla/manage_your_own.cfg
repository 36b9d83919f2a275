\* As catalogue: a delete of one's own row is rolled back.
SPECIFICATION Spec
CONSTANTS
    d1 = d1
    d2 = d2
    d3 = d3
    all1 = all1
    all2 = all2
    w1 = w1
    w2 = w2
    ann = ann
    bob = bob
    Rows = {1, 2, 3}
    Deletes = {d1, d2, d3}
    Wipes = {all1, all2}
    Workers = {w1, w2}
    Users = {ann, bob}
    WorkerOf <- MCWorkerOf
    UserOf <- MCUserOf
    OwnerOf <- MCOwnerOf
    Target <- MCTarget
PROPERTIES
    OwnDeletesRemove
