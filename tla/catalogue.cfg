\* Two processes serve deletes and wipes of two users, who own three rows.
SPECIFICATION Spec
CONSTANTS
    d1 = d1
    d2 = d2
    d3 = d3
    all1 = all1
    all2 = all2
    w1 = w1
    w2 = w2
    ann = ann
    bob = bob
    Rows = {1, 2, 3}
    Deletes = {d1, d2, d3}
    Wipes = {all1, all2}
    Workers = {w1, w2}
    Users = {ann, bob}
    WorkerOf <- MCWorkerOf
    UserOf <- MCUserOf
    OwnerOf <- MCOwnerOf
    Target <- MCTarget
INVARIANTS
    TypeOK
    WipeLeavesNothing
    LocksAreLive
    WaitsAreOrdered
PROPERTIES
    AnsweredUnlessOverlapping
    OnlyWipesRemove
    ImplementsTable
