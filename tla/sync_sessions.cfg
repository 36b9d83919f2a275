\* One process serves three sessions, one of them with files, and may crash.
SPECIFICATION Spec
CONSTANTS
    s1 = s1
    s2 = s2
    s3 = s3
    w1 = w1
    w2 = w2
    Sessions = {s1, s2, s3}
    Workers = {w1}
    WorkerOf <- OneProcess
    HasFiles = {s1}
    DownloadOutcomes = {"error", "whole", "other"}
    MaxCrashes = 1
INVARIANTS
    TypeOK
    PassReclaimsExpired
    OrphanWasUnexpired
    WaitNeedsOverlap
PROPERTIES
    ImplementsLife
    UnexpiredKept
