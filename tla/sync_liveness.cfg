\* One of two processes serves both sessions, whose downloads raise; the passes
\* of their cleaners break each other off.
SPECIFICATION Spec
CONSTANTS
    s1 = s1
    s2 = s2
    s3 = s3
    w1 = w1
    w2 = w2
    Sessions = {s1, s2}
    Workers = {w1, w2}
    WorkerOf <- OneProcess
    HasFiles = {s1}
    DownloadOutcomes = {"error"}
    MaxCrashes = 0
INVARIANTS
    PassReclaimsExpired
    OrphanWasUnexpired
PROPERTIES
    ImplementsLife
    FetchAnswered
    KeysReclaimed
