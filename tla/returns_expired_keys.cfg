\* Two keys in one process: the cleaner skips one.
SPECIFICATION Spec
CONSTANTS
    s1 = s1
    s2 = s2
    s3 = s3
    w1 = w1
    w2 = w2
    Sessions = {s1, s2}
    Workers = {w1}
    WorkerOf <- OneProcess
    HasFiles = {s1}
    DownloadOutcomes = {"error"}
    MaxCrashes = 0
INVARIANT
    ReturnsExpiredKeys
