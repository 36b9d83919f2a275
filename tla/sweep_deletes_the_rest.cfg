\* A folder made after its key was deleted.
SPECIFICATION Spec
CONSTANTS
    s1 = s1
    s2 = s2
    s3 = s3
    w1 = w1
    w2 = w2
    Sessions = {s1, s2}
    Workers = {w1, w2}
    WorkerOf <- TwoProcesses
    HasFiles = {s1}
    DownloadOutcomes = {"error"}
    MaxCrashes = 0
PROPERTY
    SweepDeletesTheRest
