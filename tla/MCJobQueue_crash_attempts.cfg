CONSTANTS
    w1 = w1
    w2 = w2
    NoWorker = NoWorker
    NoJob = NoJob
    Workers <- OneWorker
    Jobs <- OneJob
    MaxAttempts = 2
    MaxJobs = 2
    MaxCrashes = 1
    MaxOverruns = 0
SPECIFICATION Spec
INVARIANTS
    RunsBounded
