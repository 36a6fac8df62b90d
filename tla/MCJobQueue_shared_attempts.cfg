CONSTANTS
    w1 = w1
    w2 = w2
    NoWorker = NoWorker
    NoJob = NoJob
    Workers <- TwoWorkers
    Jobs <- OneJob
    MaxAttempts = 3
    MaxJobs = 4
    MaxCrashes = 0
    MaxOverruns = 0
SPECIFICATION Spec
INVARIANTS
    RunsBounded
