CONSTANTS
    w1 = w1
    w2 = w2
    NoWorker = NoWorker
    NoJob = NoJob
    Workers <- OneWorker
    Jobs <- TwoJobs
    MaxAttempts = 2
    MaxJobs = 2
    MaxCrashes = 2
    MaxOverruns = 2
SPECIFICATION FairSpec
INVARIANTS
    GivenUpAfterMax
    DeathsCostOneRun
PROPERTIES
    KeepsPromise
    EveryJobSettles
