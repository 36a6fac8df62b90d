CONSTANTS
    w1 = w1
    w2 = w2
    NoWorker = NoWorker
    NoJob = NoJob
    Workers <- TwoWorkers
    Jobs <- TwoJobs
    MaxAttempts = 2
    MaxJobs = 2
    MaxCrashes = 1
    MaxOverruns = 1
SPECIFICATION Spec
SYMMETRY WorkerSymmetry
INVARIANTS
    EffectsMatchStatus
    OneExecutor
    FailureSurfaced
PROPERTIES
    OutcomeIsFinal
