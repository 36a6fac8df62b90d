CONSTANTS
    c1 = c1
    c2 = c2
    c3 = c3
    a1 = a1
    a2 = a2
    w1 = w1
    w2 = w2
    None = None
    Candidates <- OneCandidate
    Incomplete <- NoneIncomplete
    Analysts <- TwoAnalysts
    Workers <- TwoWorkers
    MayFail <- NoOutages
    MaxAttempts = 2
    MaxCrashes = 0
    MaxTwins = 0
SPECIFICATION Spec
INVARIANTS
    StepsAppliedOnce
CHECK_DEADLOCK FALSE
