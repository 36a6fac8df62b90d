CONSTANTS
    c1 = c1
    c2 = c2
    c3 = c3
    a1 = a1
    a2 = a2
    w1 = w1
    w2 = w2
    None = None
    Candidates <- ThreeCandidates
    Incomplete <- ThirdIncomplete
    Analysts <- TwoAnalysts
    Workers <- OneWorker
    MayFail <- Outages
    MaxAttempts = 2
    MaxCrashes = 2
    MaxTwins = 0
SPECIFICATION Spec
INVARIANTS
    TypeOK
    IdentityGrounded
    MaterialOutageShown
    StepsAppliedOnce
PROPERTIES
    KeepsQueue
CHECK_DEADLOCK FALSE
