CONSTANTS
    c1 = c1
    c2 = c2
    c3 = c3
    a1 = a1
    a2 = a2
    w1 = w1
    w2 = w2
    None = None
    Candidates <- ThreeCandidates
    Incomplete <- ThirdIncomplete
    Analysts <- OneAnalyst
    Workers <- TwoWorkers
    MayFail <- Outages
    MaxAttempts = 3
    MaxCrashes = 0
    MaxTwins = 0
SPECIFICATION FairSpec
INVARIANTS
    ReportsStand
    ResolutionWorkedOn
PROPERTIES
    IdentityStands
    FileConcludes
CHECK_DEADLOCK FALSE
