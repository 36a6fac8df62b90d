CONSTANTS
    r1 = r1
    r2 = r2
    r3 = r3
    f1 = f1
    a1 = a1
    a2 = a2
    None = None
    Results <- TwoResults
    Findings <- NoFinding
    Analysts <- TwoAnalysts
    MaxReviews = 2
SPECIFICATION Spec
INVARIANTS
    ConfirmedShows
CHECK_DEADLOCK FALSE
