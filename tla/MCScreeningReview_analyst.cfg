CONSTANTS
    r1 = r1
    r2 = r2
    r3 = r3
    f1 = f1
    a1 = a1
    a2 = a2
    None = None
    Results <- ThreeResults
    Findings <- OneFinding
    Analysts <- TwoAnalysts
    MaxReviews = 3
SPECIFICATION Spec
INVARIANTS
    TypeOK
    CaseShowsWorst
    StateWasDecided
    ConfirmedByAnalyst
CHECK_DEADLOCK FALSE
