CONSTANTS
    r1 = r1
    r2 = r2
    r3 = r3
    f1 = f1
    a1 = a1
    a2 = a2
    None = None
    Results <- OneResult
    Findings <- NoFinding
    Analysts <- OneAnalyst
    MaxReviews = 1
SPECIFICATION Spec
INVARIANTS
    ClearanceCovered
CHECK_DEADLOCK FALSE
