CONSTANTS
    r1 = r1
    r2 = r2
    f1 = f1
    a1 = a1
    a2 = a2
    None = None
    Results = {r1}
    Findings = {}
    Analysts = {a1}
    MaxReviews = 0
    MaxPageReviews = 0
    BoardUsed = FALSE
    MaxFailures = 1
SPECIFICATION SpecPage
INVARIANTS
    CompletedShowsHits
CHECK_DEADLOCK FALSE
