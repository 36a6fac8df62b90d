CONSTANTS
    r1 = r1
    r2 = r2
    f1 = f1
    a1 = a1
    a2 = a2
    None = None
    Results = {r1}
    Findings = {}
    Analysts = {a1}
    MaxReviews = 1
    MaxPageReviews = 1
    BoardUsed = TRUE
    MaxFailures = 0
SPECIFICATION SpecPage
INVARIANTS
    BoardShowsReviews
CHECK_DEADLOCK FALSE
