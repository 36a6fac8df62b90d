CONSTANTS
    r1 = r1
    r2 = r2
    f1 = f1
    a1 = a1
    a2 = a2
    None = None
    Results = {r1, r2}
    Findings = {f1}
    Analysts = {a1, a2}
    MaxReviews = 3
    MaxPageReviews = 1
    BoardUsed = FALSE
    MaxFailures = 1
SPECIFICATION SpecPage
INVARIANTS
    CaseShowsWorst
    StateWasDecided
    ConfirmedByAnalyst
    CompletedShowsHitsInOrder
    OwnReviewsListed
PROPERTIES
    FollowsTheRun
CHECK_DEADLOCK FALSE
