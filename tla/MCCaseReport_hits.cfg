CONSTANTS
    e1 = e1
    e2 = e2
    ann = ann
    bob = bob
    None = None
    Entities <- TwoEntities
    People <- TwoPeople
    Contact = ann
    Untitled <- Nobody
    Directors = {ann}
    Claims <- SomeClaims
    Facts <- BritishFacts
    Years <- LateYear
    MayFail <- NoOutage
    Screenings <- Verdicts
    WebAnswers <- Lead
    MaxResolutions = 2
    MaxReviews = 0
SPECIFICATION Spec
INVARIANTS
    HitsVisible
CHECK_DEADLOCK FALSE
