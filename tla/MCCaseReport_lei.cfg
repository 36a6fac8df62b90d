CONSTANTS
    e1 = e1
    e2 = e2
    ann = ann
    bob = bob
    None = None
    Entities <- OneEntity
    People <- TwoPeople
    Contact = ann
    Untitled <- Nobody
    Directors = {ann}
    Claims <- SomeClaims
    Facts <- BritishFacts
    Years <- LateYear
    MayFail <- LeiOutage
    Screenings <- Clear
    WebAnswers <- Lead
    MaxResolutions = 1
    MaxReviews = 0
SPECIFICATION Spec
INVARIANTS
    LeiRowMatchesGraph
CHECK_DEADLOCK FALSE
