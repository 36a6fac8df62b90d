CONSTANTS
    e1 = e1
    e2 = e2
    ann = ann
    bob = bob
    None = None
    Entities <- TwoEntities
    People <- TwoPeople
    Contact = ann
    Untitled <- Nobody
    Directors = {ann}
    Claims <- SomeClaims
    Facts <- SomeFacts
    Years <- LateYear
    MayFail <- SomeOutages
    Screenings <- Verdicts
    WebAnswers <- Page
    MaxResolutions = 2
    MaxReviews = 1
SPECIFICATION Spec
INVARIANTS
    ContactAccountedFor
    VerifiedHasRecord
    ContradictionsUnique
    ContactRowMatchesGraph
    StrongBacked
PROPERTIES
    VerificationStands
    StoredOfficersCount
CHECK_DEADLOCK FALSE
