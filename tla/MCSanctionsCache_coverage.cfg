CONSTANTS
    un = un
    uk = uk
    w1 = w1
    cron = cron
    Feeds <- TwoFeeds
    Required <- TwoFeeds
    Workers <- OneWorker
    Crons <- OneCron
    MaxRefreshes = 2
SPECIFICATION Spec
SYMMETRY FeedSymmetry
INVARIANTS
    OneDownloadUnlessOverlap
    FreshFeedHasRecords
PROPERTIES
    ClearanceInOrder
    NeverEmptied
