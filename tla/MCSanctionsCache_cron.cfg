CONSTANTS
    un = un
    uk = uk
    w1 = w1
    cron = cron
    Feeds <- OneFeed
    Required <- OneFeed
    Workers <- OneWorker
    Crons <- OneCron
    MaxRefreshes = 3
SPECIFICATION Spec
INVARIANTS
    OneDownloadUnlessOverlap
    FreshFeedHasRecords
PROPERTIES
    ClearanceInOrder
    NeverEmptied
