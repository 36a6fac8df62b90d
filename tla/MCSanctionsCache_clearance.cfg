CONSTANTS
    un = un
    uk = uk
    w1 = w1
    cron = cron
    Feeds <- OneFeed
    Required <- OneFeed
    Workers <- OneWorker
    Crons <- OneCron
    MaxRefreshes = 2
SPECIFICATION Spec
INVARIANTS
    ClearanceGrounded
