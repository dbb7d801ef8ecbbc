SPECIFICATION FairSpec
CONSTANTS
    w1 = w1
    w2 = w2
    Workers = {w1, w2}
    MaxShares = 1
    MaxRequests = 4
    MaxAttempts = 2
    Conflicts <- Apart
CHECK_DEADLOCK FALSE
PROPERTIES
    QueuedUpdateArrives
    QueuedRevocationEnds
