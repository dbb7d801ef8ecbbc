SPECIFICATION Spec
CONSTANTS
    w1 = w1
    w2 = w2
    olga = olga
    omar = omar
    Workers = {w1, w2}
    People = {olga, omar}
    Thresholds = {2}
    MaxRequests = 2
    MaxPolicies = 2
    Conflicts <- Apart
SYMMETRY Interchangeable
INVARIANTS
    TypeOK
    SealedOnlyWhileApproved
    QuorumBehindApproval
    QuorumIsNoticed
    RemovedHoldNoCopy
CHECK_DEADLOCK FALSE
