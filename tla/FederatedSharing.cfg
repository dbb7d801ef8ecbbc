SPECIFICATION Spec
CONSTANTS
    w1 = w1
    w2 = w2
    Workers = {w1, w2}
    MaxShares = 2
    MaxRequests = 4
    MaxAttempts = 2
    Conflicts <- Apart
SYMMETRY WorkerSymmetry
INVARIANTS
    TypeOK
    ForgottenByBoth
    OneActive
    AcceptedIsServed
CHECK_DEADLOCK FALSE
