SPECIFICATION FairSpec
CONSTANTS
    Workers = {w1, w2}
    Waits = {1, 2}
    MaxTime = 3
    MaxSuites = 2
    MaxRows = 2
    Conflicts <- Apart
INVARIANTS
    TypeOK
    WaitNotInherited
    EndedSuiteReleasesNothing
PROPERTIES
    ReleasedAfterWait
    PendingResolves
CHECK_DEADLOCK FALSE
