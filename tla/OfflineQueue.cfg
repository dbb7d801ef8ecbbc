SPECIFICATION FairSpec
CONSTANTS
    MaxEdits = 2
    MaxSuites = 2
    Gaps = {}
INVARIANTS
    TypeOK
    EditsAccounted
PROPERTIES
    OnlyTheSeenPasses
    Settles
CHECK_DEADLOCK FALSE
