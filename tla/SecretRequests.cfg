SPECIFICATION FairSpec
CONSTANTS
    Workers = {w1, w2}
    MaxRequests = 2
    MaxSuites = 2
    Expiring = {1}
    Fallible = {"repoint", "unlock"}
    Conflicts <- Separate
INVARIANTS
    TypeOK
    NoKeylessOrphan
    AnsweredIsStored
    NoneStranded
    
PROPERTIES
    AnsweredCloses
    LapsedEnds
CHECK_DEADLOCK FALSE
