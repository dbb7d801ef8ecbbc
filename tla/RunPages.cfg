SPECIFICATION FairSpec
CONSTANTS
    NumSecrets = 3
    NumVersions = 2
    Limit = 2
    DropLimit = 2
    Window = 1
    MaxUnreadable = 2
    MaxFaults = 2
INVARIANTS
    LossAccepted
    WindowKept
PROPERTIES
    AlwaysTerminates
CHECK_DEADLOCK FALSE
