SPECIFICATION Spec
CONSTANTS
    s1 = s1
    s2 = s2
    g1 = g1
    w1 = w1
    w2 = w2
    q1 = q1
    c1 = c1
    Nothing = Nothing
    MaxSuites = 2
    MaxVersions = 0
    Window = 1
    Workers = {w1, w2}
    Secrets = {s1, s2}
    GrantIds = {g1}
    Requests = {}
    Contacts = {}
    Ops <- Migrating
    Conflicts <- Serial
    MaxFaults = 1
INVARIANTS
    TypeOK
    NoSilentLoss
    FailuresOnOldSuite
PROPERTIES
    AcknowledgedLoss
CHECK_DEADLOCK FALSE
