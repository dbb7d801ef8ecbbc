SPECIFICATION FairSpec
CONSTANTS
    s1 = s1
    s2 = s2
    g1 = g1
    w1 = w1
    w2 = w2
    q1 = q1
    c1 = c1
    Nothing = Nothing
    MaxSuites = 3
    MaxVersions = 0
    Window = 1
    Workers = {w1, w2}
    Secrets = {s1}
    GrantIds = {}
    Requests = {q1}
    Contacts = {c1}
    Ops <- SideTables
    Conflicts <- Serial
    MaxFaults = 0
INVARIANTS
    CompletionFinished
PROPERTIES
    LockedRequestsReleased
CHECK_DEADLOCK FALSE
