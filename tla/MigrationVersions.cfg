SPECIFICATION Spec
CONSTANTS
    s1 = s1
    s2 = s2
    g1 = g1
    w1 = w1
    w2 = w2
    q1 = q1
    c1 = c1
    Nothing = Nothing
    MaxSuites = 3
    MaxVersions = 2
    Window = 1
    Workers = {w1, w2}
    Secrets = {s1}
    GrantIds = {}
    Requests = {}
    Contacts = {}
    Ops <- MigratingEdits
    Conflicts <- Serial
    MaxFaults = 0
INVARIANTS
    CarriedForward
PROPERTIES
    NeverSealedAway
CHECK_DEADLOCK FALSE
