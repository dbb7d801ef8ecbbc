SPECIFICATION Spec
CONSTANTS
    s1 = s1
    s2 = s2
    g1 = g1
    w1 = w1
    w2 = w2
    q1 = q1
    c1 = c1
    Nothing = Nothing
    MaxSuites = 2
    MaxVersions = 2
    Window = 1
    Workers = {w1, w2}
    Secrets = {s1}
    GrantIds = {}
    Requests = {}
    Contacts = {}
    Ops <- UnlockedWrites
    Conflicts <- Serial
    MaxFaults = 1
SYMMETRY AnyWorker
INVARIANTS
    NoStranding
    EndsActive
CHECK_DEADLOCK FALSE
