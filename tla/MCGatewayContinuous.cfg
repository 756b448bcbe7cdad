SPECIFICATION Spec
CONSTANTS
    c1 = c1
    c2 = c2
    g1 = g1
    g2 = g2
    Credentials = {c1}
    Scopes = {"x"}
    Actions <- TwoActions
    Clients = {g1, g2}
    Policy = "continuous"
    MaxTime = 1
    MaxSessions = 1
    MaxLog = 2
    Logins <- OneLogin
    Approved <- TwoApproved
    Bound <- TwoBound
    Workers = {w1, w2}
    Revokers = {v1}
    MaxCalls = 3
INVARIANTS
    RevocationFinal
    AckBoundsEffects
    RecordsAreHonest
PROPERTIES
    ImplementsOneShot
CHECK_DEADLOCK FALSE
