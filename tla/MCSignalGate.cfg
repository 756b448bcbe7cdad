SPECIFICATION Spec
CONSTANTS
    p1 = p1
    p2 = p2
    stop = stop
    stray = stray
    torn = torn
    odd = odd
    garbled = garbled
    n1 = n1
    n2 = n2
    Concern <- MCConcern
    Successor = TRUE
    Processes = {p1, p2}
    Alerts = {stop, stray}
    Nonces = {n1, n2}
    Lease = 1
    DecisionLife = 2
    SignedLives = {1}
    HostMayFail = TRUE
    MaxTime = 1
    MaxBoots = 2
    MaxSigned = 2
    MaxCrashes = 1
SYMMETRY Symmetry
INVARIANTS
    StopIsConsistent
PROPERTIES
    AuthenticAlertsHold
    ImplementsLatch
    ResumptionIsAuthorised
    PauseInvalidatesDecisions
