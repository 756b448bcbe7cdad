SPECIFICATION Spec
CONSTANTS
    p1 = p1
    p2 = p2
    stop = stop
    stray = stray
    torn = torn
    odd = odd
    garbled = garbled
    n1 = n1
    n2 = n2
    Concern <- MCConcern
    Successor = TRUE
    Processes = {p1}
    Alerts = {garbled}
    Nonces = {n1}
    Lease = 2
    DecisionLife = 2
    SignedLives = {2}
    HostMayFail = TRUE
    MaxTime = 1
    MaxBoots = 1
    MaxSigned = 1
    MaxCrashes = 1
PROPERTIES
    AuthenticAlertsHold
