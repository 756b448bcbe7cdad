SPECIFICATION ReceiverSpec
CONSTANTS
    Credentials = {c1, c2}
    Scopes = {"x", "y"}
    Actions <- MCActions
    Clients = {r1, r2}
    Policy = "session_snapshot"
    MaxTime = 1
    MaxSessions = 2
    MaxLog = 3
SYMMETRY Symmetry
INVARIANTS
    EffectsAreRecorded
    LoginPrecedesRevocation
    CancelFinal
CHECK_DEADLOCK FALSE
