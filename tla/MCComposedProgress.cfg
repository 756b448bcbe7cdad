SPECIFICATION FairSpec
CONSTANTS
    Successor = TRUE
    Policy = "continuous"
    Routes = {a, b}
    Budget = 1
    Dispatchers = {}
    Controllers = {p1, p2}
    Faults = {"crash", "latch"}
    MaxFaults = 1
PROPERTIES
    LatchReachesReceiver
    StopReachesReceiver
