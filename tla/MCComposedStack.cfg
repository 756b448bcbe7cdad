SPECIFICATION Spec
CONSTANTS
    Successor = TRUE
    Policy = "continuous"
    Routes = {a, b}
    Budget = 1
    Dispatchers = {p1}
    Controllers = {p2}
    Faults = {"crash", "timeout"}
    MaxFaults = 1
SYMMETRY RouteSymmetry
INVARIANTS
    StoresAgree
    BlockingRouteHoldsAll
    HoldExcludesDispatch
PROPERTIES
    RecordedRevocationIsFinal
