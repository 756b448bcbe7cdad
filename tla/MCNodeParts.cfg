SPECIFICATION PartsSpec
CONSTANTS
    Ids = {s1}
    Nonces = {n1}
    MaxSeq = 1
    Past = 1
    Future = 1
    SessionTtl = 3
    NonceTtl = 3
    MaxTime = 5
    Keys = {k1, k2, k3}
    MaxRequests = 2
    Window = 2
    MaxBuckets = 2
    ScanLimit = 1
    SweepInterval = 1
    Burst = 2
    Refill = 2
    MaxClock = 5
    GatewayIds = {g1}
    Requests = {r1, r2}
    MaxSessions = 1
    OnRefusal = TRUE
    ExportGuard = TRUE
    Modes = {"mock", "recorded_fixture"}
    Inputs = {"safe", "blocked"}
    Guarded = {"not_supplied"}
    MaxRuns = 3
    ShieldIds = {h1}
    ShieldCap = 1
    ShieldPrompts <- MCPrompts
    ShieldContexts <- MCContexts
    MaxShieldRuns = 3
    Scenarios <- MCScenarios
    Records = {p1}
    MaxActive = 1
    Closed = FALSE
    Explains = TRUE
    ChainCap = 6
    earliest = earliest
    fork = fork
    middle = middle
    last = last
    Absent = Absent
    Bodies <- MCBodies
    Content <- MCContent
    Bundles <- MCBundles
    Statements <- MCStatements
    Receipts <- MCReceipts
    Absences <- MCAbsences
    MaxChain = 3
    MaxReceipts = 1
    TooLarge <- MCTooLarge
SYMMETRY Symmetry
INVARIANTS
    TelemetryOnce
    ProofOnce
    LimitsHold
    RiskOnlyGrows
    NeverLaundered
    SofteningEscalates
    PilotsTellAll
    QuorumIsEarned
    AccusationIsFounded
PROPERTIES
    WitnessesNeverSilence
    AccusationStands
CHECK_DEADLOCK FALSE
