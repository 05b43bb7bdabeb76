CONSTANTS
    Components = {"window", "risex", "exit", "switch", "limiter", "signer", "leverage", "admin"}
    Controls = 3
    Boots = 2
    RisexJobs = 2
    RisexEvents = 1
    ExitMoves = 2
    ExitDecisions = 2
    SwitchEpochs = 3
    SwitchRequests = 3
    LimiterAllowances <- TwoLanes
    LimiterTotal = 5
    LimiterReserve = 1
    LimiterWeights = {2}
    LimiterCallers = {1, 2}
    LimiterWindow = 4
    LimiterDelay = 1
    LimiterSkew = 1
    LimiterTime = 3
    LimiterAttempts = 2
    SignerOrders = {"order"}
    SignerAdmins = {"admin"}
    SignerSlot = 3
    SignerReads = 1
    LeverageOrders = 3
    LeverageAttempts = 1
    AdminRequests = {r1, r2}
    AdminWorkers = {w1, w2}
    AdminKinds = {"sync"}
    AdminSources <- Moving
    AdminConfigs = 2
    AdminEvents = 1
SPECIFICATION Spec
SYMMETRY AdminSymmetry
INVARIANTS
    PlatformTypeOK
    NoPostAfterDisarm
    AtMostOnePost
    OneUnresolved
    NoReopen
    OneLiveExit
    FailedIsOver
    NothingLeftBehind
    PauseStops
    ServerWithinBudget
    LaneGuaranteed
    MarkerExact
    SignedOnceAndFresh
PROPERTIES
    NewestArmOpens
    SettlementConverges
    CadenceKept
CHECK_DEADLOCK FALSE
