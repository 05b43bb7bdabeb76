CONSTANTS
    Components = {"window", "risex", "exit", "switch", "leverage", "admin"}
    Controls = 2
    Boots = 1
    RisexJobs = 1
    RisexEvents = 2
    ExitMoves = 1
    ExitDecisions = 1
    SwitchEpochs = 2
    SwitchRequests = 2
    LimiterAllowances <- TwoLanes
    LimiterTotal = 5
    LimiterReserve = 1
    LimiterWeights = {2}
    LimiterCallers = {1, 2}
    LimiterWindow = 4
    LimiterDelay = 1
    LimiterSkew = 1
    LimiterTime = 3
    LimiterAttempts = 2
    SignerOrders = {"order"}
    SignerAdmins = {"admin"}
    SignerSlot = 3
    SignerReads = 1
    LeverageOrders = 2
    LeverageAttempts = 1
    AdminRequests = {r1}
    AdminWorkers = {w1, w2}
    AdminKinds = {"sync", "reconcile"}
    AdminSources <- Closing
    AdminConfigs = 2
    AdminEvents = 1
SPECIFICATION FairSpec
PROPERTIES
    ImplementsJournal
    DisarmTakesEffect
    LandedSettles
    DecisionSettles
    CloseAllEnds
    RepairAccounted
    CommandsEnd
CHECK_DEADLOCK FALSE
