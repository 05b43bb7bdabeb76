CONSTANTS
    w1 = w1
    w2 = w2
    NoOne = NoOne
    Resolver = Resolver
    Reconciler = Reconciler
    Workers <- TwoWorkers
    MaxJobs = 2
    Positions <- OpenClose
    StartSizes = {0}
    Origins = {"EVENT", "RECONCILE"}
    MaxAttempts = 1
    MaxMoves = 1
    MaxOrder = 1
    MaxLockLoss = 0
    MaxManual = 0
SPECIFICATION Spec
SYMMETRY Symmetry
PROPERTIES
    AmbiguityResolvedFirst
CHECK_DEADLOCK FALSE
