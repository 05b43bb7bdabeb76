CONSTANTS
    w1 = w1
    w2 = w2
    NoOne = NoOne
    Resolver = Resolver
    Reconciler = Reconciler
    Workers <- TwoWorkers
    MaxJobs = 1
    Positions <- Deep
    StartSizes = {0, 2}
    Origins = {"EVENT", "RECONCILE", "CLOSE_ALL"}
    MaxAttempts = 2
    MaxMoves = 1
    MaxOrder = 1
    MaxLockLoss = 0
    MaxManual = 0
SPECIFICATION Spec
SYMMETRY Symmetry
INVARIANTS
    AppliedIsContained
    LedgerExplained
CHECK_DEADLOCK FALSE
