CONSTANTS
    w1 = w1
    w2 = w2
    NoOne = NoOne
    Resolver = Resolver
    Reconciler = Reconciler
    Workers <- TwoWorkers
    MaxJobs = 2
    Positions <- UpDown
    StartSizes = {0, 1}
    Origins = {"RECONCILE"}
    MaxAttempts = 1
    MaxMoves = 1
    MaxOrder = 2
    MaxLockLoss = 0
    MaxManual = 1
SPECIFICATION Spec
SYMMETRY Symmetry
INVARIANTS
    ExposureBounded
CHECK_DEADLOCK FALSE
