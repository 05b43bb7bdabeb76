CONSTANTS
    w1 = w1
    w2 = w2
    NoOne = NoOne
    Resolver = Resolver
    Reconciler = Reconciler
    Workers <- TwoWorkers
    MaxJobs = 2
    Positions <- OpenClose
    StartSizes = {0}
    Origins = {"EVENT"}
    MaxAttempts = 2
    MaxMoves = 2
    MaxOrder = 0
    MaxLockLoss = 0
    MaxManual = 0
SPECIFICATION Spec
SYMMETRY Symmetry
INVARIANTS
    NoFillCountedTwice
CHECK_DEADLOCK FALSE
