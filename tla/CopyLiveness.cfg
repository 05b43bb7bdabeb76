CONSTANTS
    w1 = w1
    w2 = w2
    NoOne = NoOne
    Resolver = Resolver
    Reconciler = Reconciler
    Workers <- TwoWorkers
    MaxJobs = 1
    Positions <- OpenClose
    StartSizes = {1}
    Origins = {"EVENT"}
    MaxAttempts = 2
    MaxMoves = 1
    MaxOrder = 0
    MaxLockLoss = 0
    MaxManual = 0
SPECIFICATION FairSpec
PROPERTIES
    JobsTerminate
    ExecutionsSettle
CHECK_DEADLOCK FALSE
