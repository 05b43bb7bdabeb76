CONSTANTS
    w1 = w1
    w2 = w2
    NoOne = NoOne
    Resolver = Resolver
    Reconciler = Reconciler
    Workers <- TwoWorkers
    MaxJobs = 1
    Positions <- LongShort
    StartSizes = {2}
    Origins = {"EVENT"}
    MaxAttempts = 2
    MaxMoves = 1
    MaxOrder = 0
    MaxLockLoss = 1
    MaxManual = 0
SPECIFICATION Spec
SYMMETRY Symmetry
INVARIANTS
    TypeOK
    AtMostOneSubmission
    NeverOpensAgainstPosition
PROPERTIES
    FillsApproachTarget
CHECK_DEADLOCK FALSE
