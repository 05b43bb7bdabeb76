CONSTANTS
    r1 = r1
    r2 = r2
    NoHolder = NoHolder
    Watchers <- TwoReplicas
    MaxFills = 3
    SameMs = TRUE
    PageSize = 2
    MaxPages = 2
    MaxFaults = 0
SPECIFICATION Spec
SYMMETRY Symmetry
INVARIANTS
    ReplayComplete
CHECK_DEADLOCK FALSE
