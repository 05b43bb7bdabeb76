CONSTANTS
    r1 = r1
    r2 = r2
    NoHolder = NoHolder
    Watchers <- TwoReplicas
    MaxFills = 4
    SameMs = FALSE
    PageSize = 2
    MaxPages = 2
    MaxFaults = 1
SPECIFICATION Spec
SYMMETRY Symmetry
INVARIANTS
    TypeOK
    CheckpointCoversAll
    ReplayComplete
PROPERTIES
    TokensNeverRegress
CHECK_DEADLOCK FALSE
