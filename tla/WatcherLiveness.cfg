CONSTANTS
    r1 = r1
    r2 = r2
    NoHolder = NoHolder
    Watchers <- TwoReplicas
    MaxFills = 2
    SameMs = TRUE
    PageSize = 3
    MaxPages = 2
    MaxFaults = 1
SPECIFICATION FairSpec
PROPERTIES
    FillsPersisted
CHECK_DEADLOCK FALSE
