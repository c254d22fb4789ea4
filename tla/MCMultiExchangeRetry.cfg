CONSTANTS
    c1 = c1
    c2 = c2
    id1 = id1
    id2 = id2
    NoOne = NoOne
    Callers <- TwoCallers
    Ids <- TwoIds
    Requests <- Orders
    Group <- Groups
    Step = 2
    MinQty = 2
    MaxNotional = 3
    MaxPositions = 2
    MaxExposure = 3
    MaxCorrelated = 3
    MaxRetries = 1
    RecentLimit = 1
    MaxCrashes = 1
SPECIFICATION Spec
INVARIANTS
    NeverResent
CHECK_DEADLOCK FALSE
