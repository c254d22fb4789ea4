CONSTANTS
    i1 = i1
    i2 = i2
    m1 = m1
    Nobody = Nobody
    Instances <- TwoInstances
    Retiring <- OldInstance
    Markets <- OneMarket
    Hour = 2
    Grace = 0
    Lease = 2
    MaxAge = 2
    OfflineAfter = 1
    Hours = 2
    HoursPerDay = 2
    MaxFaults = 1
SPECIFICATION Spec
INVARIANTS
    MissedIsStored
