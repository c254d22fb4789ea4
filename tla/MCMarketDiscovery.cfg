CONSTANTS
    Listings <- TwoListings
    Core <- CoreSymbols
    SpreadLimit = 2
    TurnoverLimit = 5
    MaxMinNotional = 2
    Shortlist = 3
    Top = 2
    SlotLength = 2
    MinInterval = 3
    MaxScanAge = 1
    TicksPerDay = 3
    LastTick = 5
    MaxRestarts = 1
SPECIFICATION DiscoverySpec
INVARIANTS
    GateIsDurable
    CounterCoversPosts
PROPERTIES
    DecisionsAnswerTheClaim
CHECK_DEADLOCK FALSE
