CONSTANTS
    p1 = p1
    p2 = p2
    w1 = w1
    w2 = w2
    solusdt = solusdt
    ethusdt = ethusdt
    NoProposal = NoProposal
    Proposals <- TwoProposals
    Workers <- OneWorker
    Symbols <- TwoSymbols
    SymbolOf <- DistinctSymbols
    MaxPositions = 1
    MaxRestarts = 2
    Faulty = TRUE
SPECIFICATION FairSpec
INVARIANTS
    NakedPositionHoldsLock
    AtMostOneLateEntry
    PositionLimits
PROPERTIES
    ImplementsLedger
    AutomaticOnlyAfterRestart
    UnresolvedFailsClosed
    ApprovalIsConsumed
