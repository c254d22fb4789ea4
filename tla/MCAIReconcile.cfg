CONSTANTS
    a1 = a1
    b1 = b1
    a2 = a2
    A = A
    B = B
    w1 = w1
    NoProposal = NoProposal
    Proposals <- TwoScans
    Symbols <- TwoSymbols
    SymbolOf <- SymbolsOf
    ScanOf <- ScansOf
    Slots = 2
    Workers <- OneWorker
    MaxPositions = 2
    MaxRestarts = 1
    Faulty = FALSE
SPECIFICATION FairSpec
PROPERTIES
    UnresolvedIsReconciled
