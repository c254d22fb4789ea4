CONSTANTS
    p1 = p1
    p2 = p2
    w1 = w1
    w2 = w2
    solusdt = solusdt
    ethusdt = ethusdt
    NoProposal = NoProposal
    Proposals <- OneProposal
    Workers <- TwoWorkers
    Symbols <- TwoSymbols
    SymbolOf <- SameSymbol
    MaxPositions = 1
    MaxRestarts = 3
    Faulty = TRUE
SPECIFICATION Spec
SYMMETRY IdentitySymmetry
INVARIANTS
    TypeOK
    AtMostOneEntry
    LedgerNeverFlatters
