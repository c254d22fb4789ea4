SPECIFICATION Spec
CONSTANTS
    s1 = s1
    s2 = s2
    NoPosition = NoPosition
    NoProposal = NoProposal
    Unknown = Unknown
    Symbols <- MCSymbols
    SymbolOrder <- MCSymbolOrder
    Strategy <- MCStrategy
    Quotes <- MCQuotes
    Unrealised <- MCUnrealised
    MaxPositions = 2
    RiskPct = 3
    DailyMax = 80000
    ExperimentLimit = 100000
    MaxLosses = 2
    MaxNotional = 600000
    FeeRate = 1
    SlipRate = 1
    MaxSpread = 1
    MinTurnover = 5
    Leverage = 10
    SignalThreshold = 70
    Tick = 200
    InitialWallet = 2000000
    DayLength = 3
    Horizon = 3
    LastCandle = 1
    MaxEntries = 2
    MaxCrashes = 0
INVARIANT
    StreakMeansLosingTrades
