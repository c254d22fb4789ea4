CONSTANTS
    s1 = s1
    s2 = s2
    Wait = Wait
    NoPosition = NoPosition
    Unit = 1
    Cent = 1
    RiskPct = 5
    MaxNotional = 600
    MaxLeverage = 2
    MaxConcurrent = 2
    DailyLossPct = 7
    MinRiskReward = 2
    MaxLosses = 3
    Symbols <- TwoSymbols
    Setups <- ThreeSetups
    Prices = {77, 97, 105, 126}
    Initial = 1000
    FeeRate = 1
    SlipRate = 1
SPECIFICATION DemoSpec
INVARIANTS
    BooksBalance
    GainIsLocked
