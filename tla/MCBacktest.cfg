CONSTANTS
    NoTrade = NoTrade
    NoAction = NoAction
    Never = Never
    NoCandle = NoCandle
    Unit = 1000000
    Cent = 10000
    RiskPct = 5
    MaxNotional = 60000000
    MaxLeverage = 2
    MaxConcurrent = 2
    DailyLossPct = 7
    MinRiskReward = 2
    MaxLosses = 3
    CandleSet <- SixCandles
    Actions <- FourOrders
    MaxCandles = 7
    DayLength = 3
    Cooldown = 1
    FundingInterval = 2
    FeeRate = 1
    SlipRate = 1
    HalfSpread = 1
    FundingRate = 1
    Leverage = 1
    MinTrades = 2
    StartingBalance = 100000000
SPECIFICATION EngineSpec
CHECK_DEADLOCK FALSE
INVARIANTS
    LossIsBudgeted
    LogObeysRiskRules
    ReportMatchesMoney
