CONSTANTS
    e1 = e1
    e2 = e2
    NoEntry = NoEntry
    Entries <- OneEntry
    TermsChoices <- LongOnly
    Prices <- HalfRPrices
    Atrs = {0}
    MaxEvents = 2
    CostDen = 100
    CostNum = 1
    WatchBuffer = 20
SPECIFICATION RetrySpec
PROPERTIES
    BreakEvenIsReached
