CONSTANTS
    NoRate = NoRate
    NoPosition = NoPosition
    NoDecision = NoDecision
    Scale = 10000
    SlipRate = 2
    Quotes <- ThreeQuotes
    Rates = {6, 30}
    Decisions <- ThreeDecisions
    MaxSpread = 20
    MaxAge = 1
    Cooldown = 2
    MaxTime = 2
    HeldSides = {"LONG"}
SPECIFICATION GatesSpec
INVARIANTS
    FeeRateIsRecent
    EdgeIsReal
    CooldownHasOneGap
