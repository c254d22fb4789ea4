------------------------------- MODULE Backtest -------------------------------
(***************************************************************************)
(* BacktestEngine.run (src/app/backtest/core.py): one step per candle.     *)
(* The strategy is any function of the candles closed so far, so its       *)
(* answer is a choice made when the candle is processed; the candles       *)
(* are chosen as they are met.  Entries, stops and targets are in          *)
(* hundredths of a price unit, the fill of an exit in hundredths of that   *)
(* and money in hundredths again (Unit = 10^6): the code's decimals are    *)
(* exact, and so are these.                                                *)
(***************************************************************************)
EXTENDS RiskManager, Sequences, SequencesExt

CONSTANTS
    CandleSet,       \* the candles a data set is made of
    Actions,         \* what the strategy may ask for
    NoTrade,         \* open_trade is None
    NoAction,        \* the strategy answers None
    NoCandle,        \* no candle processed yet
    Never,           \* last_loss_at is None
    MaxCandles,      \* longest data set
    DayLength,       \* candles per day
    Cooldown,        \* cooldown_minutes, in candles
    FundingInterval, \* funding_interval, in candles
    HalfSpread, FundingRate,
    Leverage,
    MinTrades,       \* trades a verdict needs
    StartingBalance

ASSUME EngineAssumption ==
    /\ {HalfSpread, Cooldown, MinTrades, StartingBalance} \subseteq Nat
    /\ SlipRate + HalfSpread < Hundred /\ FundingRate \in Int
    /\ {MaxCandles, DayLength, FundingInterval, Leverage} \subseteq Nat \ {0}
    /\ Unit = Hundred * Hundred * Hundred
    /\ Never \notin Nat

VARIABLES
    eventTime,  \* of the last candle, counted in candles
    lastCandle, \* the last candle processed
    balance,
    openTrade,
    trades,     \* the closed trades
    dayPnl,     \* daily_pnl of the day of eventTime
    losses,     \* consecutive_losses
    lastLoss,   \* last_loss_at
    curve,      \* the equity curve
    peak,       \* peak_equity
    finished

engineVars == <<eventTime, lastCandle, balance, openTrade, trades, dayPnl, losses, lastLoss,
                curve, peak, finished>>

Day(t) == t \div DayLength

\* Candle and validate_candles; a data set that fails is refused as a whole.
Candle == [open : Nat, high : Nat, low : Nat, close : Nat]

ValidCandle(c) ==
    /\ Min({c.open, c.high, c.low, c.close}) > 0
    /\ c.low <= Min({c.open, c.close})
    /\ c.high >= Max({c.open, c.close})

\* StrategyAction.  override is 0 for a market entry, trailing for no trailing stop.
Action ==
    [side : Side, stop : Nat, target : Nat, breakEven : BOOLEAN, trailing : Nat,
     override : Nat, makerFee : Nat, quiet : BOOLEAN]

ASSUME DataAssumption ==
    CandleSet \subseteq Candle /\ Actions \subseteq Action /\ NoAction \notin Actions

\* slippage + spread / 2
AdverseRate == SlipRate + HalfSpread

\* _entry_fill
EntryFill(price, side) == price * (Hundred + Sign(side) * AdverseRate)

\* _close: the fill of an exit requested at a price in hundredths.
ExitFill(requested, side) == requested * (Hundred - Sign(side) * AdverseRate)

(***************************************************************************)
(* Entry                                                                   *)
(***************************************************************************)

\* The state the entry of one candle works on, after the exit of that candle.
Cooling(last) == last # Never /\ eventTime + 1 < last + Cooldown

IntentOf(a, c, bal, daily, streak, last) ==
    [side |-> a.side, entry |-> c.close, stop |-> a.stop, target |-> a.target,
     equity |-> bal, daily |-> daily, open |-> 0,
     losses |-> IF last # Never /\ ~Cooling(last) THEN 0 ELSE streak,
     leverage |-> Leverage, available |-> bal, cooldown |-> Cooling(last),
     quiet |-> a.quiet]

\* The price of the fill, in hundredths.
FillOf(a, c) == IF a.override > 0 THEN a.override * Hundred ELSE EntryFill(c.close, a.side)

\* A price in hundredths as the money of one lot.
Money(price) == price * Hundred * Hundred

\* The risk of one lot, in money, from the fill and not from the close.
FillRisk(a, c) == Money(Sign(a.side) * (FillOf(a, c) - a.stop * Hundred))

AbsFillRisk(a, c) == Max({FillRisk(a, c), -FillRisk(a, c)})

\* Mutant: the size approved for the close is kept for the fill.
QuantityAtClose(a, c, n) == ApprovedQuantity(n)

\* The approved size, cut down to what the fill price allows.
Quantity(a, c, n) ==
    Min({ApprovedQuantity(n),
         RiskAmount(n.equity) \div AbsFillRisk(a, c),
         MaxNotional \div Money(FillOf(a, c)),
         (n.equity * Leverage) \div Money(FillOf(a, c))})

OpenTrade(a, c, n) ==
    LET fill == FillOf(a, c)
        quantity == Quantity(a, c, n)
        market == a.override = 0
    IN [side |-> a.side, entry |-> fill, quantity |-> quantity,
        stop |-> a.stop * Hundred, target |-> a.target * Hundred, opened |-> eventTime + 1,
        risk |-> quantity * AbsFillRisk(a, c),
        unitRisk |-> AbsFillRisk(a, c) \div Money(1),
        breakEven |-> a.breakEven, trailing |-> a.trailing * Hundred,
        high |-> fill, low |-> fill,
        feeRate |-> IF market THEN FeeRate ELSE a.makerFee,
        \* entry_slippage and entry_spread
        impact |-> IF market THEN Money(c.close) * quantity * AdverseRate ELSE 0]

(***************************************************************************)
(* Exit and protection                                                     *)
(***************************************************************************)

\* _funding_cost: the settlements after the opening up to this time.
Settlements(opened, at) == at \div FundingInterval - opened \div FundingInterval

FundingCost(t, at) ==
    IF FundingRate = 0 \/ at <= t.opened THEN 0
    ELSE Hundred * t.entry * t.quantity * FundingRate * Settlements(t.opened, at) * Sign(t.side)

EntryFee(t) == Hundred * t.entry * t.quantity * t.feeRate

\* _close: the BacktestTrade of an exit requested at a price in hundredths.
Close(t, requested, at, reason) ==
    LET exit == ExitFill(requested, t.side)
        gross == Hundred * Sign(t.side) * (exit - Hundred * t.entry) * t.quantity
        fees == EntryFee(t) + exit * t.quantity * FeeRate
    IN [side |-> t.side, opened |-> t.opened, closed |-> at, entry |-> t.entry,
        exit |-> exit, quantity |-> t.quantity, fees |-> fees, risk |-> t.risk,
        pnl |-> gross - fees - FundingCost(t, at), funding |-> FundingCost(t, at),
        \* slippage_cost and spread_cost
        impact |-> t.impact + Hundred * requested * t.quantity * AdverseRate, reason |-> reason]

\* BacktestTrade.pnl_before_costs
PnlBeforeCosts(x) == x.pnl + x.fees + x.impact + x.funding

\* _maybe_close with resolve_candle_exit: the stop comes before the target.
MaybeClose(t, c, at) ==
    IF StopHit(t.side, t.stop, c.high * Hundred, c.low * Hundred)
    THEN {Close(t, t.stop, at, "STOP_LOSS")}
    ELSE IF TargetHit(t.side, t.target, c.high * Hundred, c.low * Hundred)
         THEN {Close(t, t.target, at, "TAKE_PROFIT")}
         ELSE {}

\* _advance_protection: the watermarks, the break-even stop, then the trailing stop.
AdvancedTrade(t, c) ==
    LET high == Max({t.high, c.high * Hundred})
        low == Min({t.low, c.low * Hundred})
        best == IF t.side = "LONG" THEN high ELSE low
        reached == t.breakEven /\ Sign(t.side) * (best - t.entry) >= t.unitRisk
        even == IF reached THEN Tighter(t.side, t.stop, t.entry) ELSE t.stop
        trail == IF t.trailing = 0 THEN even
                 ELSE Tighter(t.side, even, best - Sign(t.side) * t.trailing)
    IN [t EXCEPT !.high = high, !.low = low, !.stop = trail]

\* _unrealized
Unrealized(t, c, at) ==
    IF t = NoTrade THEN 0
    ELSE Money(Sign(t.side) * (c.close * Hundred - t.entry)) * t.quantity
           - EntryFee(t) - FundingCost(t, at)

(***************************************************************************)
(* The run                                                                 *)
(***************************************************************************)

EngineInit ==
    /\ eventTime = 0 /\ lastCandle = NoCandle
    /\ balance = StartingBalance /\ peak = StartingBalance
    /\ openTrade = NoTrade /\ trades = <<>> /\ curve = <<>>
    /\ dayPnl = 0 /\ losses = 0 /\ lastLoss = Never
    /\ finished = FALSE

\* daily_pnl.get of the day of this candle
DayBefore == IF Day(eventTime + 1) = Day(eventTime) THEN dayPnl ELSE 0

\* The equity point of a candle.
Mark(t, c, bal) ==
    LET equity == bal + Unrealized(t, c, eventTime + 1)
    IN /\ curve' = Append(curve, equity)
       /\ peak' = Max({peak, equity})

\* The strategy is asked and, if the risk manager approves, a trade is opened.  A fill at
\* the stop is no risk to divide by: the run ends with an exception, without a next state.
Enter(a, c, bal, daily, streak, last) ==
    LET n == IntentOf(a, c, bal, daily, streak, last)
        approved == a # NoAction /\ Approved(n)
    IN CASE ~approved -> {NoTrade}
         [] approved /\ AbsFillRisk(a, c) = 0 -> {}
         [] approved /\ AbsFillRisk(a, c) # 0 /\ Quantity(a, c, n) <= 0 -> {NoTrade}
         [] OTHER -> {OpenTrade(a, c, n)}

\* Mutant: a loss belongs to the day its trade was opened.
LossOfOpeningDay(x) ==
    IF Day(x.opened) = Day(eventTime + 1) THEN DayBefore + x.pnl ELSE DayBefore

\* daily_pnl of the day of the exit
DayWith(x) == DayBefore + x.pnl

\* One candle while a trade is open that it closes; the strategy is asked at once.
ClosingCandle(c, a) ==
    /\ openTrade # NoTrade
    /\ \E x \in MaybeClose(openTrade, c, eventTime + 1) :
        /\ balance' = balance + x.pnl
        /\ trades' = Append(trades, x)
        /\ dayPnl' = DayWith(x)
        /\ losses' = IF x.pnl < 0 THEN losses + 1 ELSE 0
        /\ lastLoss' = IF x.pnl < 0 THEN eventTime + 1 ELSE Never
    /\ openTrade' \in Enter(a, c, balance', dayPnl', losses', lastLoss')
    /\ Mark(openTrade', c, balance')

\* One candle that leaves the open trade alone: the strategy is not asked.
HoldingCandle(c) ==
    /\ openTrade # NoTrade
    /\ MaybeClose(openTrade, c, eventTime + 1) = {}
    /\ openTrade' = AdvancedTrade(openTrade, c)
    /\ dayPnl' = DayBefore
    /\ Mark(openTrade', c, balance)
    /\ UNCHANGED <<balance, trades, losses, lastLoss>>

\* One candle with no trade open.
IdleCandle(c, a) ==
    /\ openTrade = NoTrade
    /\ openTrade' \in Enter(a, c, balance, DayBefore, losses, lastLoss)
    /\ dayPnl' = DayBefore
    /\ Mark(openTrade', c, balance)
    /\ UNCHANGED <<balance, trades, losses, lastLoss>>

NextCandle ==
    /\ ~finished /\ eventTime < MaxCandles
    /\ eventTime' = eventTime + 1
    /\ lastCandle' \in {c \in CandleSet : ValidCandle(c)}
    /\ \/ HoldingCandle(lastCandle')
       \/ \E a \in Actions \cup {NoAction} :
            ClosingCandle(lastCandle', a) \/ IdleCandle(lastCandle', a)
    /\ UNCHANGED finished

\* Mutant: the last point keeps the equity of the trade still open.
MarkedLastPoint(bal) == curve

\* curve[-1]: the last point becomes the balance.
SettledLastPoint(bal) == [curve EXCEPT ![eventTime] = bal]

\* The data ends with this candle: an open trade is closed at its last close.
EndOfData ==
    /\ ~finished /\ eventTime > 0
    /\ finished' = TRUE
    /\ IF openTrade = NoTrade THEN UNCHANGED <<balance, openTrade, trades, curve, peak>>
       ELSE \E x \in {Close(openTrade, lastCandle.close * Hundred, eventTime, "END_OF_DATA")} :
            /\ balance' = balance + x.pnl
            /\ openTrade' = NoTrade
            /\ trades' = Append(trades, x)
            /\ curve' = SettledLastPoint(balance')
            /\ peak' = Max({peak, balance'})
    /\ UNCHANGED <<eventTime, lastCandle, dayPnl, losses, lastLoss>>

EngineNext == NextCandle \/ EndOfData

EngineSpec == EngineInit /\ [][EngineNext]_engineVars

(***************************************************************************)
(* The report                                                              *)
(***************************************************************************)

\* calculate_metrics: what the verdicts rest on.
Pnls == [k \in DOMAIN trades |-> trades[k].pnl]

NetPnl == SumFunction(Pnls)

GrossProfit == SumFunction([k \in {j \in DOMAIN Pnls : Pnls[j] > 0} |-> Pnls[k]])
GrossLoss   == SumFunction([k \in {j \in DOMAIN Pnls : Pnls[j] < 0} |-> Pnls[k]])

\* profit_factor above one; without a losing trade it is infinite, or zero.
ProfitFactorAboveOne == GrossProfit > -GrossLoss

\* The highest point of the curve up to the k-th, and the fall from it.
PeakUpTo(k) == Max({StartingBalance} \cup {curve[j] : j \in 1 .. k})
Fall(k)     == PeakUpTo(k) - curve[k]

MaxDrawdown == Max({0} \cup {Fall(k) : k \in DOMAIN curve})

\* max_drawdown_pct lies above this many per cent.
DrawdownAbove(pct) == \E k \in DOMAIN curve : Hundred * Fall(k) > pct * PeakUpTo(k)

Disappointing(oos) ==
    NetPnl <= 0 \/ ~ProfitFactorAboveOne \/ DrawdownAbove(30) \/ oos = "LOSS"

\* validation_status; oos is the out-of-sample result: none, a losing or a winning one.
Verdict(oos) ==
    CASE Len(trades) < MinTrades -> "NEEDS_MORE_DATA"
      [] Len(trades) >= MinTrades /\ Disappointing(oos) -> "FAILED"
      [] OTHER -> IF ~DrawdownAbove(20) /\ oos = "WIN" THEN "PROMISING" ELSE "WEAK"

(***************************************************************************)
(* Properties                                                              *)
(***************************************************************************)

Trade ==
    [side : Side, entry : Int, quantity : Nat, stop : Int, target : Int, opened : Nat,
     risk : Int, unitRisk : Int, breakEven : BOOLEAN, trailing : Int, high : Int, low : Int,
     feeRate : Nat, impact : Int]

ClosedTrade ==
    [side : Side, opened : Nat, closed : Nat, entry : Int, exit : Int, quantity : Nat,
     fees : Int, risk : Int, pnl : Int, funding : Int, impact : Int,
     reason : {"STOP_LOSS", "TAKE_PROFIT", "END_OF_DATA"}]

ASSUME NoTradeAssumption == NoTrade \notin Trade

\* The types of the engine's locals (the dict open_trade and BacktestTrade).
EngineTypeOK ==
    /\ eventTime \in Nat
    /\ lastCandle \in {NoCandle} \cup {c \in CandleSet : ValidCandle(c)}
    /\ {balance, dayPnl, peak} \subseteq Int
    /\ openTrade \in {NoTrade} \cup Trade
    /\ trades \in Seq(ClosedTrade)
    /\ losses \in Nat /\ lastLoss \in Nat \cup {Never}
    /\ curve \in Seq(Int)
    /\ finished \in BOOLEAN

\* The balance before the k-th trade, rebuilt from the log.
BalanceBefore(k) == StartingBalance + SumFunction([j \in 1 .. k - 1 |-> trades[j].pnl])

\* A closed trade lost, before its costs, at most the risk it was opened with, whatever
\* the break-even and trailing stops did, and that risk was within the share of the
\* balance that the risk manager approved at that time, though the fill was worse than
\* the close it judged (core.py 177-193, 235-246, 269-289).
LossIsBudgeted ==
    \A k \in DOMAIN trades :
        /\ PnlBeforeCosts(trades[k]) >= -trades[k].risk
        /\ trades[k].risk <= RiskAmount(BalanceBefore(k))

\* Every trade, the open one included, that follows k - 1 others.
EntryTimes ==
    [k \in DOMAIN trades |-> trades[k].opened]
        \o (IF openTrade = NoTrade THEN <<>> ELSE <<openTrade.opened>>)

\* What the trades before the k-th realized on the day the k-th was opened.
RealizedThatDay(k) ==
    LET sameDay == {j \in 1 .. k - 1 : Day(trades[j].closed) = Day(EntryTimes[k])}
    IN SumFunction([j \in sameDay |-> trades[j].pnl])

\* Read off the log alone: no trade is opened on a day that has already realized its
\* maximum loss, or within the cooldown of a losing exit, over any sequence of candles
\* that crosses midnight or reopens on the candle of an exit (core.py 168-185).
LogObeysRiskRules ==
    \A k \in DOMAIN EntryTimes :
        /\ Hundred * RealizedThatDay(k) > -(BalanceBefore(k) * DailyLossPct)
        /\ k > 1 /\ trades[k - 1].pnl < 0 =>
                EntryTimes[k] >= trades[k - 1].closed + Cooldown

\* The report agrees with the money, though the last point of the curve is written twice
\* and a trade may be closed after the last candle: the trades add up to the balance the
\* curve ends with; the reported drawdown covers the loss of the whole run, and no run
\* that lost money gets a favourable verdict (core.py 207-212, 318-335, 387-392).
ReportMatchesMoney ==
    finished =>
        /\ NetPnl = balance - StartingBalance
        /\ curve[eventTime] = balance
        /\ MaxDrawdown >= StartingBalance - balance
        /\ balance <= StartingBalance => \A oos \in {"NONE", "LOSS", "WIN"} :
                                   Verdict(oos) \in {"NEEDS_MORE_DATA", "FAILED"}
=============================================================================
