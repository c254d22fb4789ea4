------------------------------ MODULE RiskSizing ------------------------------
(***************************************************************************)
(* The arithmetic of the controlled-live risk rules: what an open position *)
(* can still lose, what is left of the day's loss allowance, and the size  *)
(* of a new order (src/app/trading/controlled_live.py,                     *)
(* multi_symbol_scanner.py, first_live_proposal.py and the guard's part in *)
(* src/app/exchanges/bybit_v5_gateway.py).                                 *)
(*                                                                         *)
(* Rates are whole hundredths.  A price is an integer; an amount of money  *)
(* is price * size * Hundred, so that fees and slippage stay exact.        *)
(***************************************************************************)
EXTENDS Integers, Sequences, FiniteSetsExt, SequencesExt

CONSTANTS
    Symbols,            \* SCANNER_CONFIG.symbols
    NoPosition,         \* no open position of a symbol
    MaxPositions,       \* CONTROLLED_LIVE_V1.max_positions
    RiskPct,            \* risk_per_trade_pct, in hundredths
    DailyMax,           \* daily_max_loss_usdt
    ExperimentLimit,    \* total_experiment_loss_limit
    MaxLosses,          \* max_consecutive_losses
    MaxNotional,        \* the notional cap of one order
    FeeRate,            \* BYBIT_TAKER_FEE_RATE, in hundredths
    SlipRate,           \* estimated_slippage_per_leg, in hundredths
    MaxSpread,          \* maximum_spread_pct, in hundredths
    MinTurnover,        \* minimum_turnover_24h
    Leverage,           \* leverage
    SignalThreshold,    \* signal_threshold
    Tick                \* tick size of every instrument

ASSUME RiskAssumption ==
    /\ {MaxPositions, DailyMax, ExperimentLimit, MaxLosses, MaxNotional} \subseteq Nat
    /\ {RiskPct, FeeRate, SlipRate, MaxSpread, MinTurnover, SignalThreshold} \subseteq Nat
    /\ {Leverage, Tick} \subseteq Nat \ {0}
    /\ FeeRate + SlipRate <= 100
    /\ IsFiniteSet(Symbols)

Hundred == 100

\* ControlledLiveProfile, as far as the rules below use it; minimum_risk_reward is 3:2.
MeetsRiskReward(reward, risk) == risk > 0 /\ 2 * reward >= 3 * risk

\* ScannerInstrument: what the public reads say of a symbol.
Instrument ==
    [trading : BOOLEAN, bid : Nat, ask : Nat, step : Nat, minQuantity : Nat,
     minNotional : Nat, turnover : Nat]

\* _unavailable_instrument
Unavailable ==
    [trading |-> FALSE, bid |-> 0, ask |-> 0, step |-> 0, minQuantity |-> 0,
     minNotional |-> 0, turnover |-> 0]

CeilStep(value, step) == ((value + step - 1) \div step) * step

\* The smallest order the exchange accepts, in money.
ActualMinimum(i) ==
    LET unit == i.ask * Hundred
        units == (i.minNotional + unit - 1) \div unit
    IN Max({i.minQuantity, CeilStep(units, i.step)}) * unit

\* _parse_instrument: no reason to exclude the symbol.
Eligible(i) ==
    /\ i.trading
    /\ i.bid > 0 /\ i.ask >= i.bid /\ i.step > 0
    /\ ActualMinimum(i) <= MaxNotional
    /\ i.turnover >= MinTurnover
    /\ 2 * Hundred * (i.ask - i.bid) <= MaxSpread * (i.ask + i.bid)

(***************************************************************************)
(* Open positions and the day's executions                                 *)
(***************************************************************************)

Side == {"BUY", "SELL"}

PositionRow == [side : Side, size : Nat, entry : Nat, stop : Nat, target : Nat]

ASSUME NoPositionAssumption == NoPosition \notin PositionRow

\* The native levels lie on the two sides of the entry.
Ordered(side, stop, entry, target) ==
    IF side = "BUY" THEN stop < entry /\ entry < target
    ELSE target < entry /\ entry < stop

\* The loss per unit between two prices, negative for a gain.
Adverse(side, from, to) == IF side = "BUY" THEN from - to ELSE to - from

\* Price loss to the native stop plus the cost of leaving there.
StopRisk(p) ==
    p.size * (Adverse(p.side, p.entry, p.stop) * Hundred + p.stop * (FeeRate + SlipRate))

\* _open_positions_planned_risk raises unless every position has valid protection.
ProtectionValid(ps) ==
    \A s \in Symbols : ps[s] # NoPosition =>
        Ordered(ps[s].side, ps[s].stop, ps[s].entry, ps[s].target)

\* _open_positions_planned_risk
OpenPlannedRisk(ps) ==
    SumFunction([s \in {o \in Symbols : ps[o] # NoPosition} |-> StopRisk(ps[s])])

\* The day's executions, oldest first; one per order.
ExecutionRow == [pnl : Int, fee : Nat]

\* execPnl less the fee
OrderResult(x) == x.pnl - x.fee

DayPnl(xs) == SumFunction([i \in DOMAIN xs |-> OrderResult(xs[i])])

\* How many of these orders of xs, from the last one back, had negative results.
LosingRun(xs, orders) ==
    Cardinality({i \in orders : \A j \in orders : j >= i => OrderResult(xs[j]) < 0})

\* The reader's count: every order of the day, entries with their fee included.
ScannerLosses(xs) == LosingRun(xs, DOMAIN xs)

\* _closed_order_results and the guard's count: orders with a realized result only.
GuardLosses(xs) == LosingRun(xs, {i \in DOMAIN xs : xs[i].pnl # 0})

(***************************************************************************)
(* The budget and the size of an order                                     *)
(***************************************************************************)

\* realized_daily_loss
RealizedDailyLoss(pnl) == Max({0, -pnl})

\* remaining_daily_risk_budget
RemainingDailyBudget(risk) ==
    Max({0, DailyMax - RealizedDailyLoss(risk.pnl) - risk.planned})

\* _round_tick and _native_levels: towards the entry for the stop, away from it for
\* the target.
NativeLevels(side, stop, target) ==
    LET down(v) == (v \div Tick) * Tick
    IN IF side = "BUY" THEN [stop |-> CeilStep(stop, Tick), target |-> CeilStep(target, Tick)]
       ELSE [stop |-> down(stop), target |-> down(target)]

\* _native_levels raises unless the fresh quote keeps the geometry and the ratio.
LevelsValid(side, entry, l) ==
    /\ Ordered(side, l.stop, entry, l.target)
    /\ MeetsRiskReward(Adverse(side, l.target, entry), Adverse(side, entry, l.stop))

\* _risk_rejection
RiskAllows(risk) ==
    /\ risk.equity > 0 /\ risk.available >= 0
    /\ risk.open < MaxPositions
    /\ RemainingDailyBudget(risk) > 0
    /\ risk.experiment - risk.equity < ExperimentLimit
    /\ risk.losses < MaxLosses

\* The loss of one unit that is stopped out, both fees and slippages included.
UnitLoss(side, entry, stop) ==
    Adverse(side, entry, stop) * Hundred + (entry + stop) * (FeeRate + SlipRate)

\* build_manual_preview: the smaller of the per-trade cap and the rest of the day.
RiskBudget(risk) ==
    Min({(risk.equity * RiskPct) \div Hundred, RemainingDailyBudget(risk)})

\* build_manual_preview: the quantity, rounded down to the step.
PreviewQuantity(side, entry, stop, i, risk) ==
    LET byRisk == RiskBudget(risk) \div UnitLoss(side, entry, stop)
        byCap  == MaxNotional \div (entry * Hundred)
    IN (Min({byRisk, byCap}) \div i.step) * i.step

\* build_manual_preview: the checks of the sized order.
PreviewExecutable(quantity, side, entry, stop, i, risk) ==
    LET notional == quantity * entry * Hundred
        loss == quantity * UnitLoss(side, entry, stop)
    IN /\ quantity >= i.minQuantity
       /\ notional >= i.minNotional /\ notional <= MaxNotional
       /\ loss <= RiskBudget(risk)
       /\ RealizedDailyLoss(risk.pnl) + risk.planned + loss <= DailyMax
       /\ notional + Leverage * quantity * (entry + stop) * FeeRate
            <= Leverage * risk.available

=============================================================================
