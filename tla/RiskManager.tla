----------------------------- MODULE RiskManager -----------------------------
(***************************************************************************)
(* The authorization point of every simulated trade and the protective     *)
(* exits (src/app/risk/manager.py, src/app/trading/positions.py,           *)
(* src/app/domain/models.py), shared by the backtest engine and the paper  *)
(* broker.                                                                 *)
(*                                                                         *)
(* Rates are whole hundredths.  A quantity is a number of lots, the        *)
(* 0.000001 of the code.  An amount of money is price * lots * Unit; Cent  *)
(* is the 0.01 of the code in that measure.                                *)
(***************************************************************************)
EXTENDS Integers, FiniteSetsExt

CONSTANTS
    Unit,           \* money per price unit and lot
    Cent,           \* money in one hundredth of a dollar
    RiskPct,        \* RiskProfile.risk_per_trade_pct
    MaxNotional,    \* max_position_notional
    MaxLeverage,    \* max_leverage
    MaxConcurrent,  \* max_concurrent_positions
    DailyLossPct,   \* max_daily_loss_pct
    MinRiskReward,  \* min_risk_reward
    MaxLosses,      \* max_consecutive_losses
    FeeRate,        \* taker fee of both simulators
    SlipRate        \* slippage of both simulators

ASSUME ProfileAssumption ==
    /\ {Unit, Cent} \subseteq Nat \ {0}
    /\ {RiskPct, MaxNotional, MaxLeverage, MaxConcurrent, DailyLossPct, MinRiskReward,
        MaxLosses, FeeRate, SlipRate} \subseteq Nat

Hundred == 100

Side == {"LONG", "SHORT"}

Sign(side) == IF side = "LONG" THEN 1 ELSE -1

\* Decimal.quantize: n / d to the nearest integer, a tie to the even one.
RoundHalfEven(n, d) ==
    LET q == n \div d
        r == 2 * (n % d)
    IN IF r > d \/ (r = d /\ q % 2 = 1) THEN q + 1 ELSE q

\* n is a TradeIntent; its filters of volatility and spread are one Boolean, quiet.
PerUnitRisk(n) == Sign(n.side) * (n.entry - n.stop)

PerUnitReward(n) == Sign(n.side) * (n.target - n.entry)

\* The day's realized loss has used up its share of the equity.
DailyLimitReached(n) == Hundred * n.daily <= -(n.equity * DailyLossPct)

\* RiskManager.approve up to the sizing.
Admissible(n) ==
    /\ n.equity > 0 /\ n.entry > 0
    /\ n.open < MaxConcurrent
    /\ n.leverage <= MaxLeverage
    /\ n.losses < MaxLosses
    /\ ~n.cooldown
    /\ n.quiet
    /\ ~DailyLimitReached(n)
    /\ PerUnitRisk(n) > 0
    /\ PerUnitReward(n) >= MinRiskReward * PerUnitRisk(n)

RiskAmount(equity) == RoundHalfEven(equity * RiskPct, Hundred * Cent) * Cent

ApprovedQuantity(n) ==
    Min({RiskAmount(n.equity) \div (PerUnitRisk(n) * Unit),
         MaxNotional \div (n.entry * Unit),
         (n.equity * n.leverage) \div (n.entry * Unit),
         (n.available * n.leverage) \div (n.entry * Unit)})

Approved(n) == Admissible(n) /\ ApprovedQuantity(n) > 0

(***************************************************************************)
(* Protective exits                                                        *)
(***************************************************************************)

\* resolve_candle_exit and on_price: is the level behind the market?  A single price
\* is a candle whose high and low are that price.
StopHit(side, stop, high, low) == IF side = "LONG" THEN low <= stop ELSE high >= stop

TargetHit(side, target, high, low) ==
    IF side = "LONG" THEN high >= target ELSE low <= target

\* The nearer of two stops to the market: a stop only tightens.
Tighter(side, a, b) == IF side = "LONG" THEN Max({a, b}) ELSE Min({a, b})
=============================================================================
