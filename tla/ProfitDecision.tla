---------------------------- MODULE ProfitDecision ----------------------------
(***************************************************************************)
(* The arithmetic of the local profit protector: evaluate_protection and   *)
(* the functions it calls (src/app/trading/profit_protector.py).           *)
(*                                                                         *)
(* Decimals become integers.  A price is counted in ticks, so rounding to  *)
(* the tick is rounding to an integer.  Money is counted in (tick *        *)
(* quantity) / CostDen, which makes costs exact, and the shares of a       *)
(* desired profit (0.75, 0.5, 0.3) in twentieths of that.  Ratios to the   *)
(* initial risk and to the peak are compared by cross-multiplication.      *)
(*                                                                         *)
(* t is a PositionSnapshot: side, entry, stop (of the approved proposal),  *)
(* qty, fee (paid at entry).  ATR and the reversal rule are functions of   *)
(* closed bars only; their values are inputs here.                         *)
(***************************************************************************)
EXTENDS Integers

CONSTANTS
    CostDen,            \* denominator of the cost rate
    CostNum,            \* (taker fee + slippage per leg) * CostDen
    WatchBuffer         \* PROFIT_WATCH_BUFFER_USDT

ASSUME CostAssumption ==
    /\ CostDen \in Nat \ {0}
    /\ CostNum \in 0 .. CostDen - 1
    /\ WatchBuffer \in Nat

NoStop == 0             \* stop_loss is None, or the exchange has no stop
NoAtr  == 0             \* fewer than fifteen closed bars

Larger(x, y)  == IF x >= y THEN x ELSE y
Smaller(x, y) == IF x <= y THEN x ELSE y

Distance(x, y) == IF x >= y THEN x - y ELSE y - x

Direction(t) == IF t.side = "Buy" THEN 1 ELSE -1

\* Moving one tick from price towards the position's profit.
NextTick(t, price) == price + Direction(t)

Tightens(t, proposed, confirmed) ==
    IF t.side = "Buy" THEN proposed > confirmed ELSE proposed < confirmed

Tighter(t, a, b) == IF Tightens(t, a, b) THEN a ELSE b

\* _round_protective of n / d: away from the market.
RoundProtective(t, n, d) ==
    IF t.side = "Buy" THEN n \div d ELSE -((-n) \div d)

CloseCost(t, price) == price * t.qty * CostNum

NetPnl(t, price) ==
    Direction(t) * (price - t.entry) * t.qty * CostDen - t.fee - CloseCost(t, price)

InitialRisk(t) ==
    Distance(t.entry, t.stop) * t.qty * CostDen + t.fee + CloseCost(t, t.stop)

\* Mutant: the exit costs are left out of the stop.
StopWithoutCloseCost(t, desired) ==
    LET gross == 20 * t.qty * t.entry * CostDen + Direction(t) * (desired + 20 * t.fee)
    IN  RoundProtective(t, gross, 20 * t.qty * CostDen)

\* The stop whose execution nets desired / 20: the cost depends on the stop itself.
StopForNetProfit(t, desired) ==
    LET gross == 20 * t.qty * t.entry * CostDen + Direction(t) * (desired + 20 * t.fee)
    IN  RoundProtective(t, gross, 20 * t.qty * (CostDen - Direction(t) * CostNum))

\* ATR trailing: twice the ATR in a volatile market, else one and a half times.
TrailingStop(t, price, atr) ==
    LET halves == IF 100 * atr >= price THEN 4 ELSE 3
    IN  RoundProtective(t, 2 * price - Direction(t) * halves * atr, 2)

\* Costs of the round trip plus the safety buffer.
MeaningfulProfit(t, price) == t.fee + CloseCost(t, price) + WatchBuffer

\* profit >= watch_floor
ReachesWatchFloor(t, price, profit) ==
    /\ 5 * profit >= InitialRisk(t)
    /\ profit >= MeaningfulProfit(t, price)

\* giveback >= percent, for a positive peak
GivesBack(peak, current, percent) ==
    peak > 0 /\ 100 * (peak - current) >= percent * peak

NoDecision == [action |-> "NONE", stop |-> NoStop]

\* The action and stop candidate before the monotonicity checks; the first rule that
\* applies decides.
Candidate(t, price, peak, stage, atr, reversal) ==
    LET current  == NetPnl(t, price)
        risk     == InitialRisk(t)
        protects == /\ ReachesWatchFloor(t, price, peak)
                    /\ current >= MeaningfulProfit(t, price)
                    /\ GivesBack(peak, current, 35)
        exits    == protects /\ GivesBack(peak, current, 50) /\ atr # NoAtr /\ reversal
        locked   == Tighter(t, TrailingStop(t, price, atr), StopForNetProfit(t, 6 * risk))
    IN  IF exits THEN [action |-> "EARLY_PROFIT_EXIT", stop |-> NoStop]
        ELSE IF protects
             THEN [action |-> "MFE_PROFIT_PROTECT",
                   stop   |-> StopForNetProfit(t, Smaller(15 * current, 10 * peak))]
        ELSE IF current >= risk /\ atr # NoAtr
             THEN [action |-> IF stage \in {"INITIAL", "BREAK_EVEN"}
                              THEN "PROFIT_LOCK" ELSE "TRAILING_UPDATE",
                   stop   |-> locked]
        ELSE IF 2 * current >= risk
             THEN [action |-> "BREAK_EVEN", stop |-> StopForNetProfit(t, 0)]
        ELSE IF stage = "INITIAL" /\ ReachesWatchFloor(t, price, current)
             THEN [action |-> "PROFIT_WATCH", stop |-> NoStop]
        ELSE NoDecision

StopActions == {"MFE_PROFIT_PROTECT", "PROFIT_LOCK", "TRAILING_UPDATE", "BREAK_EVEN"}

\* Never a stop already through the executable side of the market.
KeepBehindMarket(t, stop, price) ==
    LET ceiling == price - Direction(t)
    IN  IF t.side = "Buy" THEN Smaller(stop, ceiling) ELSE Larger(stop, ceiling)

\* evaluate_protection: price is the bid of a long, the ask of a short position.
Evaluate(t, price, confirmed, mfe, stage, atr, reversal) ==
    LET c == Candidate(t, price, Larger(mfe, NetPnl(t, price)), stage, atr, reversal)
        s == KeepBehindMarket(t, c.stop, price)
    IN  IF c.action \notin StopActions THEN c
        ELSE IF Tightens(t, c.stop, confirmed) /\ Tightens(t, s, confirmed)
             THEN [action |-> c.action, stop |-> s]
             ELSE NoDecision
=============================================================================
