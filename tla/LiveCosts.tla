------------------------------ MODULE LiveCosts ------------------------------
(***************************************************************************)
(* The cost-aware gate shared by the AI preview and the exchange guard     *)
(* (src/app/trading/live_costs.py) and the levels it judges                *)
(* (_validated_levels of src/app/ai/live_trader.py).                       *)
(*                                                                         *)
(* Prices are whole ticks, a raw level of the model is a number of half    *)
(* ticks.  Every amount is per unit of quantity, which cancels in both     *)
(* comparisons, and is counted in ticks / Scale, so that a rate is an      *)
(* integer number of 1 / Scale.                                            *)
(***************************************************************************)
EXTENDS Integers

CONSTANTS
    Scale,              \* denominator of rates
    SlipRate            \* estimated_slippage_per_leg

ASSUME CostAssumption ==
    /\ Scale \in Nat \ {0}
    /\ SlipRate \in Nat

\* validate_taker_fee_rate: above zero, at most 1 %.
ValidRate(rate) == 0 < rate /\ 100 * rate <= Scale

Sign(side) == IF side = "LONG" THEN 1 ELSE -1

\* The executable entry: the ask of a LONG, the bid of a SHORT.
EntryAt(side, quote) == IF side = "LONG" THEN quote.ask ELSE quote.bid

(***************************************************************************)
(* Levels                                                                  *)
(***************************************************************************)
FloorTick(raw)   == raw \div 2
CeilingTick(raw) == (raw + 1) \div 2

\* Away from the entry: the stop and the target of either side move outwards.
Levels(d) ==
    [side   |-> d.side,
     stop   |-> IF d.side = "LONG" THEN FloorTick(d.stop) ELSE CeilingTick(d.stop),
     target |-> IF d.side = "LONG" THEN CeilingTick(d.target) ELSE FloorTick(d.target)]

\* On the right sides, no nearer than 0.1 % and two ticks, no farther than 10 %.
ValidLevels(l, entry) ==
    LET risk   == Sign(l.side) * (entry - l.stop)
        reward == Sign(l.side) * (l.target - entry)
    IN  \A distance \in {risk, reward} :
            /\ 1000 * distance >= entry /\ distance >= 2
            /\ 10 * distance <= entry

(***************************************************************************)
(* estimate_live_costs and require_cost_aware_edge                         *)
(***************************************************************************)

\* Mutant: only the entry pays a fee.
EntryFeeOnly(entry, exit, quote, rate) ==
    rate * entry + SlipRate * (entry + exit) + Scale * (quote.ask - quote.bid)

\* Fees of both legs, one more spread, slippage of both legs.
RoundTripCost(entry, exit, quote, rate) ==
    (rate + SlipRate) * (entry + exit) + Scale * (quote.ask - quote.bid)

LiveCostEstimate(l, quote, rate) ==
    LET entry  == EntryAt(l.side, quote)
        reward == Scale * Sign(l.side) * (l.target - entry)
        risk   == Scale * Sign(l.side) * (entry - l.stop)
    IN  [grossReward |-> reward,
         grossRisk   |-> risk,
         expectedCost |-> RoundTripCost(entry, l.target, quote, rate),
         netReward   |-> reward - RoundTripCost(entry, l.target, quote, rate),
         netRisk     |-> risk + RoundTripCost(entry, l.stop, quote, rate)]

\* The move covers 1.25 times its costs, and the NET reward 1.5 times the NET risk.
CostAwareEdge(l, quote, rate) ==
    LET costs == LiveCostEstimate(l, quote, rate)
    IN  /\ ValidRate(rate)
        /\ costs.grossReward > 0 /\ costs.grossRisk > 0
        /\ 4 * costs.grossReward >= 5 * costs.expectedCost
        /\ 2 * costs.netReward >= 3 * costs.netRisk
=============================================================================
