------------------------------ MODULE MCBacktest ------------------------------
(***************************************************************************)
(* An instance of Backtest for TLC: six candles around 20 and four orders, *)
(* with costs of 1 % each, so that a stop, a target, both in one candle, a *)
(* gap past the stop and a reversal that leaves the trailing stop behind   *)
(* the market all happen.                                                  *)
(***************************************************************************)
EXTENDS Backtest

Bar(o, h, l, c) == [open |-> o, high |-> h, low |-> l, close |-> c]

SixCandles ==
    {Bar(20, 21, 20, 20), Bar(20, 24, 20, 23), Bar(20, 24, 19, 20), Bar(20, 20, 17, 18),
     Bar(20, 28, 14, 20), Bar(15, 16, 14, 15)}

Order(side, stop, target) ==
    [side |-> side, stop |-> stop, target |-> target, breakEven |-> FALSE, trailing |-> 0,
     override |-> 0, makerFee |-> 0, quiet |-> TRUE]

FourOrders ==
    {[Order("LONG", 18, 26) EXCEPT !.breakEven = TRUE, !.trailing = 2],
     [Order("SHORT", 22, 15) EXCEPT !.trailing = 3],
     [Order("LONG", 18, 26) EXCEPT !.override = 19],
     [Order("LONG", 13, 20) EXCEPT !.quiet = FALSE]}
=============================================================================
