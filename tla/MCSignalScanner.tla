--------------------------- MODULE MCSignalScanner ---------------------------
(* Two symbols, one with long and one with short signals; a tight quote of    *)
(* 20.00 and one too wide for the guard, levels rounded to ticks of 2.00, and *)
(* fees and slippage of one hundredth per leg.                                *)
EXTENDS SignalScanner

CONSTANTS s1, s2

MCSymbols == {s1, s2}
MCSymbolOrder == <<s1, s2>>

Long  == [decision |-> "LONG", score |-> 80, stop |-> 1750, target |-> 2500]
Short == [decision |-> "SHORT", score |-> 80, stop |-> 2250, target |-> 1500]

MCStrategy == (s1 :> {Long}) @@ (s2 :> {Short})

Quote(bid, ask) ==
    [trading |-> TRUE, bid |-> bid, ask |-> ask, step |-> 1, minQuantity |-> 1,
     minNotional |-> 100000, turnover |-> 10]

MCQuotes == {Quote(2000, 2000), Quote(1900, 2000)}
MCUnrealised == {0}
=============================================================================
