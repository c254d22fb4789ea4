-------------------------- MODULE MCProfitProtector --------------------------
(***************************************************************************)
(* Instances of ProfitProtector for TLC.  With a cost rate of 1 % and an   *)
(* entry at 100 ticks, a long position nets +0.2R at 105, +0.5R at 108 and *)
(* +1R at 115; a short position mirrors it.                                *)
(***************************************************************************)
EXTENDS ProfitProtector

CONSTANTS e1, e2

OneEntry   == {e1}
TwoEntries == {e1, e2}

Long  == [side |-> "Buy",  entry |-> 100, stop |-> 90,  qty |-> 1, fee |-> 100]
Short == [side |-> "Sell", entry |-> 100, stop |-> 110, qty |-> 1, fee |-> 100]

BothSides == {Long, Short}
LongOnly  == {Long}

\* +0.5R and +1R of a long position, +0.5R of a short one, and the price one falls back to.
SlotPrices == {92, 104, 108, 115}

HalfRPrices == {110}
=============================================================================
