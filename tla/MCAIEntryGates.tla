---------------------------- MODULE MCAIEntryGates ----------------------------
(***************************************************************************)
(* An instance of AIEntryGates for TLC: prices near 10000 ticks, fee rates *)
(* of 0.06 % and 0.30 %, a quote that moves by less and by more than the   *)
(* slippage allowance, a decision of each side that clears the gates with  *)
(* little to spare, and one that falls short of them by as little.         *)
(***************************************************************************)
EXTENDS AIEntryGates

ThreeQuotes ==
    {[bid |-> 9998, ask |-> 10000], [bid |-> 9999, ask |-> 10001],
     [bid |-> 10048, ask |-> 10050]}

ThreeDecisions ==
    {[side |-> "LONG",  stop |-> 19801, target |-> 20391],
     [side |-> "LONG",  stop |-> 19801, target |-> 20369],
     [side |-> "SHORT", stop |-> 20197, target |-> 19603]}
=============================================================================
