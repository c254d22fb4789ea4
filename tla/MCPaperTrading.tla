---------------------------- MODULE MCPaperTrading ----------------------------
(***************************************************************************)
(* An instance of PaperTrading for TLC: a long and a short symbol, and a   *)
(* second setup of the first, with prices on both sides of every level.    *)
(***************************************************************************)
EXTENDS PaperTrading

CONSTANTS s1, s2

TwoSymbols == <<s1, s2>>

ThreeSetups ==
    {[symbol |-> s1, side |-> "LONG", entry |-> 100, stop |-> 90, target |-> 130],
     [symbol |-> s1, side |-> "LONG", entry |-> 110, stop |-> 104, target |-> 125],
     [symbol |-> s2, side |-> "SHORT", entry |-> 100, stop |-> 110, target |-> 78]}
=============================================================================
