---------------------------- MODULE MCAIExecution ----------------------------
(***************************************************************************)
(* Instances of AIExecution for TLC: two decisions of the first scan and   *)
(* one of the second, on two symbols.                                      *)
(***************************************************************************)
EXTENDS AIExecution

CONSTANTS a1, b1, a2, A, B, w1

ThreeDecisions == {a1, b1, a2}
TwoScans       == {a1, a2}
TwoSymbols     == {A, B}
SymbolsOf      == [p \in Proposals |-> IF p = b1 THEN B ELSE A]
ScansOf        == [p \in Proposals |-> IF p = a2 THEN 2 ELSE 1]
OneWorker      == {w1}
=============================================================================
