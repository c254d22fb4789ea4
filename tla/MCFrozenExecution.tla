------------------------- MODULE MCFrozenExecution -------------------------
(* FrozenExecution with small sets for TLC. *)
EXTENDS FrozenExecution, TLC

CONSTANTS p1, p2, w1, w2, solusdt, ethusdt

OneProposal  == {p1}
TwoProposals == {p1, p2}
OneWorker    == {w1}
TwoWorkers   == {w1, w2}
TwoSymbols   == {solusdt, ethusdt}

\* All proposals on the first instrument, or each on its own.
SameSymbol      == [p \in Proposals |-> solusdt]
DistinctSymbols == [p \in Proposals |-> IF p = p1 THEN solusdt ELSE ethusdt]

\* Sound where all proposals trade one instrument.
IdentitySymmetry == Permutations(Workers) \cup Permutations(Proposals)
=============================================================================
