---------------------------- MODULE ProposalIds ----------------------------
(***************************************************************************)
(* What the database and the exchange agree on: the identity of one        *)
(* intended entry.  A proposal's id determines its client order id         *)
(* (ManualExecutionPreview.client_order_id, sent to Bybit as orderLinkId)  *)
(* and its preview fixes the symbol it trades.                             *)
(***************************************************************************)
EXTENDS Naturals, FiniteSets

CONSTANTS
    Proposals,          \* proposal ids
    Symbols,            \* ALLOWED_SCANNER_SYMBOLS
    SymbolOf            \* the symbol of each proposal's preview

ASSUME IdentityAssumption ==
    /\ SymbolOf \in [Proposals -> Symbols]
    /\ IsFiniteSet(Proposals)
=============================================================================
