------------------------------ MODULE EntryGuard ------------------------------
(***************************************************************************)
(* What BybitV5OrderGateway.submit_market and the guard it calls,          *)
(* ProductionMutationGuard.authorize, insist on before an entry request    *)
(* leaves (src/app/exchanges/bybit_v5_gateway.py).  Each stage is a        *)
(* separate read; time passes between them.  Both execution paths, the     *)
(* administrator-approved one and the AI trader's, go through it.          *)
(***************************************************************************)
EXTENDS ControlledLive, BybitExchange

CONSTANT MaxPositions   \* CONTROLLED_LIVE_V1.max_positions

\* Mutant: one position too many.
PositionCapacityOffByOne == Cardinality(OpenPositions) <= MaxPositions

\* The account has fewer positions than the profile allows.
PositionCapacity == Cardinality(OpenPositions) < MaxPositions

\* No open position has the entry's symbol.
SymbolFree(p) == ~SymbolHasPosition(p)

\* The steps of submit_market before the create request, in their order; BLOCKED
\* after the guard has tripped the kill switch.
SubmitStage == {"PREPARE", "AUTHORIZE", "POSITIONS", "ORDERS", "BLOCKED"}

\* No order with this id, then authorize for CREATE in the order of its reads.
StagePasses(stage, p) ==
    CASE stage = "PREPARE"   -> ~OrderVisible(p)
      [] stage = "AUTHORIZE" -> PersistentChecks(p) /\ ~killSwitch
      [] stage = "POSITIONS" -> PositionCapacity /\ SymbolFree(p)
      [] stage = "ORDERS"    -> PendingEntries = {}
      [] OTHER               -> FALSE

AfterStage ==
    [s \in SubmitStage |->
        CASE s = "PREPARE"   -> "AUTHORIZE"
          [] s = "AUTHORIZE" -> "POSITIONS"
          [] s = "POSITIONS" -> "ORDERS"
          [] s = "ORDERS"    -> "CREATE"
          [] OTHER           -> "BLOCKED"]

(***************************************************************************)
(* Promises of both paths                                                  *)
(***************************************************************************)

\* A deterministic client order id is posted at most once, whatever crashes,
\* restarts, overlapping workers and unknown outcomes do ("automatic retry is
\* forbidden", execute_first_order).
AtMostOneEntry == \A p \in Proposals : posts[p] <= 1

\* The ledger never claims more safety than there is: a row REJECTED has nothing
\* on the wire, in the book or open; a row FILLED_PROTECTED whose position is
\* open has its native stop.  mark_rejected and mark_protected release the entry
\* lock on the strength of this.
LedgerNeverFlatters ==
    \A p \in Proposals :
        /\ ledger[p] = "REJECTED" => /\ order[p] \in {"NONE", "REFUSED", "REJECTED"}
                                     /\ position[p] = "NONE"
        /\ ledger[p] = "FILLED_PROTECTED" /\ position[p] = "OPEN" => protected[p]
=============================================================================
