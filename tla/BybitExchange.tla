---------------------------- MODULE BybitExchange ----------------------------
(***************************************************************************)
(* Bybit as the gateway of src/app/exchanges/bybit_v5_gateway.py uses it   *)
(* (external).  An entry request is a Market IOC order with a unique       *)
(* orderLinkId: once posted it may stay on the wire, be refused by the     *)
(* API (retCode # 0) or be accepted; an accepted order fills completely,   *)
(* fills partly, or ends without a fill.  A fill opens a position that has *)
(* no stop until /v5/position/trading-stop sets one.                       *)
(***************************************************************************)
EXTENDS ProposalIds

VARIABLES
    order,              \* the entry order with this orderLinkId
    posts,              \* how many entry POSTs have been sent with it
    position,           \* the position its fill opened
    protected           \* native SL and TP are set on that position

exchangeVars == <<order, posts, position, protected>>

OrderStatus ==
    {"NONE", "SENT", "REFUSED", "NEW", "FILLED", "PARTIAL", "CANCELLED", "REJECTED"}

PositionStatus == {"NONE", "OPEN", "CLOSED"}

ExchangeTypeOK ==
    /\ order     \in [Proposals -> OrderStatus]
    /\ posts     \in [Proposals -> Nat]
    /\ position  \in [Proposals -> PositionStatus]
    /\ protected \in [Proposals -> BOOLEAN]

ExchangeInit ==
    /\ order     = [p \in Proposals |-> "NONE"]
    /\ posts     = [p \in Proposals |-> 0]
    /\ position  = [p \in Proposals |-> "NONE"]
    /\ protected = [p \in Proposals |-> FALSE]

(***************************************************************************)
(* What the GET endpoints answer                                           *)
(***************************************************************************)
OpenPositions == {p \in Proposals : position[p] = "OPEN"}

PendingEntries == {p \in Proposals : order[p] = "NEW"}

SymbolHasPosition(p) == \E q \in OpenPositions : SymbolOf[q] = SymbolOf[p]

\* /v5/order/realtime and /v5/order/history know the orderLinkId.
OrderVisible(p) == order[p] \notin {"NONE", "SENT", "REFUSED"}

(***************************************************************************)
(* Requests of the gateway                                                 *)
(***************************************************************************)

\* POST /v5/order/create leaves the client.  A second one with the same
\* orderLinkId would be counted; the exchange has only the first.
PostCreate(p) ==
    /\ posts' = [posts EXCEPT ![p] = @ + 1]
    /\ order' = [order EXCEPT ![p] = IF @ = "NONE" THEN "SENT" ELSE @]
    /\ UNCHANGED <<position, protected>>

\* POST /v5/position/trading-stop reaches the exchange; it needs a position.
SetTradingStop(p) ==
    /\ position[p] = "OPEN"
    /\ protected' = [protected EXCEPT ![p] = TRUE]
    /\ UNCHANGED <<order, posts, position>>

(***************************************************************************)
(* The exchange's own steps                                                *)
(***************************************************************************)

\* The create request arrives: accepted or refused.
CreateArrives(p) ==
    /\ order[p] = "SENT"
    /\ \E s \in {"NEW", "REFUSED"} : order' = [order EXCEPT ![p] = s]
    /\ UNCHANGED <<posts, position, protected>>

OrderFills(p) ==
    /\ order[p] = "NEW"
    /\ \E s \in {"FILLED", "PARTIAL"} : order' = [order EXCEPT ![p] = s]
    /\ position' = [position EXCEPT ![p] = "OPEN"]
    /\ UNCHANGED <<posts, protected>>

OrderEndsUnfilled(p) ==
    /\ order[p] = "NEW"
    /\ \E s \in {"CANCELLED", "REJECTED"} : order' = [order EXCEPT ![p] = s]
    /\ UNCHANGED <<posts, position, protected>>

\* Native SL or TP triggers, an accepted reduce-only close executes, the
\* position is liquidated or the account holder closes it by hand.
PositionCloses(p) ==
    /\ position[p] = "OPEN"
    /\ position'  = [position EXCEPT ![p] = "CLOSED"]
    /\ protected' = [protected EXCEPT ![p] = FALSE]
    /\ UNCHANGED <<order, posts>>

ExchangeStep(p) ==
    \/ CreateArrives(p)
    \/ OrderFills(p)
    \/ OrderEndsUnfilled(p)
    \/ PositionCloses(p)
=============================================================================
