-------------------------- MODULE MCMultiExchange --------------------------
(* MultiExchange with two callers, a reused id and a reducing order. *)
EXTENDS MultiExchange

CONSTANTS c1, c2, id1, id2

TwoCallers == {c1, c2}
TwoIds     == {id1, id2}
Groups     == [btc |-> "MAJOR", eth |-> "MAJOR"]

Order(i, q, s, reduce) == [id |-> i, qty |-> q, symbol |-> s, reduce |-> reduce]
Orders == {Order(id1, 3, "btc", FALSE), Order(id1, 2, "eth", FALSE),
           Order(id2, 2, "eth", FALSE), Order(id2, 2, "eth", TRUE)}
=============================================================================
