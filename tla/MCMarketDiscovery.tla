-------------------------- MODULE MCMarketDiscovery --------------------------
(* MarketDiscovery with one core and four other symbols in two listings. *)
EXTENDS MarketDiscovery

Flat(v)  == [c \in DOMAIN Weight |-> v]
Market(turnover, spread, component) ==
    [trading |-> TRUE, bid |-> 5, ask |-> 5 + spread, spread |-> spread,
     turnover |-> turnover, minNotional |-> 1, component |-> component]

CoreSymbols == {1}

\* The second listing ranks other symbols, with a score more than a fifth
\* higher; symbol 5 is not eligible in the first one, symbol 2 not in the
\* second one.
TwoListings ==
    { << Market(9, 1, Flat(9)), Market(8, 1, Flat(5)), Market(7, 1, Flat(4)),
         Market(7, 1, [Flat(4) EXCEPT !.trend = 2]), Market(1, 1, Flat(10)) >>,
      << Market(9, 1, Flat(9)), [Market(8, 1, Flat(9)) EXCEPT !.trading = FALSE],
         Market(7, 1, Flat(5)), Market(6, 1, Flat(12)), Market(6, 2, Flat(11)) >> }
=============================================================================
