--------------------------- MODULE MCTradingLoop ----------------------------
(* TradingLoop for TLC: two strategies, one of each kind, two markets.     *)
EXTENDS TradingLoop

TwoMarkets == <<"m1", "m2">>
ThreePolls == {<<"UP", 1>>, <<"UP", 7>>, <<"DOWN", 5>>}
=============================================================================
