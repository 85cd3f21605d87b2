--------------------------- MODULE MCMarketEngine ---------------------------
(***************************************************************************)
(* A market before its first feed, one whose margin positions are safe,    *)
(* and the same after the feed fell below their call prices.               *)
(***************************************************************************)
EXTENDS MarketEngine

FreshBook ==
    [balances |-> [o \in Owners |-> [XTS |-> 9, USD |-> 0]],
     covers |-> <<>>, feed |-> NoFeed]

GrownBook(feed) ==
    [balances |-> [o \in Owners |-> [XTS |-> 9, USD |-> IF o = 1 THEN 5 ELSE 0]],
     covers |-> [k \in {<<6, 2>>, <<12, 1>>} |->
                    IF k = <<6, 2>>
                    THEN [collateral |-> 12, payoff |-> 4, rate |-> 6, expiration |-> 2]
                    ELSE [collateral |-> 2, payoff |-> 1, rate |-> 6, expiration |-> 1]],
     feed |-> feed]

MCBooks == {FreshBook, GrownBook(12), GrownBook(3)}
=============================================================================
