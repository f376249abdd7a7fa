---------------------------- MODULE MCTradeBook ----------------------------
(* Small instances of TradeBook: two orders, each on an asset of its own.   *)
EXTENDS TradeBook, TLC

CONSTANTS o1, o2, eur, gbp

TwoAssets == (o1 :> eur) @@ (o2 :> gbp)

===========================================================================
