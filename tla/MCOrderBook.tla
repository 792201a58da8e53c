------------------------------ MODULE MCOrderBook ------------------------------
(* The order book on a small instance: two ids, so that they are reused while *)
(* resting, three prices, and quantities whose level totals wrap.             *)
EXTENDS OrderBook, TLC

MCSymmetry == Permutations(Ids)
=============================================================================
