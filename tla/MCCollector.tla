------------------------------ MODULE MCCollector ------------------------------
(* The depth path over two prices: levels on both sides, changed two at a    *)
(* time, so that a side moves through the other's old levels.                 *)
EXTENDS Collector

MCPrices == 1 .. 2
MCTick == [p \in MCPrices |-> 10 * p]
=============================================================================
