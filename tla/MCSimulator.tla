----------------------------- MODULE MCSimulator -----------------------------
(* An instance of the paper exchange for TLC: three ticks, orders of two lots. *)
EXTENDS Simulator

MCPrices == 1 .. 3
=============================================================================
