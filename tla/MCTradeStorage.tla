---------------------------- MODULE MCTradeStorage ----------------------------
(* The trade path with row groups and batches of two rows.                   *)
EXTENDS TradeStorage
=============================================================================
