------------------------------ MODULE MCDepthSync ------------------------------
(* The depth synchronisation with two price levels and five updates: levels   *)
(* are set twice in a row, alternately, and removed.                          *)
EXTENDS DepthSync

MCTouches == <<"a", "b", "b", "a", "b">>
=============================================================================
