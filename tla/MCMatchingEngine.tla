--------------------------- MODULE MCMatchingEngine ---------------------------
(* Four calls, two ids that are reused, two prices; callbacks two deep.       *)
EXTENDS MatchingEngine, TLC

MCSymmetry == Permutations(Ids)
=============================================================================
