----------------------------- MODULE MCLiveSession -----------------------------
(* The slow parameters count the orders of the last two units of time, the    *)
(* fast ones and the default those of the last.                               *)
EXTENDS LiveBacktest

CONSTANTS slow, fast, t1, t2, crossed

MCTops == {t1, t2, crossed}
MCCrossed == {crossed}
MCSymmetry == Permutations({t1, t2})

(* Every account that is not short has lost max_drawdown.                     *)
MCDrawdowns == (0 .. MaxEvents) \X {t1, t2}

MCParams == {slow, fast}
MCWindow == [p \in MCParams \cup {Default} |-> IF p = slow THEN 1 ELSE 0]
=============================================================================
