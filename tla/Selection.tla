------------------------------- MODULE Selection ------------------------------
(***************************************************************************)
(* A list comprehension with a condition, and one dictionary over another.  *)
(* SelectSeq and the @@ of TLC say the same; the provers know nothing of    *)
(* them, and these definitions they can unfold.                             *)
(***************************************************************************)
EXTENDS Naturals, Sequences

(* The elements of s that are in S, in their order.                          *)
Select(s, S) ==
  LET kept[n \in 0 .. Len(s)] ==
        IF n = 0 THEN <<>>
        ELSE IF s[n] \in S THEN Append(kept[n - 1], s[n]) ELSE kept[n - 1]
  IN kept[Len(s)]

(* The entries of f, and those of g where f has none.                        *)
Over(f, g) ==
  [x \in DOMAIN f \cup DOMAIN g |-> IF x \in DOMAIN f THEN f[x] ELSE g[x]]
=============================================================================
