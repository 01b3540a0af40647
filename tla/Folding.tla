------------------------------ MODULE Folding -------------------------------
(* A loop over a list that updates one value, as a function of how many     *)
(* elements it has taken.                                                   *)
EXTENDS Naturals, Sequences

Folded(Op(_, _), base, s) ==
  LET f[n \in 0 .. Len(s)] == IF n = 0 THEN base ELSE Op(f[n - 1], s[n])
  IN f[Len(s)]
=============================================================================
