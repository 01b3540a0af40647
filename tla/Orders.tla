------------------------------- MODULE Orders -------------------------------
(* sorted(): a finite set as a sequence.  The order is a set of pairs, the first of which *)
(* comes before the second; the i-th of the sequence has i - 1 others before it.          *)
EXTENDS Integers, FiniteSets

Before(x, S, order) == {y \in S : <<y, x>> \in order}

InOrder(S, order) ==
  [i \in 1..Cardinality(S) |-> CHOOSE x \in S : Cardinality(Before(x, S, order)) = i - 1]

Ascending(S) == {p \in S \X S : p[1] < p[2]}
=============================================================================
