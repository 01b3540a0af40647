---------------------------- MODULE MCPollEngine ----------------------------
(* Small instances of PollEngine for TLC. *)
EXTENDS PollEngine, TLC

CONSTANTS o1, o2, k1, k2

\* two objects under two keys, or one object alone
TwoKeys == (o1 :> k1) @@ (o2 :> k2)
OnlyOne == o1 :> k1
=============================================================================
