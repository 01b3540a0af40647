-------------------------- MODULE MCFetchBackends --------------------------
(* Small instances of FetchBackends for TLC. *)
EXTENDS FetchBackends

CONSTANTS u1, u2

\* load until exhausted; go elsewhere and click until max_clicks; something that raises
SomeRecipes ==
  {<<[action |-> "load_more", results |-> TRUE]>>,
   <<[action |-> "goto", url |-> u2], [action |-> "load_more", results |-> FALSE]>>}
=============================================================================
