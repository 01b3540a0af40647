----------------------------- MODULE ChangeFeed -----------------------------
(***************************************************************************)
(* What the engine promises to whoever supplied on_change: per target, a   *)
(* sequence of calls in which two consecutive calls never carry the same   *)
(* fingerprint.  `fired` is the last fingerprint delivered, `bell` is      *)
(* toggled by every call, so that a call repeating `fired` is still a step.*)
(***************************************************************************)
CONSTANTS Objects, Versions, NoFp
VARIABLES fired, bell

Init ==
  /\ fired = [o \in Objects |-> NoFp]
  /\ bell = [o \in Objects |-> FALSE]

Deliver(o, v) ==
  /\ v # fired[o]
  /\ fired' = [fired EXCEPT ![o] = v]
  /\ bell' = [bell EXCEPT ![o] = ~@]

Next == \E o \in Objects, v \in Versions : Deliver(o, v)

Spec == Init /\ [][Next]_<<fired, bell>>
=============================================================================
