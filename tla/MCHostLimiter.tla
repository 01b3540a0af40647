--------------------------- MODULE MCHostLimiter ---------------------------
(* Small instances of HostLimiter for TLC. *)
EXTENDS HostLimiter

\* lines of a robots.txt, and all texts of a few of them
Ln(key, val) == [key |-> key, val |-> val]
SomeLines ==
  {Ln("blank", <<>>), Ln("agent", Anyone), Ln("agent", "me"), Ln("disallow", <<>>),
   Ln("disallow", <<"/">>), Ln("allow", <<"/", "a">>), Ln("disallow", <<"/", "*", "b", "$">>),
   Ln("delay", 2), Ln("delay", NoNumber)}
SomeTexts == UNION {[1 .. n -> SomeLines] : n \in 0 .. 4}
SomePaths == {<<"/">>, <<"/", "a">>, <<"/", "a", "b">>}

\* one that allows both targets, slowly, and one that shuts one of them out
SlowText == <<Ln("agent", Anyone), Ln("disallow", <<"/">>), Ln("allow", <<"/", "a">>), Ln("delay", 2)>>
ClosedText == <<Ln("agent", "me"), Ln("agent", Anyone), Ln("delay", NoNumber), Ln("disallow", <<"/", "*", "b", "$">>)>>
TwoTexts == {SlowText, ClosedText}

CONSTANTS t1, t2
TwoPaths == t1 :> <<"/", "a">> @@ t2 :> <<"/", "a", "b">>
=============================================================================
