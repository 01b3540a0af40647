------------------------------- MODULE Robots -------------------------------
(***************************************************************************)
(* RobotsPolicy (ujin/robots.py): the groups a robots.txt is read into,    *)
(* and what they say of a path.                                            *)
(*                                                                         *)
(* A line is [key, val]: key "blank" (a comment is blank too), "agent",    *)
(* "allow", "disallow", "delay" or "other".  A path is a sequence of       *)
(* characters, a pattern one that may hold "*" and end in "$".  A delay is *)
(* a number, or NoNumber when the text is none.                            *)
(***************************************************************************)
EXTENDS Integers, Sequences, FiniteSets, SequencesExt, Folding, TLC

CONSTANTS Anyone, NoNumber, NoDelay

ASSUME NumberAssumption == NoNumber \notin Int /\ NoDelay \notin Int \cup {NoNumber}

\* texts that are read: any lines, a pattern being a sequence
Keys == {"blank", "agent", "allow", "disallow", "delay", "other"}
IsText(text) ==
  /\ text \in Seq({text[k] : k \in DOMAIN text})
  /\ \A k \in DOMAIN text :
       /\ text[k].key \in Keys
       /\ text[k].key \in {"allow", "disallow"} => Len(text[k].val) \in Nat
       /\ text[k].key = "delay" => text[k].val \in Int \cup {NoNumber}

\* the lines before the first
Unread == [agents |-> {}, inDirectives |-> FALSE, rules |-> <<>>, delays |-> <<>>]

Having(f, keys) == [k \in keys \cup DOMAIN f |-> IF k \in DOMAIN f THEN f[k] ELSE <<>>]

\* MUTANT: a directive does not end the run of user-agent lines
AgentLineJoins(st, agent) ==
  [st EXCEPT !.agents = @ \cup {agent}, !.inDirectives = FALSE, !.rules = Having(@, {agent})]

\* a user-agent line after a directive starts a group
AgentLine(st, agent) ==
  [st EXCEPT !.agents = IF st.inDirectives THEN {agent} ELSE @ \cup {agent},
             !.inDirectives = FALSE, !.rules = Having(@, {agent})]

\* a rule of every agent of the group
RuleLine(st, allow, pattern) ==
  [st EXCEPT !.inDirectives = TRUE,
     !.rules = [a \in DOMAIN @ |-> IF a \in st.agents THEN Append(@[a], [allow |-> allow, pattern |-> pattern])
                                   ELSE @[a]]]

ReadLine(st, line) ==
  CASE line.key = "blank" -> [st EXCEPT !.agents = {}, !.inDirectives = FALSE]
    [] line.key = "agent" -> AgentLine(st, line.val)
    [] line.key = "allow" /\ st.agents # {} -> RuleLine(st, TRUE, line.val)
    [] line.key = "disallow" /\ st.agents # {} ->
         IF line.val = <<>> THEN [st EXCEPT !.inDirectives = TRUE] ELSE RuleLine(st, FALSE, line.val)
    [] line.key = "delay" /\ st.agents # {} ->
         [st EXCEPT !.inDirectives = TRUE,
                    !.delays = IF line.val = NoNumber THEN @
                               ELSE [a \in st.agents \cup DOMAIN @ |-> IF a \in st.agents THEN line.val ELSE @[a]]]
    [] OTHER -> st

Parse(text) == Folded(ReadLine, Unread, text)

-----------------------------------------------------------------------------
\* how far into the path a pattern may have got, one character later
Further(ends, c, path) ==
  IF c = "*" THEN {i \in 0 .. Len(path) : \E e \in ends : e <= i}
  ELSE {i + 1 : i \in {e \in ends : e < Len(path) /\ path[e + 1] = c}}

\* _match
Hits(pattern, path) ==
  LET anchored == pattern # <<>> /\ pattern[Len(pattern)] = "$"
      core == IF anchored THEN SubSeq(pattern, 1, Len(pattern) - 1) ELSE pattern
      ends == FoldLeft(LAMBDA e, c : Further(e, c, path), {0}, core)
  IN IF anchored THEN Len(path) \in ends ELSE ends # {}

\* the rules of the agent's own group, or else of everyone's
RulesFor(policy, agent) ==
  CASE agent \in DOMAIN policy.rules -> policy.rules[agent]
    [] agent \notin DOMAIN policy.rules /\ Anyone \in DOMAIN policy.rules -> policy.rules[Anyone]
    [] OTHER -> <<>>

\* the longest pattern that hits decides, the first of them
IsAllowed(policy, path, agent) ==
  LET rules == RulesFor(policy, agent)
      hits == {i \in DOMAIN rules : Hits(rules[i].pattern, path)}
      best == {i \in hits : \A k \in hits :
                 \/ Len(rules[k].pattern) < Len(rules[i].pattern)
                 \/ Len(rules[k].pattern) = Len(rules[i].pattern) /\ i <= k}
  IN \A i \in best : rules[i].allow

CrawlDelay(policy, agent) ==
  CASE agent \in DOMAIN policy.delays -> policy.delays[agent]
    [] agent \notin DOMAIN policy.delays /\ Anyone \in DOMAIN policy.delays -> policy.delays[Anyone]
    [] OTHER -> NoDelay

-----------------------------------------------------------------------------
(* What the lines mean, without reading them in order *)

Directives == {"allow", "disallow", "delay"}

\* the n-th line is a directive for the agent: a user-agent line above names it, in the same
\* group, with no blank line nor a directive followed by another user-agent line in between
AppliesTo(text, n, agent) ==
  /\ text[n].key \in Directives
  /\ \E k \in 1 .. n - 1 :
       /\ text[k].key = "agent" /\ text[k].val = agent
       /\ \A i \in k .. n : text[i].key # "blank"
       /\ \A i \in k .. n, j \in k .. n : i < j /\ text[i].key \in Directives => text[j].key # "agent"

Named(text, agent) == \E n \in DOMAIN text : text[n].key = "agent" /\ text[n].val = agent

\* the path may be fetched: a longest pattern among the hits allows it, or nothing hits
MayFetch(text, path, agent, allowed) ==
  LET who == IF Named(text, agent) THEN agent ELSE Anyone
      hits == {n \in DOMAIN text : /\ AppliesTo(text, n, who)
                                   /\ text[n].key = "allow" \/ (text[n].key = "disallow" /\ text[n].val # <<>>)
                                   /\ Hits(text[n].val, path)}
      longest == {n \in hits : \A k \in hits : Len(text[k].val) <= Len(text[n].val)}
  IN IF longest = {} THEN allowed ELSE \E n \in longest : allowed = (text[n].key = "allow")

\* the delay to keep: that of the last line with one
DelayOf(text, agent) ==
  LET with(who) == {n \in DOMAIN text : /\ text[n].key = "delay" /\ text[n].val # NoNumber
                                        /\ AppliesTo(text, n, who)}
      lines == IF with(agent) # {} THEN with(agent) ELSE with(Anyone)
  IN {text[n].val : n \in {i \in lines : \A k \in lines : k <= i}}

AgreesOn(text, agent, path) ==
  LET policy == Parse(text) IN
    /\ MayFetch(text, path, agent, IsAllowed(policy, path, agent))
    /\ IF DelayOf(text, agent) = {} THEN CrawlDelay(policy, agent) = NoDelay
       ELSE CrawlDelay(policy, agent) \in DelayOf(text, agent)
=============================================================================
