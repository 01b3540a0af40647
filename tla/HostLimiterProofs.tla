-------------------------- MODULE HostLimiterProofs --------------------------
(* Theorems about HostLimiter and Robots, for any number of targets: texts *)
(* are read as written, the controllers stay well typed, no poll is        *)
(* stranded at the gate, and grants keep their distance.                   *)
EXTENDS HostLimiter, FiniteSetTheorems, TLAPS

-----------------------------------------------------------------------------
(* A robots.txt is read as written *)

\* the lines k to n are of one group
Together(text, k, n) ==
  /\ \A i \in k .. n : text[i].key # "blank"
  /\ \A i \in k .. n, j \in k .. n : i < j /\ text[i].key \in Directives => text[j].key # "agent"
AgentAt(text, k, a) == text[k].key = "agent" /\ text[k].val = a
\* after n lines, the group under way is for the agent
InGroup(text, n, a) == \E k \in 1 .. n : AgentAt(text, k, a) /\ Together(text, k, n)
RuleAt(text, i) == text[i].key = "allow" \/ (text[i].key = "disallow" /\ text[i].val # <<>>)
RuleOf(text, i) == [allow |-> text[i].key = "allow", pattern |-> text[i].val]
DelayAt(text, i) == text[i].key = "delay" /\ text[i].val # NoNumber

Vals(text) == {text[k].val : k \in DOMAIN text}
Rules(text) == [allow : BOOLEAN, pattern : Vals(text)]
Readings(text) ==
  [agents : SUBSET Vals(text), inDirectives : BOOLEAN,
   rules : UNION {[A -> Seq(Rules(text))] : A \in SUBSET Vals(text)},
   delays : UNION {[A -> Vals(text)] : A \in SUBSET Vals(text)}]

\* what the parser knows after n lines, part by part
GroupRead(st, text, n) ==
  /\ \A a \in Vals(text) : a \in st.agents <=> InGroup(text, n, a)
  /\ \A k \in 1 .. n : text[k].key = "agent" /\ Together(text, k, n) =>
       (st.inDirectives <=> \E i \in k .. n : text[i].key \in Directives)
RulesRead(rules, text, n) ==
  /\ \A a \in Vals(text) : a \in DOMAIN rules <=> \E k \in 1 .. n : AgentAt(text, k, a)
  /\ \A a \in DOMAIN rules : \A p \in DOMAIN rules[a] :
       \E i \in 1 .. n : RuleAt(text, i) /\ AppliesTo(text, i, a) /\ rules[a][p] = RuleOf(text, i)
  /\ \A a \in DOMAIN rules : \A i \in 1 .. n : RuleAt(text, i) /\ AppliesTo(text, i, a) =>
       \E p \in DOMAIN rules[a] : rules[a][p] = RuleOf(text, i)
DelaysRead(delays, text, n) ==
  /\ \A a \in Vals(text) : \A i \in 1 .. n : DelayAt(text, i) /\ AppliesTo(text, i, a) => a \in DOMAIN delays
  /\ \A a \in DOMAIN delays : \E i \in 1 .. n :
       /\ DelayAt(text, i) /\ AppliesTo(text, i, a) /\ delays[a] = text[i].val
       /\ \A k \in 1 .. n : DelayAt(text, k) /\ AppliesTo(text, k, a) => k <= i

ReadUpTo(text, n) ==
  {st \in Readings(text) : GroupRead(st, text, n) /\ RulesRead(st.rules, text, n) /\ DelaysRead(st.delays, text, n)}

\* Whether earlier lines are of one group with the n-th depends on that line only.
LEMMA TogetherStep ==
  ASSUME NEW text, IsText(text), NEW n \in 1 .. Len(text), NEW k \in 1 .. n - 1
  PROVE  Together(text, k, n) <=>
           /\ Together(text, k, n - 1) /\ text[n].key # "blank"
           /\ text[n].key = "agent" => \A i \in k .. n - 1 : text[i].key \notin Directives
<1>1. Len(text) \in Nat
  BY DEF IsText
<1>2. k .. n = (k .. n - 1) \cup {n} /\ n \notin k .. n - 1 /\ \A i \in k .. n - 1 : i < n /\ ~ (n < i)
  BY <1>1
<1>3. "agent" \notin Directives
  BY DEF Directives
<1> QED BY <1>2, <1>3 DEF Together

LEMMA TogetherAlone ==
  ASSUME NEW text, IsText(text), NEW n \in 1 .. Len(text)
  PROVE  Together(text, n, n) <=> text[n].key # "blank"
<1>1. n .. n = {n} /\ ~ (n < n)
  BY DEF IsText
<1> QED BY <1>1 DEF Together

LEMMA GroupStep ==
  ASSUME NEW text, IsText(text), NEW n \in 1 .. Len(text), NEW a
  PROVE  /\ text[n].key = "blank" => ~ InGroup(text, n, a)
         /\ text[n].key = "agent" =>
              (InGroup(text, n, a) <=>
                 \/ a = text[n].val
                 \/ \E k \in 1 .. n - 1 : /\ AgentAt(text, k, a) /\ Together(text, k, n - 1)
                                          /\ \A i \in k .. n - 1 : text[i].key \notin Directives)
         /\ text[n].key \notin {"blank", "agent"} => (InGroup(text, n, a) <=> InGroup(text, n - 1, a))
         /\ AppliesTo(text, n, a) <=> text[n].key \in Directives /\ InGroup(text, n - 1, a)
<1>0. 1 .. n = (1 .. n - 1) \cup {n} /\ n \in Nat
  BY DEF IsText
<1>1. \A k \in 1 .. n - 1 : Together(text, k, n) <=>
           /\ Together(text, k, n - 1) /\ text[n].key # "blank"
           /\ text[n].key = "agent" => \A i \in k .. n - 1 : text[i].key \notin Directives
  BY TogetherStep
<1>2. Together(text, n, n) <=> text[n].key # "blank"
  BY TogetherAlone
<1>3. text[n].key \in Directives => text[n].key \notin {"blank", "agent"}
  BY DEF Directives
<1>4. AppliesTo(text, n, a) <=> /\ text[n].key \in Directives
                                /\ \E k \in 1 .. n - 1 : AgentAt(text, k, a) /\ Together(text, k, n)
  BY DEF AppliesTo, AgentAt, Together
<1>5. AppliesTo(text, n, a) <=> text[n].key \in Directives /\ InGroup(text, n - 1, a)
  BY <1>1, <1>3, <1>4 DEF InGroup
<1>6. text[n].key = "blank" => ~ InGroup(text, n, a)
  BY <1>0, <1>1, <1>2 DEF InGroup
<1>7. ASSUME text[n].key = "agent"
      PROVE  InGroup(text, n, a) <=>
                 \/ a = text[n].val
                 \/ \E k \in 1 .. n - 1 : /\ AgentAt(text, k, a) /\ Together(text, k, n - 1)
                                          /\ \A i \in k .. n - 1 : text[i].key \notin Directives
  BY <1>0, <1>1, <1>2, <1>7 DEF InGroup, AgentAt
<1>8. ASSUME text[n].key \notin {"blank", "agent"} PROVE InGroup(text, n, a) <=> InGroup(text, n - 1, a)
  BY <1>0, <1>1, <1>8 DEF InGroup, AgentAt
<1> QED BY <1>5, <1>6, <1>7, <1>8

\* What a line does to the group under way.
LEMMA GroupIsRead ==
  ASSUME NEW text, IsText(text), NEW n \in 1 .. Len(text), NEW st \in ReadUpTo(text, n - 1)
  PROVE  /\ ReadLine(st, text[n]).agents \subseteq Vals(text) /\ ReadLine(st, text[n]).inDirectives \in BOOLEAN
         /\ GroupRead(ReadLine(st, text[n]), text, n)
<1> DEFINE line == text[n]
<1> SUFFICES ASSUME NEW new, new = ReadLine(st, line)
             PROVE  new.agents \subseteq Vals(text) /\ new.inDirectives \in BOOLEAN /\ GroupRead(new, text, n)
  OBVIOUS
<1>0. n \in Nat /\ 1 .. n = (1 .. n - 1) \cup {n} /\ n \in DOMAIN text /\ line.val \in Vals(text) /\ line.key \in Keys
  BY DEF IsText, Vals
<1>1. st \in Readings(text) /\ GroupRead(st, text, n - 1)
  BY DEF ReadUpTo
<1>2. /\ \A k \in 1 .. n - 1 : Together(text, k, n) <=>
           /\ Together(text, k, n - 1) /\ text[n].key # "blank"
           /\ text[n].key = "agent" => \A i \in k .. n - 1 : text[i].key \notin Directives
      /\ \A k \in 1 .. n - 1 : k .. n = (k .. n - 1) \cup {n}
      /\ n .. n = {n} /\ "agent" \notin Directives /\ "blank" \notin Directives /\ "other" \notin Directives
      /\ Directives = {"allow", "disallow", "delay"}
  BY <1>0, TogetherStep DEF Directives
<1>3. CASE line.key = "blank"
  <2>1. new.agents = {} /\ new.inDirectives = FALSE
    BY <1>1, <1>3 DEF ReadLine, Readings
  <2>2. \A a : ~ InGroup(text, n, a)
    BY <1>3, GroupStep
  <2>3. \A k \in 1 .. n : ~ Together(text, k, n)
    BY <1>0, <1>2, <1>3, TogetherAlone
  <2> QED BY <2>1, <2>2, <2>3 DEF GroupRead
<1>4. CASE line.key = "agent"
  <2>1. /\ new.agents = IF st.inDirectives THEN {line.val} ELSE st.agents \cup {line.val}
        /\ new.inDirectives = FALSE
    BY <1>1, <1>4 DEF ReadLine, AgentLine, Readings
  <2>2. ASSUME NEW a \in Vals(text) PROVE a \in new.agents <=> InGroup(text, n, a)
    <3>1. InGroup(text, n, a) <=>
                 \/ a = line.val
                 \/ \E k \in 1 .. n - 1 : /\ AgentAt(text, k, a) /\ Together(text, k, n - 1)
                                          /\ \A i \in k .. n - 1 : text[i].key \notin Directives
      BY <1>4, GroupStep
    <3>2. \A k \in 1 .. n - 1 : AgentAt(text, k, a) /\ Together(text, k, n - 1) =>
            (st.inDirectives <=> \E i \in k .. n - 1 : text[i].key \in Directives)
      BY <1>1 DEF GroupRead, AgentAt
    <3>3. (\E k \in 1 .. n - 1 : /\ AgentAt(text, k, a) /\ Together(text, k, n - 1)
                                 /\ \A i \in k .. n - 1 : text[i].key \notin Directives)
          <=> ~ st.inDirectives /\ \E k \in 1 .. n - 1 : AgentAt(text, k, a) /\ Together(text, k, n - 1)
      BY <3>2
    <3>4. a \in st.agents <=> \E k \in 1 .. n - 1 : AgentAt(text, k, a) /\ Together(text, k, n - 1)
      BY <1>1 DEF GroupRead, InGroup
    <3> QED BY <2>1, <3>1, <3>3, <3>4
  <2>3. \A k \in 1 .. n : Together(text, k, n) => \A i \in k .. n : text[i].key \notin Directives
    BY <1>0, <1>2, <1>4
  <2>4. st.agents \cup {line.val} \subseteq Vals(text)
    BY <1>0, <1>1 DEF Readings
  <2> QED BY <2>1, <2>2, <2>3, <2>4 DEF GroupRead
<1>5. CASE line.key \notin {"blank", "agent"}
  <2>1. /\ new.agents = st.agents
        /\ new.inDirectives = IF line.key \in Directives /\ st.agents # {} THEN TRUE ELSE st.inDirectives
    BY <1>0, <1>1, <1>2, <1>5 DEF ReadLine, RuleLine, Readings, Keys
  <2>2. ASSUME NEW a \in Vals(text) PROVE a \in new.agents <=> InGroup(text, n, a)
    BY <1>1, <1>5, <2>1, GroupStep DEF GroupRead
  <2>3. ASSUME NEW k \in 1 .. n, text[k].key = "agent", Together(text, k, n)
        PROVE  new.inDirectives <=> \E i \in k .. n : text[i].key \in Directives
    <3>1. k \in 1 .. n - 1 /\ Together(text, k, n - 1)
      BY <1>0, <1>2, <1>5, <2>3
    <3>2. k \in DOMAIN text /\ text[k].val \in Vals(text)
      BY <1>0, <3>1 DEF IsText, Vals
    <3>3. text[k].val \in st.agents
      BY <1>1, <2>3, <3>1, <3>2 DEF GroupRead, InGroup, AgentAt
    <3>4. st.inDirectives <=> \E i \in k .. n - 1 : text[i].key \in Directives
      BY <1>1, <2>3, <3>1 DEF GroupRead
    <3> QED BY <1>2, <2>1, <3>1, <3>3, <3>4
  <2>4. st.agents \subseteq Vals(text) /\ st.inDirectives \in BOOLEAN
    BY <1>1 DEF Readings
  <2> QED BY <2>1, <2>2, <2>3, <2>4 DEF GroupRead
<1> QED BY <1>3, <1>4, <1>5

\* A directive applies to the agents of the group under way.
LEMMA DirectiveApplies ==
  ASSUME NEW text, IsText(text), NEW n \in 1 .. Len(text), NEW st \in ReadUpTo(text, n - 1), NEW a \in Vals(text)
  PROVE  AppliesTo(text, n, a) <=> text[n].key \in Directives /\ a \in st.agents
<1>1. a \in st.agents <=> InGroup(text, n - 1, a)
  BY DEF ReadUpTo, GroupRead
<1> QED BY <1>1, GroupStep

\* What a line does to the rules: it gives a rule to each agent it applies to, or names one.
LEMMA RulesAreRead ==
  ASSUME NEW text, IsText(text), NEW n \in 1 .. Len(text), NEW st \in ReadUpTo(text, n - 1)
  PROVE  /\ ReadLine(st, text[n]).rules \in UNION {[A -> Seq(Rules(text))] : A \in SUBSET Vals(text)}
         /\ RulesRead(ReadLine(st, text[n]).rules, text, n)
<1> DEFINE line == text[n]
           Some == UNION {[A -> Seq(Rules(text))] : A \in SUBSET Vals(text)}
<1> SUFFICES ASSUME NEW new, new = ReadLine(st, line)
             PROVE  new.rules \in Some /\ RulesRead(new.rules, text, n)
  OBVIOUS
<1>0. n \in Nat /\ 1 .. n = (1 .. n - 1) \cup {n} /\ n \in DOMAIN text /\ line.val \in Vals(text) /\ line.key \in Keys
  BY DEF IsText, Vals
<1>1. st \in Readings(text) /\ RulesRead(st.rules, text, n - 1)
  BY DEF ReadUpTo
<1>2. PICK A \in SUBSET Vals(text) : st.rules \in [A -> Seq(Rules(text))]
  BY <1>1 DEF Readings
<1>3. \A a \in Vals(text) : AppliesTo(text, n, a) <=> line.key \in Directives /\ a \in st.agents
  BY DirectiveApplies
<1>4. st.agents \subseteq A
  <2>1. ASSUME NEW a \in st.agents PROVE a \in A
    <3>1. a \in Vals(text) /\ InGroup(text, n - 1, a)
      BY <1>1, <2>1 DEF ReadUpTo, GroupRead, Readings
    <3> QED BY <1>1, <1>2, <3>1 DEF RulesRead, InGroup
  <2> QED BY <2>1
<1>5. CASE line.key = "agent"
  <2>1. new.rules = Having(st.rules, {line.val})
    BY <1>1, <1>5 DEF ReadLine, AgentLine, Readings
  <2>2. new.rules = [a \in A \cup {line.val} |-> IF a \in A THEN st.rules[a] ELSE <<>>]
    BY <1>2, <2>1 DEF Having
  <2>3. new.rules \in [A \cup {line.val} -> Seq(Rules(text))] /\ A \cup {line.val} \in SUBSET Vals(text)
    <3>1. <<>> \in Seq(Rules(text)) /\ \A a \in A : st.rules[a] \in Seq(Rules(text))
      BY <1>2
    <3> QED BY <1>0, <2>2, <3>1
  <2>4. \A a \in Vals(text) : a \in DOMAIN new.rules <=> \E k \in 1 .. n : AgentAt(text, k, a)
    BY <1>0, <1>1, <1>2, <1>5, <2>2 DEF RulesRead, AgentAt
  <2>5. ~ RuleAt(text, n)
    BY <1>5 DEF RuleAt
  <2>6. ASSUME NEW a \in A
        PROVE  /\ \A p \in DOMAIN new.rules[a] :
                    \E i \in 1 .. n : RuleAt(text, i) /\ AppliesTo(text, i, a) /\ new.rules[a][p] = RuleOf(text, i)
               /\ \A i \in 1 .. n : RuleAt(text, i) /\ AppliesTo(text, i, a) =>
                    \E p \in DOMAIN new.rules[a] : new.rules[a][p] = RuleOf(text, i)
    BY <1>0, <1>1, <1>2, <2>2, <2>5 DEF RulesRead
  <2>7. line.val \notin A => \A i \in 1 .. n - 1 : ~ AppliesTo(text, i, line.val)
    <3>1. line.val \notin A => \A k \in 1 .. n - 1 : ~ AgentAt(text, k, line.val)
      BY <1>0, <1>1, <1>2 DEF RulesRead
    <3>2. \A i \in 1 .. n - 1 : \A k \in 1 .. i - 1 : k \in 1 .. n - 1
      BY <1>0
    <3> QED BY <3>1, <3>2 DEF AppliesTo, AgentAt
  <2>8. ASSUME line.val \notin A
        PROVE  new.rules[line.val] = <<>> /\ \A i \in 1 .. n : ~ (RuleAt(text, i) /\ AppliesTo(text, i, line.val))
    BY <1>0, <2>2, <2>5, <2>7, <2>8
  <2>9. \A a \in DOMAIN new.rules : a \in A \/ (a = line.val /\ line.val \notin A)
    BY <2>2
  <2> QED BY <2>3, <2>4, <2>6, <2>8, <2>9 DEF RulesRead
<1>6. CASE RuleAt(text, n)
  <2>1. line.key \in Directives /\ line.key \in {"allow", "disallow"}
    BY <1>6 DEF RuleAt, Directives
  <2>2. CASE st.agents = {}
    <3>1. new = st
      BY <1>1, <2>1, <2>2 DEF ReadLine
    <3>2. \A a \in A : ~ AppliesTo(text, n, a)
      BY <1>3, <2>2
    <3>3. \A a \in Vals(text) : a \in A <=> \E k \in 1 .. n : AgentAt(text, k, a)
      BY <1>0, <1>1, <1>2, <2>1 DEF RulesRead, AgentAt
    <3> QED BY <1>0, <1>1, <1>2, <3>1, <3>2, <3>3 DEF RulesRead
  <2>3. CASE st.agents # {}
    <3> DEFINE rule == RuleOf(text, n)
    <3>1. new = RuleLine(st, line.key = "allow", line.val)
      BY <1>6, <2>1, <2>3 DEF ReadLine, RuleAt
    <3>2. new.rules = [a \in A |-> IF a \in st.agents THEN Append(st.rules[a], rule) ELSE st.rules[a]]
      BY <1>1, <1>2, <3>1 DEF RuleLine, RuleOf, Readings
    <3>3. rule \in Rules(text) /\ \A a \in A : st.rules[a] \in Seq(Rules(text))
      BY <1>0, <1>2 DEF RuleOf, Rules
    <3>4. new.rules \in [A -> Seq(Rules(text))]
      <4> HIDE DEF rule
      <4> QED BY <3>2, <3>3
    <3>5. \A a \in Vals(text) : a \in A <=> \E k \in 1 .. n : AgentAt(text, k, a)
      BY <1>0, <1>1, <1>2, <2>1 DEF RulesRead, AgentAt
    <3>6. ASSUME NEW a \in A
          PROVE  /\ \A p \in DOMAIN new.rules[a] :
                      \E i \in 1 .. n : RuleAt(text, i) /\ AppliesTo(text, i, a) /\ new.rules[a][p] = RuleOf(text, i)
                 /\ \A i \in 1 .. n : RuleAt(text, i) /\ AppliesTo(text, i, a) =>
                      \E p \in DOMAIN new.rules[a] : new.rules[a][p] = RuleOf(text, i)
      <4>1. CASE a \notin st.agents
        <5>1. new.rules[a] = st.rules[a] /\ ~ AppliesTo(text, n, a)
          BY <1>3, <3>2, <4>1
        <5> QED BY <1>0, <1>1, <1>2, <5>1 DEF RulesRead
      <4>2. CASE a \in st.agents
        <5>1. AppliesTo(text, n, a)
          BY <1>3, <2>1, <4>2
        <5> DEFINE old == st.rules[a]
        <5>2. /\ DOMAIN new.rules[a] = DOMAIN old \cup {Len(old) + 1}
              /\ \A p \in DOMAIN old : new.rules[a][p] = old[p]
              /\ new.rules[a][Len(old) + 1] = rule
          <6> HIDE DEF rule
          <6> QED BY <3>2, <3>3, <4>2
        <5> QED BY <1>0, <1>1, <1>2, <1>6, <5>1, <5>2 DEF RulesRead
      <4> QED BY <4>1, <4>2
    <3> QED BY <1>2, <3>2, <3>4, <3>5, <3>6 DEF RulesRead
  <2> QED BY <2>2, <2>3
<1>7. CASE line.key # "agent" /\ ~ RuleAt(text, n)
  <2>1. new.rules = st.rules
    BY <1>0, <1>1, <1>7 DEF ReadLine, RuleAt, Readings, Keys
  <2>2. \A a \in Vals(text) : a \in A <=> \E k \in 1 .. n : AgentAt(text, k, a)
    BY <1>0, <1>1, <1>2, <1>7 DEF RulesRead, AgentAt
  <2> QED BY <1>0, <1>1, <1>2, <1>7, <2>1, <2>2 DEF RulesRead
<1> QED BY <1>5, <1>6, <1>7

\* What a line does to the delays: one that is a number replaces that of each agent it applies to.
LEMMA DelaysAreRead ==
  ASSUME NEW text, IsText(text), NEW n \in 1 .. Len(text), NEW st \in ReadUpTo(text, n - 1)
  PROVE  /\ ReadLine(st, text[n]).delays \in UNION {[A -> Vals(text)] : A \in SUBSET Vals(text)}
         /\ DelaysRead(ReadLine(st, text[n]).delays, text, n)
<1> DEFINE line == text[n]
<1> SUFFICES ASSUME NEW new, new = ReadLine(st, line)
             PROVE  new.delays \in UNION {[A -> Vals(text)] : A \in SUBSET Vals(text)} /\ DelaysRead(new.delays, text, n)
  OBVIOUS
<1>0. n \in Nat /\ 1 .. n = (1 .. n - 1) \cup {n} /\ n \in DOMAIN text /\ line.val \in Vals(text) /\ line.key \in Keys
  BY DEF IsText, Vals
<1>1. st \in Readings(text) /\ DelaysRead(st.delays, text, n - 1) /\ st.agents \subseteq Vals(text)
  BY DEF ReadUpTo, Readings
<1>2. PICK A \in SUBSET Vals(text) : st.delays \in [A -> Vals(text)]
  BY <1>1 DEF Readings
<1>3. \A a \in Vals(text) : AppliesTo(text, n, a) <=> line.key \in Directives /\ a \in st.agents
  BY DirectiveApplies
<1>4. CASE DelayAt(text, n) /\ st.agents # {}
  <2>2. new.delays = [a \in st.agents \cup A |-> IF a \in st.agents THEN line.val ELSE st.delays[a]]
    BY <1>1, <1>2, <1>4 DEF ReadLine, DelayAt, Readings
  <2>3. new.delays \in [st.agents \cup A -> Vals(text)] /\ st.agents \cup A \in SUBSET Vals(text)
    BY <1>0, <1>1, <1>2, <2>2
  <2>4. \A a \in st.agents : AppliesTo(text, n, a)
    BY <1>1, <1>3, <1>4 DEF DelayAt, Directives
  <2>5. \A a \in A \ st.agents : ~ AppliesTo(text, n, a)
    BY <1>3
  <2>6. \A k \in 1 .. n : k <= n
    BY <1>0
  <2>7. ASSUME NEW a \in Vals(text), NEW i \in 1 .. n, DelayAt(text, i), AppliesTo(text, i, a)
        PROVE  a \in DOMAIN new.delays
    BY <1>0, <1>1, <1>2, <1>3, <2>2, <2>7 DEF DelaysRead
  <2>8. ASSUME NEW a \in DOMAIN new.delays
        PROVE  \E i \in 1 .. n :
                 /\ DelayAt(text, i) /\ AppliesTo(text, i, a) /\ new.delays[a] = text[i].val
                 /\ \A k \in 1 .. n : DelayAt(text, k) /\ AppliesTo(text, k, a) => k <= i
    <3>1. CASE a \in st.agents
      BY <1>0, <1>4, <2>2, <2>4, <2>6, <3>1
    <3>2. CASE a \notin st.agents
      <4>1. a \in A /\ new.delays[a] = st.delays[a] /\ ~ AppliesTo(text, n, a)
        BY <2>2, <2>5, <3>2
      <4> QED BY <1>0, <1>1, <1>2, <4>1 DEF DelaysRead
    <3> QED BY <3>1, <3>2
  <2> QED BY <2>3, <2>7, <2>8 DEF DelaysRead
<1>5. CASE ~ (DelayAt(text, n) /\ st.agents # {})
  <2>1. new.delays = st.delays
    BY <1>0, <1>1, <1>5 DEF ReadLine, RuleLine, AgentLine, DelayAt, Readings, Keys
  <2>2. \A a \in Vals(text) : ~ (DelayAt(text, n) /\ AppliesTo(text, n, a))
    BY <1>3, <1>5
  <2> QED BY <1>0, <1>1, <1>2, <2>1, <2>2 DEF DelaysRead
<1> QED BY <1>4, <1>5

\* the loop of the parser
LineAfter(p, st, line) == ReadLine(st, line)
KnownUpTo(text, n, st) == st \in ReadUpTo(text, n)
Reading == INSTANCE FoldProofs WITH Op <- LineAfter, Good <- KnownUpTo

\* The parser knows of a whole text what it says.
LEMMA ParsedIsRead ==
  ASSUME NEW text, IsText(text)
  PROVE  Parse(text) \in ReadUpTo(text, Len(text))
<1>1. Len(text) \in Nat
  BY DEF IsText
<1>2. Unread \in ReadUpTo(text, 0)
  <2>1. Unread \in Readings(text)
    <3>1. <<>> \in [{} -> Seq(Rules(text))] /\ <<>> \in [{} -> Vals(text)]
      OBVIOUS
    <3> QED BY <3>1 DEF Unread, Readings
  <2>2. 1 .. 0 = {} /\ DOMAIN <<>> = {}
    OBVIOUS
  <2>3. /\ Unread.agents = {} /\ Unread.rules = <<>> /\ Unread.delays = <<>>
    BY DEF Unread
  <2>4. GroupRead(Unread, text, 0) /\ RulesRead(Unread.rules, text, 0) /\ DelaysRead(Unread.delays, text, 0)
    BY <2>2, <2>3 DEF GroupRead, RulesRead, DelaysRead, InGroup
  <2> QED BY <2>1, <2>4 DEF ReadUpTo
<1>3. ASSUME NEW n \in 1 .. Len(text), NEW g \in ReadUpTo(text, n - 1)
      PROVE  ReadLine(g, text[n]) \in ReadUpTo(text, n)
  <2> DEFINE new == ReadLine(g, text[n])
  <2>2. new = [agents |-> new.agents, inDirectives |-> new.inDirectives, rules |-> new.rules, delays |-> new.delays]
    <3>1. g = [agents |-> g.agents, inDirectives |-> g.inDirectives, rules |-> g.rules, delays |-> g.delays]
      BY <1>3 DEF ReadUpTo, Readings
    <3>2. text[n].key \in Keys
      BY DEF IsText
    <3> QED BY <3>1, <3>2 DEF ReadLine, AgentLine, RuleLine, Keys
  <2>3. /\ new.agents \subseteq Vals(text) /\ new.inDirectives \in BOOLEAN /\ GroupRead(new, text, n)
        /\ new.rules \in UNION {[A -> Seq(Rules(text))] : A \in SUBSET Vals(text)} /\ RulesRead(new.rules, text, n)
        /\ new.delays \in UNION {[A -> Vals(text)] : A \in SUBSET Vals(text)} /\ DelaysRead(new.delays, text, n)
    BY <1>3, GroupIsRead, RulesAreRead, DelaysAreRead
  <2> HIDE DEF new
  <2>4. new \in Readings(text)
    BY <2>2, <2>3 DEF Readings
  <2>5. new \in ReadUpTo(text, n)
    BY <2>3, <2>4 DEF ReadUpTo
  <2> QED BY <2>5 DEF new
<1>4. KnownUpTo(text, Len(text), Reading!Looped(text, Unread, text))
  <2>1. KnownUpTo(text, 0, Unread)
    BY <1>2 DEF KnownUpTo
  <2>2. \A x : \A n \in 1 .. Len(text) : KnownUpTo(text, n - 1, x) => KnownUpTo(text, n, LineAfter(text, x, text[n]))
    BY <1>3 DEF KnownUpTo, LineAfter
  <2> QED BY <1>1, <2>1, <2>2, Reading!FoldKeeps
<1>5. Parse(text) = Reading!Looped(text, Unread, text)
  BY Zenon DEF Parse, LineAfter, Reading!Looped, Reading!Folded, Folded
<1> QED BY <1>4, <1>5 DEF KnownUpTo

\* A non-empty set of places has one with the greatest weight.
LEMMA HeaviestOf ==
  ASSUME NEW N \in Nat, NEW H, H \subseteq 1 .. N, H # {}, NEW w, \A n \in H : w[n] \in Nat
  PROVE  \E n \in H : \A k \in H : w[k] <= w[n]
<1> DEFINE S == {m \in 0 .. N : (\E n \in H : n <= m) =>
                                \E n \in H : n <= m /\ \A k \in H : k <= m => w[k] <= w[n]}
<1>1. 0 \in S
  OBVIOUS
<1>2. ASSUME NEW m \in 1 .. N, m - 1 \in S PROVE m \in S
  <2>1. \A k \in H : k <= m <=> (k <= m - 1 \/ k = m)
    OBVIOUS
  <2>2. CASE \E n \in H : n <= m - 1
    <3>1. PICK n \in H : n <= m - 1 /\ \A k \in H : k <= m - 1 => w[k] <= w[n]
      BY <1>2, <2>2
    <3>2. CASE m \in H /\ w[n] <= w[m]
      <4>1. \A k \in H : k <= m => w[k] <= w[m]
        BY <2>1, <3>1, <3>2
      <4> QED BY <3>2, <4>1
    <3>3. CASE ~ (m \in H /\ w[n] <= w[m])
      <4>1. \A k \in H : k <= m => w[k] <= w[n]
        BY <2>1, <3>1, <3>3
      <4> QED BY <3>1, <4>1
    <3> QED BY <3>2, <3>3
  <2>3. CASE ~ \E n \in H : n <= m - 1
    BY <2>1, <2>3
  <2> QED BY <2>2, <2>3
<1> HIDE DEF S
<1>3. N \in S
  <2>1. \A n \in 0 .. N : n \in S
    BY <1>1, <1>2, Reading!InductionUpTo
  <2> QED BY <2>1
<1>4. \A n \in H : n <= N
  OBVIOUS
<1> QED BY <1>3, <1>4 DEF S

\* The rules and delays kept for an agent are those of the lines that apply to it.
LEMMA KeptForAgent ==
  ASSUME NEW text, IsText(text), NEW a
  PROVE  LET policy == Parse(text) IN
         /\ a \in DOMAIN policy.rules <=> Named(text, a)
         /\ a \in DOMAIN policy.rules =>
              /\ policy.rules[a] \in Seq(Rules(text))
              /\ \A p \in DOMAIN policy.rules[a] : \E i \in DOMAIN text :
                   RuleAt(text, i) /\ AppliesTo(text, i, a) /\ policy.rules[a][p] = RuleOf(text, i)
         /\ \A i \in DOMAIN text : AppliesTo(text, i, a) =>
              /\ a \in DOMAIN policy.rules
              /\ RuleAt(text, i) => \E p \in DOMAIN policy.rules[a] : policy.rules[a][p] = RuleOf(text, i)
              /\ DelayAt(text, i) => a \in DOMAIN policy.delays
         /\ a \in DOMAIN policy.delays => \E i \in DOMAIN text :
              /\ DelayAt(text, i) /\ AppliesTo(text, i, a) /\ policy.delays[a] = text[i].val
              /\ \A k \in DOMAIN text : DelayAt(text, k) /\ AppliesTo(text, k, a) => k <= i
<1> DEFINE policy == Parse(text)
<1>1. policy \in ReadUpTo(text, Len(text))
  BY ParsedIsRead
<1> HIDE DEF policy
<1>2. policy \in Readings(text) /\ RulesRead(policy.rules, text, Len(text)) /\ DelaysRead(policy.delays, text, Len(text))
  BY <1>1 DEF ReadUpTo
<1>3. DOMAIN text = 1 .. Len(text) /\ Len(text) \in Nat
  BY DEF IsText
<1>4. DOMAIN policy.rules \subseteq Vals(text) /\ \A b \in DOMAIN policy.rules : policy.rules[b] \in Seq(Rules(text))
  BY <1>2 DEF Readings
<1>5. DOMAIN policy.delays \subseteq Vals(text)
  BY <1>2 DEF Readings
<1>6. \A k \in DOMAIN text : AgentAt(text, k, a) => a \in Vals(text)
  BY DEF AgentAt, Vals
<1>7. a \in DOMAIN policy.rules <=> Named(text, a)
  BY <1>2, <1>3, <1>4, <1>6 DEF RulesRead, Named, AgentAt
<1>8. \A i \in DOMAIN text : AppliesTo(text, i, a) => Named(text, a) /\ a \in Vals(text)
  <2>1. \A i \in DOMAIN text : \A k \in 1 .. i - 1 : k \in DOMAIN text
    BY <1>3
  <2> QED BY <1>6, <2>1 DEF AppliesTo, Named, AgentAt
<1>9. \A i \in DOMAIN text : AppliesTo(text, i, a) =>
              /\ a \in DOMAIN policy.rules
              /\ RuleAt(text, i) => \E p \in DOMAIN policy.rules[a] : policy.rules[a][p] = RuleOf(text, i)
              /\ DelayAt(text, i) => a \in DOMAIN policy.delays
  BY <1>2, <1>3, <1>7, <1>8 DEF RulesRead, DelaysRead
<1>10. a \in DOMAIN policy.rules =>
              \A p \in DOMAIN policy.rules[a] : \E i \in DOMAIN text :
                RuleAt(text, i) /\ AppliesTo(text, i, a) /\ policy.rules[a][p] = RuleOf(text, i)
  BY <1>2, <1>3 DEF RulesRead
<1>11. a \in DOMAIN policy.delays => \E i \in DOMAIN text :
              /\ DelayAt(text, i) /\ AppliesTo(text, i, a) /\ policy.delays[a] = text[i].val
              /\ \A k \in DOMAIN text : DelayAt(text, k) /\ AppliesTo(text, k, a) => k <= i
  BY <1>2, <1>3 DEF DelaysRead
<1> QED BY <1>4, <1>7, <1>9, <1>10, <1>11 DEF policy

\* the rules of the lines, those that hit the path, the best of them, and the lines of both
Weighed(text, path, rules, lines, found, best, hits, longest) ==
  /\ rules \in Seq(Rules(text))
  /\ lines \subseteq DOMAIN text /\ \A i \in lines : RuleAt(text, i)
  /\ \A p \in DOMAIN rules : \E i \in lines : rules[p] = RuleOf(text, i)
  /\ \A i \in lines : \E p \in DOMAIN rules : rules[p] = RuleOf(text, i)
  /\ found = {p \in DOMAIN rules : Hits(rules[p].pattern, path)}
  /\ best = {i \in found : \A k \in found :
                 \/ Len(rules[k].pattern) < Len(rules[i].pattern)
                 \/ Len(rules[k].pattern) = Len(rules[i].pattern) /\ i <= k}
  /\ hits = {n \in lines : Hits(text[n].val, path)}
  /\ longest = {n \in hits : \A k \in hits : Len(text[k].val) <= Len(text[n].val)}

\* what the best rules say is what a longest line says
Agreed(text, rules, best, longest) ==
  IF longest = {} THEN \A i \in best : rules[i].allow
  ELSE \E n \in longest : (\A i \in best : rules[i].allow) = (text[n].key = "allow")

\* What a list of rules says that holds just the rules of some lines, in any order.
LEMMA LongestDecides ==
  ASSUME NEW text, IsText(text), NEW path, NEW rules, NEW lines, NEW found, NEW best, NEW hits, NEW longest,
         Weighed(text, path, rules, lines, found, best, hits, longest)
  PROVE  Agreed(text, rules, best, longest)
<1> USE DEF Weighed, Agreed
<1> DEFINE N == Len(rules)
           size == [p \in DOMAIN rules |-> Len(rules[p].pattern)]
<1>1. N \in Nat /\ DOMAIN rules = 1 .. N
  OBVIOUS
<1>2. \A i \in lines : Len(text[i].val) \in Nat /\ RuleOf(text, i).pattern = text[i].val
                      /\ RuleOf(text, i).allow = (text[i].key = "allow")
  BY DEF IsText, RuleAt, RuleOf
<1>3. \A p \in DOMAIN rules : size[p] = Len(rules[p].pattern) /\ size[p] \in Nat
  BY <1>2
<1> HIDE DEF size, N
<1>4. CASE found = {}
  <2>1. best = {}
    BY <1>4
  <2>2. hits = {}
    BY <1>2, <1>4
  <2> QED BY <2>1, <2>2
<1>5. CASE found # {}
  <2>1. found \subseteq 1 .. N
    BY <1>1
  <2>2. \A p \in found : size[p] \in Nat
    BY <1>3
  <2> DEFINE top == {p \in found : \A k \in found : size[k] <= size[p]}
  <2>3. top # {}
    <3>1. \E n \in found : \A k \in found : size[k] <= size[n]
      BY <1>1, <1>5, <2>1, <2>2, HeaviestOf
    <3> QED BY <3>1
  <2>4. top \subseteq Nat
    BY <2>1
  <2>5. PICK b \in top : \A p \in top : b <= p
    <3> HIDE DEF top
    <3> QED BY <2>3, <2>4, Reading!LeastOfNat
  <2>6. b \in best
    <3>1. ASSUME NEW k \in found
          PROVE  size[k] < size[b] \/ (size[k] = size[b] /\ b <= k)
      <4>1. size[k] \in Nat /\ size[b] \in Nat /\ size[k] <= size[b]
        BY <2>2, <2>5
      <4>2. CASE size[k] = size[b]
        BY <2>5, <4>2
      <4> QED BY <4>1, <4>2
    <3> QED BY <1>3, <2>5, <3>1
  <2>7. ASSUME NEW c \in best PROVE c = b
    <3>1. c \in found /\ b \in found /\ b \in Nat /\ c \in Nat
      BY <2>1, <2>5
    <3>2. size[b] < size[c] \/ (size[b] = size[c] /\ c <= b)
      BY <1>3, <3>1
    <3>3. size[c] < size[b] \/ (size[c] = size[b] /\ b <= c)
      BY <1>3, <2>6, <3>1
    <3>4. size[b] \in Nat /\ size[c] \in Nat
      BY <2>2, <3>1
    <3> QED BY <3>1, <3>2, <3>3, <3>4
  <2>8. (\A i \in best : rules[i].allow) = rules[b].allow
    <3>1. rules[b] \in Rules(text)
      BY <2>5
    <3>2. rules[b].allow \in BOOLEAN
      BY <3>1 DEF Rules
    <3> QED BY <2>6, <2>7, <3>2
  <2>9. PICK i \in lines : rules[b] = RuleOf(text, i)
    BY <2>5
  <2>10. i \in hits /\ size[b] = Len(text[i].val)
    BY <1>2, <1>3, <2>5, <2>9
  <2>11. ASSUME NEW k \in hits PROVE Len(text[k].val) <= Len(text[i].val)
    <3>1. PICK p \in DOMAIN rules : rules[p] = RuleOf(text, k)
      OBVIOUS
    <3>2. p \in found /\ size[p] = Len(text[k].val)
      BY <1>2, <1>3, <3>1
    <3> QED BY <2>5, <2>10, <3>2
  <2>12. i \in longest
    BY <2>10, <2>11
  <2> QED BY <1>2, <2>8, <2>9, <2>12
<1> QED BY <1>4, <1>5

\* A robots.txt of any lines is read as they say, by every agent about every path: the rules
\* that apply, the longest of the patterns that hit, and the last delay (robots.py).
THEOREM ReadsAnyText ==
  ASSUME NEW text, IsText(text), NEW agent, NEW path
  PROVE  AgreesOn(text, agent, path)
<1> DEFINE policy == Parse(text)
           who == IF Named(text, agent) THEN agent ELSE Anyone
           rules == RulesFor(policy, agent)
           lines == {i \in DOMAIN text : RuleAt(text, i) /\ AppliesTo(text, i, who)}
<1>1. /\ agent \in DOMAIN policy.rules <=> Named(text, agent)
      /\ Anyone \in DOMAIN policy.rules <=> Named(text, Anyone)
  BY KeptForAgent
<1>2. rules = IF who \in DOMAIN policy.rules THEN policy.rules[who] ELSE <<>>
  <2> HIDE DEF policy
  <2> QED BY <1>1 DEF RulesFor
<1>3. /\ rules \in Seq(Rules(text))
      /\ \A p \in DOMAIN rules : \E i \in lines : rules[p] = RuleOf(text, i)
      /\ \A i \in lines : \E p \in DOMAIN rules : rules[p] = RuleOf(text, i)
  <2>1. /\ who \in DOMAIN policy.rules =>
              /\ policy.rules[who] \in Seq(Rules(text))
              /\ \A p \in DOMAIN policy.rules[who] : \E i \in DOMAIN text :
                   RuleAt(text, i) /\ AppliesTo(text, i, who) /\ policy.rules[who][p] = RuleOf(text, i)
        /\ \A i \in DOMAIN text : AppliesTo(text, i, who) =>
              /\ who \in DOMAIN policy.rules
              /\ RuleAt(text, i) => \E p \in DOMAIN policy.rules[who] : policy.rules[who][p] = RuleOf(text, i)
    <3> HIDE DEF who
    <3> QED BY KeptForAgent
  <2> HIDE DEF policy, who
  <2>2. CASE who \in DOMAIN policy.rules
    <3>1. rules = policy.rules[who]
      BY <1>2, <2>2
    <3> HIDE DEF rules
    <3> QED BY <2>1, <2>2, <3>1
  <2>3. CASE who \notin DOMAIN policy.rules
    <3>1. rules = <<>> /\ DOMAIN <<>> = {} /\ <<>> \in Seq(Rules(text))
      BY <1>2, <2>3
    <3>2. lines = {}
      BY <2>1, <2>3
    <3> HIDE DEF rules, lines
    <3> QED BY <3>1, <3>2
  <2> QED BY <2>2, <2>3
<1>4. MayFetch(text, path, agent, IsAllowed(policy, path, agent))
  <2> DEFINE found == {p \in DOMAIN rules : Hits(rules[p].pattern, path)}
             best == {i \in found : \A k \in found :
                             \/ Len(rules[k].pattern) < Len(rules[i].pattern)
                             \/ Len(rules[k].pattern) = Len(rules[i].pattern) /\ i <= k}
             hits == {n \in DOMAIN text : /\ AppliesTo(text, n, who)
                                          /\ text[n].key = "allow" \/ (text[n].key = "disallow" /\ text[n].val # <<>>)
                                          /\ Hits(text[n].val, path)}
             longest == {n \in hits : \A k \in hits : Len(text[k].val) <= Len(text[n].val)}
             allowed == \A i \in best : rules[i].allow
  <2>1. IF longest = {} THEN allowed ELSE \E n \in longest : allowed = (text[n].key = "allow")
    <3>1. lines \subseteq DOMAIN text /\ \A i \in lines : RuleAt(text, i)
      OBVIOUS
    <3>2. hits = {n \in lines : Hits(text[n].val, path)}
      <4> HIDE DEF who, policy, rules, found, best, allowed, longest
      <4> QED BY DEF RuleAt
    <3>3. found = {p \in DOMAIN rules : Hits(rules[p].pattern, path)}
      OBVIOUS
    <3> HIDE DEF who, policy, rules, lines, found, hits
    <3>4. best = {i \in found : \A k \in found :
                             \/ Len(rules[k].pattern) < Len(rules[i].pattern)
                             \/ Len(rules[k].pattern) = Len(rules[i].pattern) /\ i <= k}
      OBVIOUS
    <3>5. longest = {n \in hits : \A k \in hits : Len(text[k].val) <= Len(text[n].val)}
      OBVIOUS
    <3>6. /\ rules \in Seq(Rules(text))
          /\ \A p \in DOMAIN rules : \E i \in lines : rules[p] = RuleOf(text, i)
          /\ \A i \in lines : \E p \in DOMAIN rules : rules[p] = RuleOf(text, i)
      BY <1>3
    <3> HIDE DEF best, longest
    <3>7. Weighed(text, path, rules, lines, found, best, hits, longest)
      BY <3>1, <3>2, <3>3, <3>4, <3>5, <3>6 DEF Weighed
    <3>8. Agreed(text, rules, best, longest)
      BY <3>7, LongestDecides
    <3> QED BY <3>8, Zenon DEF Agreed
  <2>2. IsAllowed(policy, path, agent) = allowed
    <3> HIDE DEF policy
    <3> QED BY Zenon DEF IsAllowed
  <2> HIDE DEF policy, rules, lines, found, best, allowed
  <2>3. MayFetch(text, path, agent, allowed)
    <3> SUFFICES ASSUME NEW said, said = allowed
                 PROVE  MayFetch(text, path, agent, said)
      OBVIOUS
    <3>1. IF longest = {} THEN said ELSE \E n \in longest : said = (text[n].key = "allow")
      BY <2>1
    <3> QED BY <3>1, Zenon DEF MayFetch
  <2> QED BY <2>2, <2>3
<1>5. IF DelayOf(text, agent) = {} THEN CrawlDelay(policy, agent) = NoDelay
      ELSE CrawlDelay(policy, agent) \in DelayOf(text, agent)
  <2> DEFINE With(a) == {n \in DOMAIN text : DelayAt(text, n) /\ AppliesTo(text, n, a)}
             Latest(a) == {n \in With(a) : \A k \in With(a) : k <= n}
  <2>1. ASSUME NEW a
        PROVE  /\ a \in DOMAIN policy.delays => \E i \in Latest(a) : policy.delays[a] = text[i].val
               /\ a \notin DOMAIN policy.delays => With(a) = {}
    BY KeptForAgent
  <2> HIDE DEF policy
  <2>2. DelayOf(text, agent) = {text[n].val : n \in IF With(agent) # {} THEN Latest(agent) ELSE Latest(Anyone)}
    BY DEF DelayOf, DelayAt
  <2>3. \A a : Latest(a) \subseteq With(a)
    OBVIOUS
  <2> HIDE DEF With, Latest
  <2>4. CASE agent \in DOMAIN policy.delays
    <3>1. PICK i \in Latest(agent) : policy.delays[agent] = text[i].val
      BY <2>1, <2>4
    <3>2. CrawlDelay(policy, agent) = text[i].val
      BY <2>4, <3>1 DEF CrawlDelay
    <3>3. With(agent) # {}
      BY <2>3
    <3> QED BY <2>2, <3>2, <3>3
  <2>5. CASE agent \notin DOMAIN policy.delays /\ Anyone \in DOMAIN policy.delays
    <3>1. PICK i \in Latest(Anyone) : policy.delays[Anyone] = text[i].val
      BY <2>1, <2>5
    <3>2. CrawlDelay(policy, agent) = text[i].val
      BY <2>5, <3>1 DEF CrawlDelay
    <3>3. With(agent) = {}
      BY <2>1, <2>5
    <3> QED BY <2>2, <3>2, <3>3
  <2>6. CASE agent \notin DOMAIN policy.delays /\ Anyone \notin DOMAIN policy.delays
    <3>1. With(agent) = {} /\ With(Anyone) = {}
      BY <2>1, <2>6
    <3>2. CrawlDelay(policy, agent) = NoDelay
      BY <2>6 DEF CrawlDelay
    <3>3. DelayOf(text, agent) = {}
      BY <2>2, <2>3, <3>1
    <3> QED BY <3>2, <3>3
  <2> QED BY <2>4, <2>5, <2>6
<1> QED BY <1>4, <1>5 DEF AgreesOn

-----------------------------------------------------------------------------
(* The operators *)

\* The larger and the smaller of two integers are one of them, and bound both.
LEMMA LargerOfTwo ==
  ASSUME NEW a \in Int, NEW b \in Int
  PROVE  Larger(a, b) \in {a, b} /\ Larger(a, b) >= a /\ Larger(a, b) >= b
<1>1. \E x \in {a, b} : \A y \in {a, b} : x >= y
  <2>1. CASE a >= b
    BY <2>1
  <2>2. CASE b >= a
    BY <2>2
  <2> QED BY <2>1, <2>2
<1> QED BY <1>1 DEF Larger, Max

LEMMA SmallerOfTwo ==
  ASSUME NEW a \in Int, NEW b \in Int
  PROVE  Smaller(a, b) \in {a, b} /\ Smaller(a, b) <= a /\ Smaller(a, b) <= b
<1>1. \E x \in {a, b} : \A y \in {a, b} : x <= y
  <2>1. CASE a <= b
    BY <2>1
  <2>2. CASE b <= a
    BY <2>2
  <2> QED BY <2>1, <2>2
<1> QED BY <1>1 DEF Smaller, Min

LEMMA RlFloorRange == RlFloor \in 1..MaxInterval
BY LargerOfTwo, LimiterAssumption DEF LimiterAssumption, RlFloor

LEMMA PenaltyRange ==
  ASSUME NEW v \in Int
  PROVE  ClampPenalty(v) \in 1..MaxInterval /\ ClampPenalty(v) >= RlFloor
<1>1. Smaller(MaxInterval, v) \in Int /\ Smaller(MaxInterval, v) <= MaxInterval
  BY SmallerOfTwo, LimiterAssumption DEF LimiterAssumption
<1>2. Larger(RlFloor, Smaller(MaxInterval, v)) \in {RlFloor, Smaller(MaxInterval, v)}
      /\ Larger(RlFloor, Smaller(MaxInterval, v)) >= RlFloor
  BY <1>1, LargerOfTwo, RlFloorRange
<1> QED BY <1>1, <1>2, RlFloorRange DEF ClampPenalty

\* What a share leaves of a cap is at most that cap, and less if either is more than one.
LEMMA RoundedRange ==
  ASSUME NEW b \in 1..4
  PROVE  /\ Rounded(MaxConcurrency, b) \in 0..MaxConcurrency
         /\ b > 1 /\ MaxConcurrency > 1 => Rounded(MaxConcurrency, b) < MaxConcurrency
<1>1. MaxConcurrency \in Nat /\ MaxConcurrency > 0
  BY LimiterAssumption DEF LimiterAssumption
<1> DEFINE q == MaxConcurrency \div b
           m == MaxConcurrency % b
           rounded == Rounded(MaxConcurrency, b)
<1>2. rounded = IF 2 * m > b \/ (2 * m = b /\ q % 2 = 1) THEN q + 1 ELSE q
  BY Zenon DEF Rounded
<1> HIDE DEF rounded
<1> SUFFICES rounded \in 0..MaxConcurrency
             /\ (b > 1 /\ MaxConcurrency > 1 => rounded < MaxConcurrency)
  BY DEF rounded
<1>3. CASE b = 1
  <2>1. MaxConcurrency = 1 * q + m /\ m \in 0..0 /\ q \in Nat
    BY <1>1, <1>3 DEF q, m
  <2>2. rounded = q \/ (rounded = q + 1 /\ 2 * m >= 1)
    BY <1>2, <1>3, <2>1
  <2> HIDE DEF q, m
  <2> QED BY <1>1, <1>3, <2>1, <2>2
<1>4. CASE b = 2
  <2>1. MaxConcurrency = 2 * q + m /\ m \in 0..1 /\ q \in Nat
    BY <1>1, <1>4 DEF q, m
  <2>2. rounded = q \/ (rounded = q + 1 /\ 2 * m >= 2)
    BY <1>2, <1>4, <2>1
  <2> HIDE DEF q, m
  <2> QED BY <1>1, <1>4, <2>1, <2>2
<1>5. CASE b = 3
  <2>1. MaxConcurrency = 3 * q + m /\ m \in 0..2 /\ q \in Nat
    BY <1>1, <1>5 DEF q, m
  <2>2. rounded = q \/ (rounded = q + 1 /\ 2 * m >= 3)
    BY <1>2, <1>5, <2>1
  <2> HIDE DEF q, m
  <2> QED BY <1>1, <1>5, <2>1, <2>2
<1>6. CASE b = 4
  <2>1. MaxConcurrency = 4 * q + m /\ m \in 0..3 /\ q \in Nat
    BY <1>1, <1>6 DEF q, m
  <2>2. rounded = q \/ (rounded = q + 1 /\ 2 * m >= 4)
    BY <1>2, <1>6, <2>1
  <2> HIDE DEF q, m
  <2> QED BY <1>1, <1>6, <2>1, <2>2
<1> QED BY <1>3, <1>4, <1>5, <1>6

\* A robots.txt of the host is read into what its lines say for everyone, and a delay in range.
LEMMA PolicyRead ==
  ASSUME NEW text \in Texts \cup {Unreachable}
  PROVE  GoesBy(PolicyOf[text], text) /\ PolicyOf[text].delay \in 0..MaxInterval
<1> DEFINE parsed == Parse(text)
           asked == CrawlDelay(parsed, Anyone)
<1>1. IsText(text)
  <2>1. CASE text \in Texts
    BY <2>1, RobotsAssumption DEF RobotsAssumption
  <2>2. CASE text = <<>>
    <3>1. DOMAIN text = {} /\ <<>> \in Seq({})
      BY <2>2
    <3>2. {text[k] : k \in DOMAIN text} = {}
      BY <3>1
    <3> QED BY <2>2, <3>1, <3>2 DEF IsText
  <2> QED BY <2>1, <2>2 DEF Unreachable
<1>2. \A path : MayFetch(text, path, Anyone, IsAllowed(parsed, path, Anyone))
  BY <1>1, ReadsAnyText, Zenon DEF AgreesOn
<1>3. IF DelayOf(text, Anyone) = {} THEN asked = NoDelay ELSE asked \in DelayOf(text, Anyone)
  BY <1>1, ReadsAnyText, Zenon DEF AgreesOn
<1>4. /\ PolicyOf[text].allows = [t \in Targets |-> IsAllowed(parsed, PathOf[t], Anyone)]
      /\ PolicyOf[text].delay = IF asked = NoDelay THEN 0 ELSE asked
  BY Zenon DEF PolicyOf, Policy
<1> HIDE DEF parsed
<1>5. \A t \in Targets : MayFetch(text, PathOf[t], Anyone, PolicyOf[text].allows[t])
  <2> SUFFICES ASSUME NEW t \in Targets, NEW said, said = PolicyOf[text].allows[t]
               PROVE  MayFetch(text, PathOf[t], Anyone, said)
    OBVIOUS
  <2>1. said = IsAllowed(parsed, PathOf[t], Anyone)
    BY <1>4
  <2> QED BY <1>2, <2>1
<1> HIDE DEF asked
<1>6. \A d \in DelayOf(text, Anyone) : d \in 0..MaxInterval /\ d # NoDelay
  <2>1. \A d \in DelayOf(text, Anyone) : \E n \in DOMAIN text :
          d = text[n].val /\ text[n].key = "delay" /\ d # NoNumber
    BY DEF DelayOf
  <2>2. text # Unreachable => text \in Texts
    OBVIOUS
  <2>3. text = Unreachable => DOMAIN text = {}
    BY DEF Unreachable
  <2>4. \A d \in DelayOf(text, Anyone) : d \in 0..MaxInterval
    BY <2>1, <2>2, <2>3, RobotsAssumption DEF RobotsAssumption
  <2>5. 0..MaxInterval \subseteq Int
    BY LimiterAssumption DEF LimiterAssumption
  <2> QED BY <2>4, <2>5, NumberAssumption DEF NumberAssumption
<1>7. 0 \in 0..MaxInterval
  BY LimiterAssumption DEF LimiterAssumption
<1> QED BY <1>3, <1>4, <1>5, <1>6, <1>7 DEF GoesBy

LEMMA DelayRange == TypeOK => RobotsDelay \in 0..MaxInterval
<1> SUFFICES ASSUME TypeOK PROVE RobotsDelay \in 0..MaxInterval
  OBVIOUS
<1>1. CASE robots = NoRobots
  BY <1>1, LimiterAssumption DEF RobotsDelay, LimiterAssumption
<1>2. CASE robots # NoRobots
  <2>1. robots.policy \in Policies
    BY <1>2 DEF TypeOK
  <2>2. PICK text \in Texts \cup {Unreachable} : robots.policy = PolicyOf[text]
    BY <2>1 DEF Policies, PolicyOf
  <2> QED BY <1>2, <2>2, PolicyRead DEF RobotsDelay
<1> QED BY <1>1, <1>2

\* what the record recommends
LEMMA SignalsType ==
  ASSUME TypeOK, NEW sig, sig = Signals(rec, RobotsDelay)
  PROVE  /\ sig.limited = (rec > 0) /\ sig.share = (IF rec > 0 THEN Smaller(4, 1 + rec) ELSE 1)
         /\ sig.share \in 1..4 /\ sig.interval \in Int
<1>1. BaseInterval \in Nat /\ MinRlStep \in Nat /\ rec \in Nat
  BY LimiterAssumption DEF LimiterAssumption, TypeOK
<1>2. Smaller(4, 1 + rec) \in 1..4
  BY <1>1, SmallerOfTwo
<1> DEFINE grown == Smaller(4 * BaseInterval, (BaseInterval * (2 + rec)) \div 2)
<1>3. grown \in Int
  <2>1. (BaseInterval * (2 + rec)) \in Int
    BY <1>1
  <2>2. (BaseInterval * (2 + rec)) \div 2 \in Int /\ 4 * BaseInterval \in Int
    BY <1>1, <2>1
  <2> QED BY <2>2, SmallerOfTwo
<1>4. (IF rec > 0 THEN Larger(grown, MinRlStep) ELSE BaseInterval) \in Int
  BY <1>3, <1>1, LargerOfTwo
<1> QED BY <1>1, <1>2, <1>4, LargerOfTwo, DelayRange DEF Signals

\* the controllers a process starts with
LEMMA NewGovType == TypeOK => NewGov \in GovType /\ NewGov.pen <= MaxInterval /\ NewGov.inflight = 0
<1> SUFFICES ASSUME TypeOK PROVE NewGov \in GovType /\ NewGov.pen <= MaxInterval /\ NewGov.inflight = 0
  OBVIOUS
<1> DEFINE sig == Signals(rec, RobotsDelay)
<1>1. MaxConcurrency \in Nat \ {0} /\ Full \in Nat
  BY LimiterAssumption DEF LimiterAssumption
<1>2. sig.limited \in BOOLEAN /\ sig.share \in 1..4 /\ sig.interval \in Int
  <2>1. sig.limited \in BOOLEAN
    BY DEF Signals
  <2> HIDE DEF sig
  <2> QED BY <2>1, SignalsType DEF sig
<1>3. Larger(1, Rounded(MaxConcurrency, sig.share)) \in 1..MaxConcurrency
  BY <1>1, <1>2, RoundedRange, LargerOfTwo
<1>4. Larger(RlFloor, sig.interval) \in Int
  BY <1>2, RlFloorRange, LargerOfTwo
<1>5. ClampPenalty(Larger(RlFloor, sig.interval)) \in 1..MaxInterval
  BY <1>4, PenaltyRange
<1>6. 1 \in 1..MaxInterval
  BY RlFloorRange, LimiterAssumption DEF LimiterAssumption
<1> QED BY <1>1, <1>2, <1>3, <1>5, <1>6 DEF NewGov, GovType

-----------------------------------------------------------------------------
(* Types *)

Good(g) == g \in GovType /\ g.pen <= MaxInterval

\* What the operations on the controllers leave well typed.
LEMMA GovOperations ==
  ASSUME NEW g, Good(g)
  PROVE  /\ Good(Refilled(g)) /\ Refilled(g).inflight = g.inflight
         /\ Good(Freed(g)) /\ Freed(g).inflight = (IF g.inflight > 0 THEN g.inflight - 1 ELSE 0)
         /\ Good(Throttle(g)) /\ Throttle(g).inflight = g.inflight
         /\ Good(BackOff(g)) /\ BackOff(g).inflight = g.inflight
         /\ Good(Relaxed(g)) /\ Relaxed(g).inflight = g.inflight
<1>0. /\ MaxConcurrency \in Nat \ {0} /\ Full \in Nat /\ MaxInterval \in Nat
      /\ g.pen \in Int /\ g.limit \in 1..MaxConcurrency /\ g.inflight \in Nat
      /\ g.interval \in 1..MaxInterval /\ g.elapsed \in Nat /\ g.tokens \in Int /\ g.rl \in BOOLEAN
  BY LimiterAssumption DEF LimiterAssumption, Good, GovType
<1>1. Good(Refilled(g)) /\ Refilled(g).inflight = g.inflight
  <2>1. Full \div g.interval \in Int
    BY <1>0
  <2>2. g.tokens + g.elapsed * (Full \div g.interval) \in Int
    BY <1>0, <2>1
  <2>3. Smaller(Full, g.tokens + g.elapsed * (Full \div g.interval)) \in Int
    BY <1>0, <2>2, SmallerOfTwo
  <2> QED BY <2>3, <1>0 DEF Refilled, Good, GovType
<1>2. Good(Freed(g)) /\ Freed(g).inflight = (IF g.inflight > 0 THEN g.inflight - 1 ELSE 0)
  BY <1>0 DEF Freed, Good, GovType
<1>3. Good(Throttle(g)) /\ Throttle(g).inflight = g.inflight
  <2>1. Larger(1, g.limit \div 2) \in 1..MaxConcurrency
    <3>1. g.limit \div 2 \in 0..MaxConcurrency
      BY <1>0
    <3> QED BY <1>0, <3>1, LargerOfTwo
  <2> QED BY <2>1, <1>0 DEF Throttle, Good, GovType
<1>4. Good(BackOff(g)) /\ BackOff(g).inflight = g.inflight
  <2>1. ClampPenalty(2 * g.pen) \in 1..MaxInterval
    BY <1>0, PenaltyRange
  <2>2. Throttle(g).pen = g.pen
    BY <1>0 DEF Throttle, Good, GovType
  <2> DEFINE less == Throttle(g)
             pen == ClampPenalty(2 * g.pen)
  <2>3. BackOff(g) = [less EXCEPT !.rl = TRUE, !.pen = ClampPenalty(2 * less.pen)]
    BY DEF BackOff
  <2>4. less \in GovType /\ less.inflight = g.inflight /\ less.pen = g.pen
    BY <1>3, <2>2 DEF Good
  <2>5. pen \in Int /\ pen <= MaxInterval
    BY <2>1, <1>0
  <2> HIDE DEF less, pen
  <2>6. BackOff(g) = [less EXCEPT !.rl = TRUE, !.pen = pen]
    BY <2>3, <2>4 DEF pen
  <2> QED BY <2>4, <2>5, <2>6 DEF Good, GovType
<1>5. Good(Relaxed(g)) /\ Relaxed(g).inflight = g.inflight
  <2> DEFINE pen == IF g.rl THEN ClampPenalty(g.pen \div 2) ELSE g.pen
  <2>1. pen \in Int /\ pen <= MaxInterval
    <3>1. g.pen \div 2 \in Int
      BY <1>0
    <3>2. ClampPenalty(g.pen \div 2) \in 1..MaxInterval
      BY <3>1, PenaltyRange
    <3> QED BY <3>2, <1>0 DEF Good
  <2>2. Smaller(MaxConcurrency, g.limit + 1) \in 1..MaxConcurrency
    BY <1>0, SmallerOfTwo
  <2> DEFINE limited == g.rl /\ pen > RlFloor
  <2>3. limited \in BOOLEAN
    OBVIOUS
  <2>4. Relaxed(g) = [g EXCEPT !.limit = Smaller(MaxConcurrency, g.limit + 1), !.pen = pen,
                               !.rl = limited]
    BY Zenon DEF Relaxed
  <2> HIDE DEF pen, limited
  <2> QED BY <2>1, <2>2, <2>3, <2>4, <1>0 DEF Good, GovType
<1> QED BY <1>1, <1>2, <1>3, <1>4, <1>5

LEMMA GovIsGood == TypeOK => Good(Gov) /\ (gov # NoGov => Good(gov))
BY NewGovType DEF TypeOK, Gov, Good

\* the pace a poll sets is an interval, unless polls are not paced
LEMMA IntervalRange ==
  ASSUME TypeOK, NEW g, Good(g)
  PROVE  IntervalFor(g) \in Int /\ IntervalFor(g) <= MaxInterval
<1>1. Larger(BaseInterval, RobotsDelay) \in Int /\ Larger(BaseInterval, RobotsDelay) <= MaxInterval
  BY LargerOfTwo, DelayRange, LimiterAssumption DEF LimiterAssumption
<1>2. g.pen \in Int /\ g.pen <= MaxInterval /\ MaxInterval \in Int
  BY LimiterAssumption DEF LimiterAssumption, Good, GovType
<1> QED BY <1>1, <1>2, LargerOfTwo DEF IntervalFor

\* the time until the token is whole
LEMMA WaitType == ASSUME NEW g, Good(g) PROVE WaitFor(g) \in Int
<1>1. /\ Full \in Nat /\ MaxInterval \in Nat /\ MaxInterval <= Full
      /\ g.interval \in 1..MaxInterval /\ g.tokens \in Int
  BY LimiterAssumption DEF LimiterAssumption, Good, GovType
<1> DEFINE i == g.interval
<1>2. Full \div i \in Int /\ Full \div i > 0
  <2>1. i \in Nat /\ i > 0 /\ i <= Full
    BY <1>1
  <2> HIDE DEF i
  <2> QED BY <2>1, <1>1
<1> DEFINE perTick == Full \div i
<1>3. (Full - g.tokens + perTick - 1) \in Int
  BY <1>1, <1>2
<1> HIDE DEF perTick
<1>4. WaitFor(g) = (Full - g.tokens + perTick - 1) \div perTick
  BY DEF WaitFor, perTick
<1>5. perTick \in Int /\ perTick > 0
  BY <1>2 DEF perTick
<1> QED BY <1>3, <1>4, <1>5

\* one turn of the gate leaves the controllers typed
LEMMA ReserveType ==
  ASSUME TypeOK, NEW t \in Targets, NEW g, Good(g), Reserve(t, g)
  PROVE  /\ Good(gov') /\ timer' \in [Targets -> Int]
         /\ pc' \in [Targets -> States]
<1>1. gov' \in {g, [g EXCEPT !.inflight = g.inflight + 1]}
  BY DEF Reserve
<1>2. Good(gov')
  BY <1>1 DEF Good, GovType
<1>3. Goto(t, "fetching", 0) \/ Goto(t, "waiting", 0)
  BY DEF Reserve
<1> QED BY <1>2, <1>3 DEF Goto, TypeOK, States

LEMMA PaceType ==
  ASSUME TypeOK, NEW t \in Targets, NEW g, Good(g), Pace(t, g)
  PROVE  /\ Good(gov') /\ timer' \in [Targets -> Int]
         /\ pc' \in [Targets -> States]
<1> DEFINE r == Refilled(g)
<1>1. Good(r) /\ r.tokens \in Int
  BY GovOperations DEF Good, GovType
<1>2. CASE r.tokens >= Full /\ Reserve(t, [r EXCEPT !.tokens = r.tokens - Full])
  <2> DEFINE spent == [r EXCEPT !.tokens = r.tokens - Full]
  <2> HIDE DEF r
  <2>1. Good(spent)
    BY <1>1, LimiterAssumption DEF Good, GovType, LimiterAssumption
  <2> HIDE DEF spent
  <2> QED BY <1>2, <2>1, ReserveType DEF spent
<1>3. CASE gov' = r /\ Goto(t, "sleeping", WaitFor(r))
  <2>1. WaitFor(r) \in Int
    BY <1>1, WaitType
  <2> QED BY <1>1, <1>3, <2>1 DEF Goto, TypeOK, States
<1> QED BY <1>2, <1>3 DEF Pace

LEMMA AnswerType ==
  ASSUME TypeOK, NEW t \in Targets, NEW g, Good(g), Finish(t, g)
  PROVE  Good(gov') /\ timer' \in [Targets -> Int] /\ pc' \in [Targets -> States]
<1>1. gov' = g
  BY DEF Finish
<1>2. PICK d \in Delays(g) : Notify(t, "idle", d)
  BY DEF Finish
<1>3. d \in Int
  <2>1. PICK own \in OwnDelays : d = Larger(own, IntervalFor(g))
    BY DEF Delays
  <2> QED BY <2>1, IntervalRange, LargerOfTwo, LimiterAssumption DEF LimiterAssumption
<1> QED BY <1>1, <1>2, <1>3 DEF Notify, TypeOK, States, Waiters

\* Without controllers nobody is at the gate, or behind it.
Live == gov = NoGov => \A t \in Targets : pc[t] \in {"idle", "robots", "queued"}

LEMMA GoodIsLive == ASSUME NEW g, Good(g) PROVE g # NoGov
BY LimiterAssumption DEF LimiterAssumption, Good

\* Time leaves the controllers as they are, but for the time to credit.
LEMMA TickGov ==
  ASSUME TypeOK, Tick, gov # NoGov
  PROVE  Good(gov') /\ gov'.inflight = gov.inflight
<1>1. Good(gov) /\ gov.elapsed \in Nat /\ MaxInterval \in Nat
  BY LimiterAssumption DEF LimiterAssumption, TypeOK, Good, GovType
<1>2. UpTo(gov.elapsed, MaxInterval) \in Nat
  BY <1>1, SmallerOfTwo DEF UpTo
<1>3. gov' = [gov EXCEPT !.elapsed = UpTo(gov.elapsed, MaxInterval)]
  BY DEF Tick
<1> QED BY <1>1, <1>2, <1>3 DEF Good, GovType

\* a step at the gate, or after it, keeps the controllers and moves one poll
Kept ==
  /\ Good(gov') /\ timer' \in [Targets -> Int] /\ pc' \in [Targets -> States]
  /\ UNCHANGED <<site, robots>> /\ rec' \in Nat

RobotsStep(t) == BeginCached(t) \/ BeginRobots(t) \/ RobotsAnswer(t)

LEMMA GateSteps ==
  ASSUME TypeOK, Live, NEW t \in Targets, TaskStep(t), ~ RobotsStep(t)
  PROVE  Kept
<1> USE DEF States
<1>1. ASSUME EnterUnpaced(t) PROVE Kept
  BY <1>1, ReserveType, GovIsGood DEF EnterUnpaced, TypeOK, Kept
<1>2. ASSUME EnterPaced(t) PROVE Kept
  <2> DEFINE g == [Gov EXCEPT !.interval = IntervalFor(Gov)]
  <2>1. Good(g)
    BY <1>2, GovIsGood, IntervalRange, LimiterAssumption DEF EnterPaced, Good, GovType, LimiterAssumption
  <2> HIDE DEF g
  <2>2. Pace(t, g)
    BY <1>2 DEF EnterPaced, g
  <2> QED BY <2>1, <2>2, <1>2, PaceType DEF EnterPaced, TypeOK, Kept
<1>3. pc[t] \notin {"idle", "robots", "queued"} => Good(gov)
  BY GovIsGood DEF Live
<1>4. ASSUME Wake(t) PROVE Kept
  BY <1>4, <1>3, PaceType DEF Wake, TypeOK, Kept
<1>5. ASSUME Recheck(t) PROVE Kept
  BY <1>5, <1>3, ReserveType DEF Recheck, TypeOK, Kept
<1>6. ASSUME Answer(t) PROVE Kept
  <2>1. Good(gov) /\ Good(Freed(gov)) /\ rec' \in Nat
    <3>1. Good(gov)
      BY <1>6, <1>3 DEF Answer, TooMany, Failed, Unchanged, Changed, Finish
    <3>2. Smaller(RlBound, rec + 1) \in Nat
      BY SmallerOfTwo, LimiterAssumption DEF LimiterAssumption, TypeOK
    <3> QED BY <1>6, <3>1, <3>2, GovOperations
            DEF Answer, TooMany, Failed, Unchanged, Changed, TypeOK
  <2>2. CASE Changed(t)
    <3>1. timer' \in [Targets -> Int] /\ pc' \in [Targets -> States]
      BY <2>2 DEF Changed, Notify, TypeOK, Waiters
    <3> QED BY <2>1, <2>2, <3>1 DEF Changed, Kept
  <2>3. ASSUME NEW g, Good(g), Finish(t, g) PROVE Kept
    BY <2>1, <2>3, AnswerType DEF Finish, Kept
  <2> QED BY <1>6, <2>1, <2>2, <2>3, GovOperations DEF Answer, TooMany, Failed, Unchanged
<1>7. ASSUME FireDone(t) PROVE Kept
  <2> DEFINE g == Relaxed(gov)
  <2>1. Good(g) /\ gov' = g
    BY <1>7, <1>3, GovOperations DEF FireDone
  <2>2. PICK d \in Delays(g) : Goto(t, "idle", Larger(0, d - timer[t]))
    BY <1>7, <2>1 DEF FireDone
  <2>3. PICK own \in OwnDelays : d = Larger(own, IntervalFor(g))
    BY DEF Delays
  <2>4. d - timer[t] \in Int
    BY <2>1, <2>3, IntervalRange, LargerOfTwo, LimiterAssumption DEF LimiterAssumption, TypeOK
  <2>5. Larger(0, d - timer[t]) \in Int
    BY <2>4, LargerOfTwo
  <2>6. timer' \in [Targets -> Int] /\ pc' \in [Targets -> States]
    BY <2>2, <2>5 DEF Goto, TypeOK
  <2> QED BY <2>1, <2>6, <1>7 DEF FireDone, TypeOK, Kept
<1> QED BY <1>1, <1>2, <1>4, <1>5, <1>6, <1>7 DEF TaskStep, RobotsStep

LEMMA NextTypeOK == TypeOK /\ Live /\ [Next]_vars => TypeOK'
<1> SUFFICES ASSUME TypeOK, Live, [Next]_vars PROVE TypeOK'
  OBVIOUS
<1> USE DEF States
<1>1. ASSUME EditRobots PROVE TypeOK'
  BY <1>1 DEF EditRobots, TypeOK, history
<1>2. ASSUME Crash PROVE TypeOK'
  BY <1>2 DEF Crash, TypeOK
<1>3. ASSUME Tick PROVE TypeOK'
  <2>1. timer' \in [Targets -> Int]
    <3>1. ASSUME NEW t \in Targets
          PROVE  timer'[t] \in Int
      <4>1. timer[t] \in Int /\ Ttl \in Int /\ MaxInterval \in Int
        BY LimiterAssumption DEF LimiterAssumption, TypeOK
      <4>2. UpTo(timer[t], Ttl) \in Int /\ UpTo(timer[t], MaxInterval) \in Int
        BY <4>1, SmallerOfTwo DEF UpTo
      <4>3. Larger(0, timer[t] - 1) \in Int
        BY <4>1, LargerOfTwo
      <4> QED BY <1>3, <4>2, <4>3 DEF Tick
    <3> QED BY <1>3, <3>1 DEF Tick
  <2>2. robots' = NoRobots \/ robots' \in [policy : Policies, age : Int]
    <3>1. CASE robots # NoRobots
      <4>1. robots.age \in Int /\ Ttl \in Int
        BY <3>1, LimiterAssumption DEF LimiterAssumption, TypeOK
      <4>2. UpTo(robots.age, Ttl) \in Int
        BY <4>1, SmallerOfTwo DEF UpTo
      <4>3. robots' = [robots EXCEPT !.age = UpTo(robots.age, Ttl)]
        BY <1>3, <3>1 DEF Tick
      <4> QED BY <3>1, <4>2, <4>3 DEF TypeOK
    <3> QED BY <1>3, <3>1 DEF Tick
  <2>3. gov' = NoGov \/ (gov' \in GovType /\ gov'.pen <= MaxInterval)
    <3>1. CASE gov # NoGov
      BY <1>3, <3>1, TickGov DEF Good
    <3> QED BY <1>3, <3>1 DEF Tick
  <2> QED BY <2>1, <2>2, <2>3, <1>3 DEF Tick, TypeOK
<1>4. ASSUME NEW t \in Targets, TaskStep(t) PROVE TypeOK'
  <2>1. ASSUME BeginCached(t) \/ BeginRobots(t) PROVE TypeOK'
    <3>1. timer' \in [Targets -> Int] /\ pc' \in [Targets -> States]
      BY <2>1, LimiterAssumption DEF BeginCached, BeginRobots, Admit, Goto, TypeOK, LimiterAssumption
    <3> QED BY <2>1, <3>1 DEF BeginCached, BeginRobots, TypeOK, history
  <2>2. ASSUME RobotsAnswer(t) PROVE TypeOK'
    <3>1. timer' \in [Targets -> Int] /\ pc' \in [Targets -> States]
      BY <2>2, LimiterAssumption DEF RobotsAnswer, Admit, Goto, TypeOK, LimiterAssumption
    <3>2. PICK p \in Policies : robots' = [policy |-> p, age |-> timer[t]]
      BY <2>2 DEF RobotsAnswer, TypeOK, Policies, PolicyOf
    <3>3. timer[t] \in Int
      BY DEF TypeOK
    <3> QED BY <2>2, <3>1, <3>2, <3>3 DEF RobotsAnswer, TypeOK, history
  <2>3. CASE ~ RobotsStep(t)
    BY <1>4, <2>3, GateSteps DEF Kept, Good, TypeOK
  <2> QED BY <2>1, <2>2, <2>3 DEF RobotsStep
<1> QED BY <1>1, <1>2, <1>3, <1>4 DEF Next, vars, TypeOK

-----------------------------------------------------------------------------
(* The gate *)

\* WaitersAreWoken with what it rests on
GateInv == TypeOK /\ Live /\ WaitersAreWoken

\* Slots are counted when nobody takes or frees one and nobody comes to wait.
LEMMA GateUntouched ==
  ASSUME GateInv, NEW t \in Targets, NEW state \in {"idle", "robots", "queued", "sleeping"},
         pc[t] \in {"idle", "robots", "queued", "sleeping", "firing"},
         pc' = [pc EXCEPT ![t] = state],
         (Good(gov') /\ gov'.inflight = Gov.inflight) \/ gov' = gov
  PROVE  WaitersAreWoken'
<1>1. Holders' = Holders /\ Waiters' = Waiters
  BY DEF GateInv, TypeOK, Holders, Waiters
<1>2. \A u \in Targets : pc[u] = "notified" => pc'[u] = "notified"
  BY DEF GateInv, TypeOK
<1>3. gov = NoGov => Gov.inflight = 0 /\ Holders = {} /\ Cardinality({}) = 0
  BY NewGovType, FS_EmptySet DEF GateInv, Live, Gov, Holders
<1> QED BY <1>1, <1>2, <1>3 DEF GateInv, WaitersAreWoken, Gov

LEMMA HoldersFinite == IsFiniteSet(Holders) /\ Cardinality(Holders) \in Nat
BY FS_Subset, FS_CardinalityType, LimiterAssumption DEF LimiterAssumption, Holders

\* A poll that finds no slot waits behind one that holds a slot.
LEMMA ReserveGate ==
  ASSUME GateInv, NEW t \in Targets, pc[t] \in {"queued", "sleeping", "notified"},
         NEW g, Good(g), g.inflight = Gov.inflight, Reserve(t, g)
  PROVE  WaitersAreWoken'
<1>1. g.inflight = Cardinality(Holders)
  BY NewGovType, FS_EmptySet DEF GateInv, Live, WaitersAreWoken, Gov, Holders
<1>2. CASE g.inflight < g.limit
  <2>1. gov'.inflight = g.inflight + 1
    BY <1>2 DEF Reserve, Good, GovType
  <2>2. pc' = [pc EXCEPT ![t] = "fetching"]
    BY <1>2 DEF Reserve, Goto
  <2>3. Holders' = Holders \cup {t} /\ t \notin Holders
    BY <2>2 DEF Holders, GateInv, TypeOK
  <2>4. Cardinality(Holders') = Cardinality(Holders) + 1
    BY <2>3, HoldersFinite, FS_AddElement
  <2> QED BY <1>1, <2>1, <2>3, <2>4 DEF WaitersAreWoken
<1>3. CASE ~ (g.inflight < g.limit)
  <2>1. gov' = g /\ pc' = [pc EXCEPT ![t] = "waiting"]
    BY <1>3 DEF Reserve, Goto
  <2>2. Holders' = Holders
    BY <2>1 DEF Holders, GateInv, TypeOK
  <2>3. g.inflight \in Nat /\ g.limit \in Nat /\ g.limit >= 1
    BY LimiterAssumption DEF Good, GovType, LimiterAssumption
  <2>4. Holders # {}
    BY <1>1, <1>3, <2>3, FS_EmptySet, HoldersFinite
  <2> QED BY <1>1, <2>1, <2>2, <2>4 DEF WaitersAreWoken
<1> QED BY <1>2, <1>3

\* A poll that leaves frees its slot, and wakes one of those who wait.
LEMMA LeaveGate ==
  ASSUME GateInv, NEW t \in Targets, pc[t] = "fetching",
         NEW state \in {"idle", "firing"}, NEW clock, Notify(t, state, clock),
         gov'.inflight = Freed(gov).inflight
  PROVE  WaitersAreWoken'
<1>1. Good(gov) /\ gov.inflight = Cardinality(Holders)
  BY GovIsGood DEF GateInv, Live, WaitersAreWoken
<1>2. t \in Holders /\ Holders # {}
  BY DEF Holders
<1>3. Holders' = Holders \ {t}
  BY DEF Notify, Holders, Waiters, GateInv, TypeOK
<1>4. Cardinality(Holders') = Cardinality(Holders) - 1
  BY <1>2, <1>3, HoldersFinite, FS_RemoveElement
<1>5. gov.inflight > 0
  BY <1>1, <1>2, HoldersFinite, FS_EmptySet
<1>6. gov'.inflight = Cardinality(Holders')
  BY <1>1, <1>4, <1>5, GovOperations, HoldersFinite
<1>7. Waiters' # {} => \E u \in Targets : pc'[u] = "notified"
  <2>1. CASE Waiters = {} /\ pc' = [pc EXCEPT ![t] = state]
    BY <2>1 DEF Waiters, GateInv, TypeOK
  <2>2. ASSUME NEW w \in Waiters, pc' = [pc EXCEPT ![t] = state, ![w] = "notified"]
        PROVE  \E u \in Targets : pc'[u] = "notified"
    BY <2>2 DEF Waiters, GateInv, TypeOK
  <2> QED BY <2>1, <2>2 DEF Notify
<1> QED BY <1>6, <1>7 DEF WaitersAreWoken

LEMMA PaceGate ==
  ASSUME GateInv, NEW t \in Targets, pc[t] \in {"queued", "sleeping"},
         NEW g, Good(g), g.inflight = Gov.inflight, Pace(t, g)
  PROVE  WaitersAreWoken'
<1> DEFINE r == Refilled(g)
           spent == [r EXCEPT !.tokens = r.tokens - Full]
<1>1. Good(r) /\ r.inflight = Gov.inflight
  BY GovOperations
<1>2. Good(spent) /\ spent.inflight = Gov.inflight
  <2> HIDE DEF r
  <2> QED BY <1>1, LimiterAssumption DEF Good, GovType, LimiterAssumption
<1>3. CASE Reserve(t, spent)
  BY <1>2, <1>3, ReserveGate
<1>4. CASE gov' = r /\ Goto(t, "sleeping", WaitFor(r))
  BY <1>1, <1>4, GateUntouched DEF Goto
<1> QED BY <1>3, <1>4 DEF Pace

LEMMA NextLive == TypeOK /\ Live /\ [Next]_vars => Live'
<1> SUFFICES ASSUME TypeOK, Live, [Next]_vars PROVE Live'
  OBVIOUS
<1>1. CASE EditRobots \/ Crash \/ UNCHANGED vars
  BY <1>1 DEF EditRobots, Crash, vars, Live
<1>2. CASE Tick
  BY <1>2, TickGov, GoodIsLive DEF Tick, Live
<1>3. ASSUME NEW t \in Targets, TaskStep(t) PROVE Live'
  <2>1. CASE RobotsStep(t)
    <3>1. gov' = gov /\ \E state \in {"idle", "robots", "queued"} : pc' = [pc EXCEPT ![t] = state]
      BY <2>1 DEF RobotsStep, BeginCached, BeginRobots, RobotsAnswer, Admit, Goto
    <3> QED BY <3>1 DEF Live, TypeOK
  <2>2. CASE ~ RobotsStep(t)
    <3>1. Good(gov')
      BY <1>3, <2>2, GateSteps DEF Kept
    <3> QED BY <3>1, GoodIsLive DEF Live
  <2> QED BY <2>1, <2>2
<1> QED BY <1>1, <1>2, <1>3 DEF Next

LEMMA NextGate == GateInv /\ [Next]_vars => WaitersAreWoken'
<1> SUFFICES ASSUME GateInv, [Next]_vars PROVE WaitersAreWoken'
  OBVIOUS
<1>1. ASSUME UNCHANGED <<pc, gov>> PROVE WaitersAreWoken'
  BY <1>1 DEF GateInv, WaitersAreWoken, Holders, Waiters
<1>2. ASSUME Crash PROVE WaitersAreWoken'
  BY <1>2 DEF Crash, WaitersAreWoken, Holders, Waiters
<1>3. ASSUME Tick PROVE WaitersAreWoken'
  <2>1. UNCHANGED pc /\ (gov = NoGov => gov' = gov)
    BY <1>3 DEF Tick
  <2>2. gov # NoGov => gov'.inflight = gov.inflight
    BY <1>3, TickGov DEF GateInv
  <2> QED BY <2>1, <2>2 DEF GateInv, WaitersAreWoken, Holders, Waiters
<1>4. ASSUME NEW t \in Targets, TaskStep(t) PROVE WaitersAreWoken'
  <2>1. ASSUME RobotsStep(t) PROVE WaitersAreWoken'
    <3>1. /\ pc[t] \in {"idle", "robots"} /\ gov' = gov
          /\ \E state \in {"idle", "robots", "queued"} : pc' = [pc EXCEPT ![t] = state]
      BY <2>1 DEF RobotsStep, BeginCached, BeginRobots, RobotsAnswer, Admit, Goto
    <3> QED BY <3>1, GateUntouched
  <2>2. Good(Gov) /\ (pc[t] \notin {"idle", "robots", "queued"} => Good(gov) /\ Gov = gov)
    BY GovIsGood DEF GateInv, Live, Gov
  <2>3. ASSUME EnterUnpaced(t) PROVE WaitersAreWoken'
    BY <2>2, <2>3, ReserveGate DEF EnterUnpaced, MayEnter
  <2>4. ASSUME EnterPaced(t) PROVE WaitersAreWoken'
    <3> DEFINE g == [Gov EXCEPT !.interval = IntervalFor(Gov)]
    <3>1. Good(g) /\ g.inflight = Gov.inflight
      BY <2>2, <2>4, IntervalRange, LimiterAssumption
         DEF EnterPaced, Good, GovType, LimiterAssumption, GateInv
    <3> HIDE DEF g
    <3>2. Pace(t, g) /\ pc[t] = "queued"
      BY <2>4 DEF EnterPaced, MayEnter, g
    <3> QED BY <3>1, <3>2, PaceGate
  <2>5. ASSUME Wake(t) PROVE WaitersAreWoken'
    BY <2>2, <2>5, PaceGate DEF Wake
  <2>6. ASSUME Recheck(t) PROVE WaitersAreWoken'
    BY <2>2, <2>6, ReserveGate DEF Recheck
  <2>7. ASSUME Answer(t) PROVE WaitersAreWoken'
    <3>1. Good(gov) /\ Good(Freed(gov)) /\ pc[t] = "fetching"
      BY <2>2, <2>7, GovOperations DEF Answer, TooMany, Failed, Unchanged, Changed, Finish
    <3>2. CASE Changed(t)
      BY <3>1, <3>2, LeaveGate DEF Changed
    <3>3. ASSUME NEW g, g.inflight = Freed(gov).inflight, Finish(t, g) PROVE WaitersAreWoken'
      BY <3>1, <3>3, LeaveGate DEF Finish
    <3> QED BY <2>7, <3>1, <3>2, <3>3, GovOperations DEF Answer, TooMany, Failed, Unchanged
  <2>8. ASSUME FireDone(t) PROVE WaitersAreWoken'
    <3>1. Good(gov') /\ gov'.inflight = Gov.inflight /\ pc[t] = "firing"
      BY <2>2, <2>8, GovOperations DEF FireDone
    <3>2. pc' = [pc EXCEPT ![t] = "idle"]
      BY <2>8 DEF FireDone, Goto
    <3> QED BY <3>1, <3>2, GateUntouched
  <2> QED BY <1>4, <2>1, <2>3, <2>4, <2>5, <2>6, <2>7, <2>8 DEF TaskStep, RobotsStep
<1> QED BY <1>1, <1>2, <1>3, <1>4 DEF Next, EditRobots, vars

-----------------------------------------------------------------------------
\* The controllers, the polls and their clocks are well typed in every reachable state, and a
\* process without controllers has nobody at its gate (_gov creates them on first use).
THEOREM TypeCorrect == Spec => [](TypeOK /\ Live)
<1>1. Init => TypeOK /\ Live
  BY LimiterAssumption DEF Init, TypeOK, Live, States, LimiterAssumption
<1> QED BY <1>1, NextTypeOK, NextLive, PTL DEF Spec

\* For any texts a host may serve, the polls go by what one of them says, or by the licence of
\* one that could not be fetched; and every other text is read as its lines say (robots.py).
THEOREM RobotsHold == Spec => []RobotsReadAsWritten
<1>1. ReadAsWritten
  BY ReadsAnyText, RobotsAssumption DEF ReadAsWritten, RobotsAssumption
<1>2. TypeOK => RobotsReadAsWritten
  <2> SUFFICES ASSUME TypeOK, robots # NoRobots
               PROVE  \E text \in Texts \cup {Unreachable} : GoesBy(robots.policy, text)
    BY <1>1 DEF RobotsReadAsWritten
  <2>1. PICK text \in Texts \cup {Unreachable} : robots.policy = PolicyOf[text]
    BY DEF TypeOK, Policies, PolicyOf
  <2> QED BY <2>1, PolicyRead
<1> QED BY <1>2, TypeCorrect, PTL

\* For any number of targets no poll is stranded at the gate: whoever waits for a slot waits
\* behind a poll that holds one, or behind one already notified (_gate_enter, _gate_release).
THEOREM NobodyIsStranded == Spec => []WaitersAreWoken
<1>1. Init => WaitersAreWoken
  BY DEF Init, WaitersAreWoken, Waiters
<1>2. TypeOK /\ Live /\ WaitersAreWoken /\ [Next]_vars => WaitersAreWoken'
  BY NextGate DEF GateInv
<1> QED BY <1>1, <1>2, TypeCorrect, PTL DEF Spec

-----------------------------------------------------------------------------
(* A restarted process *)

\* What a record of refusals makes of the controllers of a new process.
LEMMA NewGovIsThrottled ==
  ASSUME TypeOK, rec > 0
  PROVE  /\ NewGov.rl = TRUE /\ NewGov.pen >= RlFloor
         /\ NewGov.limit < MaxConcurrency \/ MaxConcurrency = 1
         /\ NewGov.tokens = Full /\ NewGov.elapsed = 0
<1> DEFINE sig == Signals(rec, RobotsDelay)
<1>1. rec \in Nat /\ MaxConcurrency \in Nat \ {0}
  BY LimiterAssumption DEF LimiterAssumption, TypeOK
<1>2. sig.limited = TRUE /\ sig.share = Smaller(4, 1 + rec)
  BY DEF Signals
<1>3. sig.share \in 2..4
  BY <1>1, <1>2, SmallerOfTwo
<1>4. Larger(1, Rounded(MaxConcurrency, sig.share)) < MaxConcurrency \/ MaxConcurrency = 1
  <2>1. CASE MaxConcurrency > 1
    <3> HIDE DEF sig
    <3>1. /\ Rounded(MaxConcurrency, sig.share) \in 0..MaxConcurrency
          /\ Rounded(MaxConcurrency, sig.share) < MaxConcurrency
      BY <1>3, <2>1, RoundedRange
    <3> QED BY <1>1, <2>1, <3>1, LargerOfTwo
  <2> QED BY <1>1, <2>1
<1>5. ClampPenalty(Larger(RlFloor, sig.interval)) >= RlFloor
  BY SignalsType, LargerOfTwo, RlFloorRange, PenaltyRange
<1> QED BY <1>2, <1>4, <1>5 DEF NewGov

\* The first controllers of a process are those the record recommends, paced and in use.
LEMMA FirstGov ==
  ASSUME TypeOK, Live, [Next]_vars, gov = NoGov, gov' # NoGov, rec > 0
  PROVE  /\ gov'.limit < MaxConcurrency \/ MaxConcurrency = 1
         /\ gov'.interval >= RlFloor /\ gov'.tokens < Full
<1> DEFINE i == IntervalFor(NewGov)
           g == [NewGov EXCEPT !.interval = i]
           r == [g EXCEPT !.tokens = Full, !.elapsed = 0]
           spent == [r EXCEPT !.tokens = 0]
<1>1. Gov = NewGov /\ Good(NewGov) /\ Full \in Nat /\ Full > 0
  BY NewGovType, RlFloorRange, LimiterAssumption DEF Gov, Good, LimiterAssumption
<1>2. i \in 1..MaxInterval /\ i >= RlFloor
  <2>1. Larger(BaseInterval, RobotsDelay) \in Int /\ NewGov.pen \in Int
    BY <1>1, LargerOfTwo, DelayRange, LimiterAssumption DEF LimiterAssumption, Good, GovType
  <2>2. i >= NewGov.pen
    BY <2>1, NewGovIsThrottled, LargerOfTwo DEF IntervalFor
  <2>3. i \in Int /\ i <= MaxInterval
    BY <1>1, IntervalRange
  <2> HIDE DEF i
  <2> QED BY <2>1, <2>2, <2>3, NewGovIsThrottled, RlFloorRange
<1> HIDE DEF i
<1>3. PICK t \in Targets : EnterPaced(t)
  <2>1. PICK t \in Targets : TaskStep(t)
    BY DEF Next, EditRobots, Crash, Tick, vars
  <2>2. pc[t] \in {"idle", "robots", "queued"}
    BY DEF Live
  <2>3. ~ EnterUnpaced(t)
    BY <1>1, <1>2, RlFloorRange DEF EnterUnpaced, i
  <2> QED BY <2>1, <2>2, <2>3
          DEF TaskStep, BeginCached, BeginRobots, RobotsAnswer, Wake, Recheck, Answer, TooMany, Failed,
              Unchanged, Changed, Finish, FireDone
<1>4. Pace(t, g)
  BY <1>1, <1>3 DEF EnterPaced, i
<1>5. Refilled(g) = r
  <2>1. g.tokens = Full /\ g.elapsed = 0 /\ g.interval = i
    BY <1>1, NewGovIsThrottled DEF Good, GovType
  <2>2. Full \div i \in Int
    BY <1>1, <1>2, LimiterAssumption DEF LimiterAssumption
  <2>3. g.tokens + g.elapsed * (Full \div g.interval) = Full
    BY <2>1, <2>2, <1>1
  <2>4. Smaller(Full, Full) = Full
    BY <1>1, SmallerOfTwo
  <2> HIDE DEF g
  <2>5. Refilled(g) = [g EXCEPT !.tokens = Smaller(Full, g.tokens + g.elapsed * (Full \div g.interval)),
                                !.elapsed = 0]
    BY DEF Refilled
  <2> QED BY <2>3, <2>4, <2>5
<1>6. /\ r.tokens = Full /\ spent.tokens = 0 /\ spent.interval = i /\ spent.limit = NewGov.limit
      /\ spent = [r EXCEPT !.tokens = r.tokens - Full] /\ spent \in GovType
  <2>1. g \in GovType /\ g.interval = i /\ g.limit = NewGov.limit
    BY <1>1, <1>2 DEF Good, GovType
  <2> HIDE DEF g
  <2>2. r \in GovType /\ r.tokens = Full /\ r.interval = i /\ r.limit = NewGov.limit
    <3>1. Full \in Int
      BY <1>1
    <3> QED BY <2>1, <3>1 DEF GovType
  <2> HIDE DEF r
  <2>3. r.tokens - Full = 0
    BY <1>1, <2>2
  <2> QED BY <2>2, <2>3 DEF GovType
<1> HIDE DEF g, r, spent
<1>7. Reserve(t, spent)
  BY <1>1, <1>4, <1>5, <1>6 DEF Pace
<1>8. gov'.tokens = spent.tokens /\ gov'.interval = spent.interval /\ gov'.limit = spent.limit
  BY <1>6, <1>7 DEF Reserve, GovType
<1> QED BY <1>1, <1>2, <1>6, <1>8, NewGovIsThrottled

-----------------------------------------------------------------------------
(* The pacing *)

\* A smaller interval credits no less per tick.
LEMMA CreditPerTick ==
  ASSUME NEW a \in 1..MaxInterval, NEW b \in 1..MaxInterval, a <= b
  PROVE  /\ Full \div a \in Nat /\ Full \div b \in Nat /\ Full \div a > 0
         /\ Full \div b <= Full \div a /\ a * (Full \div a) <= Full
<1>1. Full \in Nat /\ MaxInterval <= Full /\ MaxInterval \in Nat
  BY LimiterAssumption DEF LimiterAssumption
<1>2. \A d \in 1..MaxInterval : /\ Full \div d \in Nat /\ Full \div d > 0
                                /\ d * (Full \div d) <= Full /\ Full < d * (Full \div d) + d
  BY <1>1
<1> DEFINE x == Full \div a
           y == Full \div b
<1>3. x \in Nat /\ y \in Nat /\ b * y <= Full /\ Full < a * x + a
  BY <1>2
<1> HIDE DEF x, y
<1>4. ASSUME y >= x + 1 PROVE FALSE
  <2>1. a * (x + 1) <= a * y
    BY <1>3, <1>4
  <2>2. a * y <= b * y
    BY <1>3
  <2>3. a * (x + 1) = a * x + a
    BY <1>3
  <2> QED BY <1>1, <1>3, <2>1, <2>2, <2>3
<1>5. y <= x
  BY <1>3, <1>4
<1> QED BY <1>2, <1>5 DEF x, y

\* Whole tokens after fewer ticks than an interval would be more than it credits.
LEMMA TokenTakesAnInterval ==
  ASSUME NEW a \in 1..MaxInterval, NEW n \in Nat, Full <= n * (Full \div a)
  PROVE  n >= a
<1> DEFINE x == Full \div a
<1>1. x \in Nat /\ x > 0 /\ a * x <= Full /\ Full \in Nat /\ a \in Nat
  BY CreditPerTick, LimiterAssumption DEF LimiterAssumption
<1>2. Full <= n * x
  OBVIOUS
<1> HIDE DEF x
<1>3. ASSUME n <= a - 1 PROVE FALSE
  <2>1. n * x <= (a - 1) * x
    BY <1>1, <1>3
  <2>2. (a - 1) * x = a * x - x
    BY <1>1
  <2>3. a * x \in Int /\ n * x \in Int
    BY <1>1
  <2> QED BY <1>1, <1>2, <2>1, <2>2, <2>3
<1> QED BY <1>1, <1>3

\* In n ticks nothing more is credited than n times the rate of the smallest interval since
\* the last grant, the ticks not yet credited among them.
Credited(g, n, least) ==
  /\ g.elapsed <= n
  /\ g.tokens <= (n - g.elapsed) * (Full \div least)

\* the bucket holds no more than its time since the last grant allows
Spaced ==
  /\ gap \in 0..MaxInterval /\ pace \in 1..MaxInterval
  /\ gap < MaxInterval => gov # NoGov /\ Credited(gov, gap, pace)

\* A refill credits the ticks that were left, at a rate that is not above the fastest.
LEMMA RefillCredits ==
  ASSUME NEW g, Good(g), NEW n \in Nat, NEW least \in 1..MaxInterval, Credited(g, n, least),
         NEW now, now = Smaller(least, g.interval)
  PROVE  /\ now \in 1..MaxInterval /\ Credited(Refilled(g), n, now)
         /\ Refilled(g).tokens <= n * (Full \div now) /\ Refilled(g).elapsed = 0
<1>1. /\ Full \in Nat /\ g.interval \in 1..MaxInterval /\ g.elapsed \in Nat /\ g.tokens \in Int
      /\ MaxInterval \in Nat
  BY LimiterAssumption DEF LimiterAssumption, Good, GovType
<1>2. now \in 1..MaxInterval /\ now <= least /\ now <= g.interval
  BY <1>1, SmallerOfTwo
<1> DEFINE new == Full \div now
           old == Full \div least
           rate == Full \div g.interval
           sum == g.tokens + g.elapsed * rate
<1>3. new \in Nat /\ old \in Nat /\ rate \in Nat /\ old <= new /\ rate <= new
  BY <1>1, <1>2, CreditPerTick
<1>4. g.tokens <= (n - g.elapsed) * old /\ n - g.elapsed \in Nat
  BY <1>1 DEF Credited
<1>5. Refilled(g).elapsed = 0 /\ Refilled(g).tokens = Smaller(Full, sum)
  BY <1>1 DEF Refilled, Good, GovType
<1> HIDE DEF new, old, rate
<1>6. sum <= n * new /\ sum \in Int /\ n * new \in Int
  <2> DEFINE left == n - g.elapsed
  <2>1. left * old <= left * new
    BY <1>3, <1>4
  <2>2. g.elapsed * rate <= g.elapsed * new
    BY <1>1, <1>3
  <2>3. left * new + g.elapsed * new = n * new
    BY <1>1, <1>3
  <2>4. left * old \in Int /\ left * new \in Int /\ g.elapsed * rate \in Int /\ g.elapsed * new \in Int
        /\ n * new \in Int
    BY <1>1, <1>3, <1>4
  <2> HIDE DEF left
  <2>5. g.tokens <= left * old
    BY <1>4 DEF left
  <2> QED BY <1>1, <2>1, <2>2, <2>3, <2>4, <2>5
<1> HIDE DEF sum
<1>7. Refilled(g).tokens <= n * new
  BY <1>1, <1>5, <1>6, SmallerOfTwo
<1>8. (n - 0) * new = n * new
  BY <1>3
<1> QED BY <1>2, <1>5, <1>7, <1>8 DEF Credited, new

\* One turn of the gate keeps the bucket within its time, and grants no earlier than the
\* smallest interval since the last grant.
LEMMA PaceSpaced ==
  ASSUME TypeOK, Spaced, NEW t \in Targets, NEW g, Good(g), Pace(t, g),
         gov # NoGov => g.tokens = gov.tokens /\ g.elapsed = gov.elapsed
  PROVE  /\ Spaced'
         /\ pc'[t] \in {"waiting", "fetching"} => gap >= Smaller(pace, pace')
<1> DEFINE r == Refilled(g)
           spent == [r EXCEPT !.tokens = r.tokens - Full]
           now == Smaller(pace, g.interval)
<1>1. /\ Full \in Nat /\ MaxInterval \in Nat /\ MaxInterval > 0 /\ g.interval \in 1..MaxInterval
      /\ Good(r) /\ r.tokens \in Int /\ r.tokens <= Full /\ r.elapsed = 0
      /\ gap \in 0..MaxInterval /\ pace \in 1..MaxInterval
  <2>1. Good(r)
    BY GovOperations
  <2> DEFINE sum == g.tokens + g.elapsed * (Full \div g.interval)
  <2>2. g.tokens \in Int /\ g.elapsed \in Nat /\ g.interval \in 1..MaxInterval /\ Full \in Nat
        /\ MaxInterval \in Nat
    BY LimiterAssumption DEF LimiterAssumption, Good, GovType
  <2>3. sum \in Int
    <3>1. Full \div g.interval \in Int
      BY <2>2
    <3> QED BY <2>2, <3>1
  <2>4. r.tokens = Smaller(Full, sum) /\ r.elapsed = 0
    BY DEF Refilled, Good, GovType
  <2> HIDE DEF sum, r
  <2>5. r.tokens \in Int /\ r.tokens <= Full
    BY <2>2, <2>3, <2>4, SmallerOfTwo
  <2> QED BY <2>1, <2>2, <2>4, <2>5 DEF Spaced
<1>2. now \in 1..MaxInterval
  BY <1>1, SmallerOfTwo
<1>3. gap < MaxInterval => Credited(r, gap, now) /\ r.tokens <= gap * (Full \div now)
  <2>1. ASSUME gap < MaxInterval PROVE Credited(g, gap, pace)
    BY <2>1 DEF Spaced, Credited
  <2> QED BY <1>1, <2>1, RefillCredits
<1>4. pc[t] \in States /\ \A state \in States, clock \in {0, WaitFor(r)} :
        Goto(t, state, clock) => pc'[t] = state
  BY DEF Goto, TypeOK
<1> HIDE DEF now, r
<1>5. CASE r.tokens >= Full /\ Reserve(t, spent) /\ gap' = 0 /\ pace' = g.interval
  <2>1. gap >= now
    <3>1. CASE gap = MaxInterval
      BY <1>2, <3>1
    <3>2. CASE gap < MaxInterval
      <4>1. Full <= gap * (Full \div now)
        <5>1. Full \div now \in Nat
          BY <1>2, CreditPerTick
        <5>2. gap * (Full \div now) \in Int
          BY <1>1, <5>1
        <5> QED BY <1>1, <1>3, <1>5, <3>2, <5>2
      <4> QED BY <1>1, <1>2, <4>1, TokenTakesAnInterval
    <3> QED BY <1>1, <3>1, <3>2
  <2>2. spent.tokens = 0 /\ spent.elapsed = 0 /\ Good(spent)
    BY <1>1, <1>5 DEF Good, GovType
  <2> HIDE DEF spent
  <2>3. gov'.tokens = 0 /\ gov'.elapsed = 0 /\ Good(gov')
    BY <1>5, <2>2 DEF Reserve, Good, GovType
  <2>4. gov' # NoGov
    BY <2>3, GoodIsLive
  <2>5. (gap' - gov'.elapsed) * (Full \div pace') = 0
    <3>1. Full \div g.interval \in Nat
      BY <1>1, CreditPerTick
    <3> QED BY <1>5, <2>3, <3>1
  <2>6. Spaced'
    BY <1>1, <1>5, <2>3, <2>4, <2>5 DEF Spaced, Credited
  <2> QED BY <1>5, <2>1, <2>6 DEF now
<1>6. CASE gov' = r /\ Goto(t, "sleeping", WaitFor(r)) /\ pace' = now /\ gap' = gap
  <2>1. gov' # NoGov
    BY <1>1, <1>6, GoodIsLive
  <2>2. Spaced'
    BY <1>1, <1>2, <1>3, <1>6, <2>1 DEF Spaced
  <2>3. pc'[t] = "sleeping"
    BY <1>4, <1>6 DEF States
  <2> QED BY <2>2, <2>3
<1> QED BY <1>5, <1>6 DEF Pace, now, r

\* Steps that leave the bucket alone keep it within its time.
LEMMA SpacedUntouched ==
  ASSUME TypeOK, Spaced, UNCHANGED history, gov = NoGov \/ Good(gov'),
         gov # NoGov => gov'.tokens = gov.tokens /\ gov'.elapsed = gov.elapsed
  PROVE  Spaced'
<1>1. ASSUME gap < MaxInterval PROVE gov' # NoGov /\ Credited(gov', gap, pace)
  BY <1>1, GoodIsLive DEF Spaced, Credited
<1> QED BY <1>1 DEF Spaced, history, Credited

\* The answers and the slots leave the bucket alone.
LEMMA BucketKept ==
  ASSUME NEW g, Good(g)
  PROVE  /\ Freed(g).tokens = g.tokens /\ Freed(g).elapsed = g.elapsed
         /\ Throttle(g).tokens = g.tokens /\ Throttle(g).elapsed = g.elapsed
         /\ BackOff(g).tokens = g.tokens /\ BackOff(g).elapsed = g.elapsed
         /\ Relaxed(g).tokens = g.tokens /\ Relaxed(g).elapsed = g.elapsed
<1>1. Freed(g).tokens = g.tokens /\ Freed(g).elapsed = g.elapsed
  BY DEF Freed, Good, GovType
<1>2. Throttle(g).tokens = g.tokens /\ Throttle(g).elapsed = g.elapsed
  BY DEF Throttle, Good, GovType
<1>3. BackOff(g).tokens = g.tokens /\ BackOff(g).elapsed = g.elapsed
  <2> DEFINE less == Throttle(g)
             pen == ClampPenalty(2 * less.pen)
  <2>1. less \in GovType /\ less.tokens = g.tokens /\ less.elapsed = g.elapsed
    BY <1>2, GovOperations DEF Good
  <2>2. BackOff(g) = [less EXCEPT !.rl = TRUE, !.pen = ClampPenalty(2 * less.pen)]
    BY DEF BackOff
  <2> HIDE DEF less
  <2>3. BackOff(g) = [less EXCEPT !.rl = TRUE, !.pen = pen]
    BY <2>1, <2>2 DEF GovType
  <2> HIDE DEF pen
  <2> QED BY <2>1, <2>3 DEF GovType
<1>4. Relaxed(g).tokens = g.tokens /\ Relaxed(g).elapsed = g.elapsed
  <2> DEFINE pen == IF g.rl THEN ClampPenalty(g.pen \div 2) ELSE g.pen
             limited == g.rl /\ pen > RlFloor
  <2>1. Relaxed(g) = [g EXCEPT !.limit = Smaller(MaxConcurrency, g.limit + 1), !.pen = pen,
                               !.rl = limited]
    BY Zenon DEF Relaxed
  <2> HIDE DEF pen, limited
  <2> QED BY <2>1 DEF Good, GovType
<1> QED BY <1>1, <1>2, <1>3, <1>4

\* Time passes for the bucket as it does since the last grant.
LEMMA TickSpaced ==
  ASSUME TypeOK, Spaced, Tick
  PROVE  Spaced'
<1>1. gap \in 0..MaxInterval /\ pace \in 1..MaxInterval /\ MaxInterval \in Nat /\ pace' = pace
      /\ gap' = Smaller(MaxInterval, gap + 1)
  BY LimiterAssumption DEF LimiterAssumption, Spaced, Tick, UpTo
<1>2. gap' \in 0..MaxInterval /\ (gap' < MaxInterval => gap' = gap + 1)
  BY <1>1, SmallerOfTwo
<1>3. ASSUME gap' < MaxInterval PROVE gov' # NoGov /\ Credited(gov', gap + 1, pace)
  <2>1. gap < MaxInterval /\ gov # NoGov /\ Good(gov) /\ gov.elapsed <= gap
        /\ gov.tokens <= (gap - gov.elapsed) * (Full \div pace)
    BY <1>1, <1>2, <1>3, GovIsGood DEF Spaced, Credited
  <2>2. gov.elapsed \in Nat /\ gov' = [gov EXCEPT !.elapsed = Smaller(MaxInterval, gov.elapsed + 1)]
    BY <2>1 DEF Tick, UpTo, Good, GovType
  <2>3. Smaller(MaxInterval, gov.elapsed + 1) = gov.elapsed + 1
    BY <1>1, <1>2, <1>3, <2>1, <2>2, SmallerOfTwo
  <2>4. gov'.elapsed = gov.elapsed + 1 /\ gov'.tokens = gov.tokens
    BY <2>1, <2>2, <2>3 DEF Good, GovType
  <2>5. gap + 1 - gov'.elapsed = gap - gov.elapsed
    BY <1>1, <2>2, <2>4
  <2>6. gov' # NoGov
    BY <2>1, TickGov, GoodIsLive
  <2> QED BY <1>1, <2>1, <2>2, <2>4, <2>5, <2>6 DEF Credited
<1> QED BY <1>1, <1>2, <1>3 DEF Spaced, Credited

\* One turn of the gate for a poll that enters it paced.
LEMMA EnterSpaced ==
  ASSUME TypeOK, Spaced, NEW t \in Targets, EnterPaced(t)
  PROVE  Spaced' /\ (pc'[t] \in {"waiting", "fetching"} => gap >= Smaller(pace, pace'))
<1> DEFINE g == [Gov EXCEPT !.interval = IntervalFor(Gov)]
<1>1. Good(Gov) /\ Good(g) /\ g.tokens = Gov.tokens /\ g.elapsed = Gov.elapsed
  BY GovIsGood, IntervalRange, LimiterAssumption DEF EnterPaced, Good, GovType, LimiterAssumption
<1> HIDE DEF g
<1>2. Pace(t, g)
  BY DEF EnterPaced, g
<1>3. gov # NoGov => g.tokens = gov.tokens /\ g.elapsed = gov.elapsed
  BY <1>1 DEF Gov
<1> QED BY <1>1, <1>2, <1>3, PaceSpaced

LEMMA WakeSpaced ==
  ASSUME TypeOK, Live, Spaced, NEW t \in Targets, Wake(t)
  PROVE  Spaced' /\ (pc'[t] \in {"waiting", "fetching"} => gap >= Smaller(pace, pace'))
<1>1. Good(gov)
  BY GovIsGood DEF Wake, Live
<1> QED BY <1>1, PaceSpaced DEF Wake

\* A poll takes a slot, or waits for one, with the bucket as it is.
LEMMA ReserveSpaced ==
  ASSUME TypeOK, Spaced, NEW t \in Targets, Reserve(t, Gov), UNCHANGED history
  PROVE  Spaced'
<1>1. Good(Gov) /\ (gov # NoGov => Gov = gov)
  BY GovIsGood DEF Gov
<1>2. Good(gov') /\ gov'.tokens = Gov.tokens /\ gov'.elapsed = Gov.elapsed
  BY <1>1 DEF Reserve, Good, GovType
<1> QED BY <1>1, <1>2, SpacedUntouched

LEMMA NextSpaced == TypeOK /\ Live /\ Spaced /\ [Next]_vars => Spaced'
<1> SUFFICES ASSUME TypeOK, Live, Spaced, [Next]_vars PROVE Spaced'
  OBVIOUS
<1>1. ASSUME UNCHANGED <<gov, gap, pace>> PROVE Spaced'
  BY <1>1 DEF Spaced, Credited
<1>2. ASSUME Crash PROVE Spaced'
  BY <1>2, RlFloorRange, LimiterAssumption DEF Crash, Spaced, LimiterAssumption
<1>3. ASSUME Tick PROVE Spaced'
  BY <1>3, TickSpaced
<1>4. ASSUME NEW t \in Targets, TaskStep(t) PROVE Spaced'
  <2>1. ASSUME RobotsStep(t) PROVE Spaced'
    BY <1>1, <2>1 DEF RobotsStep, BeginCached, BeginRobots, RobotsAnswer, history
  <2>2. ASSUME EnterUnpaced(t) PROVE Spaced'
    BY <2>2, ReserveSpaced DEF EnterUnpaced, history
  <2>3. ASSUME EnterPaced(t) \/ Wake(t) PROVE Spaced'
    BY <2>3, EnterSpaced, WakeSpaced
  <2>4. pc[t] \notin {"idle", "robots", "queued"} => gov # NoGov /\ Good(gov) /\ Gov = gov
    BY GovIsGood DEF Live, Gov
  <2>5. ASSUME Recheck(t) PROVE Spaced'
    BY <2>4, <2>5, ReserveSpaced DEF Recheck, history
  <2>6. ASSUME Answer(t) PROVE Spaced'
    <3>1. Good(gov) /\ UNCHANGED history
      BY <2>4, <2>6 DEF Answer, TooMany, Failed, Unchanged, Changed, Finish, history
    <3>2. gov' \in {BackOff(Freed(gov)), Throttle(Freed(gov)), Relaxed(Freed(gov)), Freed(gov)}
      BY <2>6 DEF Answer, TooMany, Failed, Unchanged, Changed, Finish
    <3>3. Good(gov') /\ gov'.tokens = gov.tokens /\ gov'.elapsed = gov.elapsed
      <4>1. Good(Freed(gov)) /\ Freed(gov).tokens = gov.tokens /\ Freed(gov).elapsed = gov.elapsed
        BY <3>1, GovOperations, BucketKept
      <4> QED BY <3>2, <4>1, GovOperations, BucketKept
    <3> QED BY <3>1, <3>3, SpacedUntouched
  <2>7. ASSUME FireDone(t) PROVE Spaced'
    <3>1. Good(gov) /\ gov' = Relaxed(gov) /\ UNCHANGED history
      BY <2>4, <2>7 DEF FireDone, history
    <3> QED BY <3>1, GovOperations, BucketKept, SpacedUntouched
  <2> QED BY <1>4, <2>1, <2>2, <2>3, <2>5, <2>6, <2>7 DEF TaskStep, RobotsStep
<1> QED BY <1>1, <1>2, <1>3, <1>4 DEF Next, EditRobots, vars, history

\* A grant keeps the distance to the grant before it.
LEMMA GrantIsSpaced ==
  ASSUME TypeOK, Live, Spaced, Next, NEW t \in Targets, PacedGrant(t)
  PROVE  gap >= Smaller(pace, pace')
<1>1. /\ pc[t] = "sleeping" \/ (pc[t] = "queued" /\ IntervalFor(Gov) > 0)
      /\ pc'[t] \in {"waiting", "fetching"}
  BY DEF PacedGrant
<1>2. ASSUME EditRobots \/ Crash \/ Tick PROVE FALSE
  BY <1>1, <1>2 DEF EditRobots, Crash, Tick
<1>3. PICK u \in Targets : TaskStep(u)
  BY <1>2 DEF Next
<1>4. u = t
  <2>1. ASSUME u # t PROVE pc'[t] = pc[t]
    <3>1. ASSUME NEW state, NEW clock, Goto(u, state, clock) PROVE pc'[t] = pc[t]
      BY <2>1, <3>1 DEF Goto, TypeOK
    <3>2. ASSUME NEW state, NEW clock, Notify(u, state, clock) PROVE pc'[t] = pc[t]
      BY <1>1, <2>1, <3>2 DEF Notify, Waiters, TypeOK
    <3>3. ASSUME NEW g, Reserve(u, g) PROVE pc'[t] = pc[t]
      BY <3>1, <3>3 DEF Reserve
    <3>4. ASSUME NEW g, Pace(u, g) PROVE pc'[t] = pc[t]
      BY <3>1, <3>3, <3>4 DEF Pace
    <3>5. ASSUME Answer(u) PROVE pc'[t] = pc[t]
      BY <3>2, <3>5 DEF Answer, TooMany, Failed, Unchanged, Changed, Finish
    <3>6. ASSUME RobotsStep(u) \/ FireDone(u) PROVE pc'[t] = pc[t]
      BY <3>1, <3>6 DEF RobotsStep, BeginCached, BeginRobots, RobotsAnswer, Admit, FireDone
    <3> QED BY <1>3, <3>3, <3>4, <3>5, <3>6
            DEF TaskStep, RobotsStep, EnterUnpaced, EnterPaced, Wake, Recheck
  <2> QED BY <1>1, <2>1
<1>5. EnterPaced(t) \/ Wake(t)
  <2>1. ~ EnterUnpaced(t)
    BY <1>1 DEF EnterUnpaced, MayEnter
  <2>2. ~ RobotsStep(t) /\ ~ Recheck(t) /\ ~ Answer(t) /\ ~ FireDone(t)
    BY <1>1 DEF RobotsStep, BeginCached, BeginRobots, RobotsAnswer, Recheck, Answer, TooMany, Failed,
                Unchanged, Changed, Finish, FireDone
  <2> QED BY <1>3, <1>4, <2>1, <2>2 DEF TaskStep, RobotsStep
<1> QED BY <1>1, <1>5, EnterSpaced, WakeSpaced

\* A host that ever answered 429 is met by a restarted process as a throttled one, for any
\* number of targets and any record: the first controllers are paced, and their cap is lowered,
\* before the first answer arrives (derive_signals, LearnedRateLimiter.seed).
THEOREM RestartIsWarm == Spec => RestartRemembers
<1>1. TypeOK /\ Live /\ [Next]_vars =>
        [\A t \in Targets :
           gov = NoGov /\ gov' # NoGov /\ rec > 0 =>
             /\ gov'.limit < MaxConcurrency \/ MaxConcurrency = 1
             /\ gov'.interval >= RlFloor /\ gov'.tokens < Full]_vars
  BY FirstGov
<1> QED BY <1>1, TypeCorrect, PTL DEF Spec, RestartRemembers

\* For any number of targets and any intervals, two paced grants are at least as far apart as
\* the smallest interval a poll set since the first of them, though the rate changes while polls
\* sleep and time is credited at the rate set last (_gate_enter, TokenBucket.acquire).
THEOREM PacingHolds == Spec => GrantsSpaced
<1>1. Init => Spaced
  BY RlFloorRange, LimiterAssumption DEF Init, Spaced, LimiterAssumption
<1>2. TypeOK /\ Live /\ Spaced /\ [Next]_vars =>
        [\A t \in Targets : PacedGrant(t) => gap >= Smaller(pace, pace')]_vars
  BY GrantIsSpaced
<1> QED BY <1>1, <1>2, NextSpaced, TypeCorrect, PTL DEF Spec, GrantsSpaced
=============================================================================
