-------------------------------- MODULE Cron --------------------------------
(***************************************************************************)
(* ujin/jobs/cron.py: five-field expressions and the next minute one names *)
(* after a time.  The calendar has hours, days, months and weeks of any    *)
(* length; every month is as long as the others.  Minutes are counted from *)
(* an epoch; Local maps a minute to what a clock in the zone shows.        *)
(*                                                                         *)
(* A field is a set of parts, a part [all, from, to, step]: a star or a    *)
(* range, every step-th value.                                             *)
(***************************************************************************)
EXTENDS Integers, FiniteSetsExt

CONSTANTS
  Minutes, Hours, Doms, Months, Dows,   \* per hour, day, month, year and week
  Summer, Saving,                       \* the minutes of a year in summer time, and its shift
  Horizon                               \* minutes next_after searches

ASSUME CronAssumption ==
  /\ {Minutes, Hours, Doms, Months, Dows} \subseteq Nat \ {0}
  /\ (Doms * Months) % Dows = 0
  /\ Summer \subseteq Nat /\ Saving \in Nat /\ Horizon \in Nat

Day == Minutes * Hours
Year == Day * Doms * Months

Star == [all |-> TRUE, from |-> 0, to |-> 0, step |-> 1]

\* _parse_field: v, a value from lo on, is in the field
InPart(part, lo, v) ==
  \/ part.all /\ (v - lo) % part.step = 0
  \/ ~ part.all /\ v \in part.from .. part.to /\ (v - part.from) % part.step = 0
InField(parts, lo, v) == \E part \in parts : InPart(part, lo, v)

\* day-of-week 7 is Sunday too
OnWeekDay(expr, d) == InField(expr.dow, 0, d) \/ (d = 0 /\ InField(expr.dow, 0, Dows))

\* when both are restricted, either will do
DayOk(expr, m) ==
  \/ expr.dom # {Star} /\ InField(expr.dom, 1, ((m \div Day) % Doms) + 1)
  \/ expr.dow # {Star} /\ OnWeekDay(expr, (m \div Day) % Dows)
  \/ expr.dom = {Star} /\ expr.dow = {Star}

\* the expression names the local minute m
Names(expr, m) ==
  /\ InField(expr.month, 1, ((m \div (Day * Doms)) % Months) + 1)
  /\ DayOk(expr, m)
  /\ InField(expr.hour, 0, (m \div Minutes) % Hours)
  /\ InField(expr.minute, 0, m % Minutes)

Local(m) == IF m % Year \in Summer THEN m + Saving ELSE m

\* datetime.timestamp: the earlier of two minutes a clock shows alike; one it skips is read
\* as if winter time went on
Epoch(local) ==
  LET shown == {m \in {local, local - Saving} : Local(m) = local}
  IN IF shown = {} THEN local ELSE Min(shown)

\* MUTANT: the minute under way counts
NextAfterOrNow(expr, m) ==
  {Epoch(Local(m) + k) : k \in {n \in 0 .. Horizon :
     /\ Names(expr, Local(m) + n)
     /\ \A i \in 0 .. n - 1 : ~ Names(expr, Local(m) + i)}}

\* next_after: the first one it names after the minute m under way; nothing, and it raises,
\* when there is none
NextAfter(expr, m) ==
  {Epoch(Local(m) + k) : k \in {n \in 1 .. Horizon :
     /\ Names(expr, Local(m) + n)
     /\ \A i \in 1 .. n - 1 : ~ Names(expr, Local(m) + i)}}
=============================================================================
