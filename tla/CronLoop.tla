------------------------------ MODULE CronLoop ------------------------------
(***************************************************************************)
(* JobManager.cron_loop (ujin/jobs/manager.py) against the clock: it takes *)
(* the cron jobs that are due, polls them one after the other, computes    *)
(* each one's next fire and sleeps until the earliest.  Requests create,   *)
(* pause and resume jobs at any moment, in threads of their own (their     *)
(* other effects are JobManager's subject).                                *)
(*                                                                         *)
(* The loop reads the engine's clock, which is monotonic; it starts at     *)
(* Boot, a minute of the wall clock.  Time is in ticks, Minute of them a   *)
(* minute, and wraps round after a year; a fire is kept as the ticks left  *)
(* until then, 0 for any time that has come.                               *)
(***************************************************************************)
EXTENDS Cron

CONSTANTS
  Jobs,
  Exprs,      \* the expressions a job may be created with
  Minute,     \* ticks
  IdleSleep,  \* the sleep without a cron job
  MaxPoll,    \* bound: ticks a poll takes
  Boot,
  NoExpr, Nobody

ASSUME CronLoopAssumption ==
  /\ {Minute, IdleSleep} \subseteq Nat \ {0} /\ MaxPoll \in Nat /\ Boot \in Nat
  /\ NoExpr \notin Exprs

VARIABLES
  now,      \* the engine's clock
  expr,     \* of each job, or NoExpr
  on,       \* the enabled jobs
  arming,   \* jobs whose resume has set enabled, but not yet next_fire
  left,     \* until next_fire
  open,     \* jobs whose circuit is open
  pc,       \* the loop: "top", "poll", "sleep" or "dead"
  due,      \* its snapshot: the jobs still to poll
  busy,     \* the one it polls
  spent,    \* ticks the poll has taken
  wake,     \* ticks it still sleeps
  passed,   \* history: jobs whose expression named a minute since they were last armed
  known     \* history: jobs whose next fire the sleep was computed from

vars == <<now, expr, on, arming, left, open, pc, due, busy, spent, wake, passed, known>>
table == <<now, expr, on, arming, open>>

Init ==
  /\ now = 0 /\ expr = [j \in Jobs |-> NoExpr] /\ on = {} /\ arming = {}
  /\ left = [j \in Jobs |-> 0] /\ open = {}
  /\ pc = "top" /\ due = {} /\ busy = Nobody /\ spent = 0 /\ wake = 0
  /\ passed = {} /\ known = {}

Larger(a, b) == IF a < b THEN b ELSE a

\* next_fire from now on, as ticks from now; it raises when there is none
NextFire(e) == {Larger(0, m * Minute - now) : m \in NextAfter(e, now \div Minute)}

\* MUTANT: sleeps until the last of the fires
SleepToLast(fires) == IF fires = {} THEN 1 .. IdleSleep ELSE {Larger(1, Max(fires))}

\* the ticks to sleep: to the earliest fire of an enabled job, at least one; without such a
\* job what the polls left of IdleSleep
SleepFor(fires) == IF fires = {} THEN 1 .. IdleSleep ELSE {Larger(1, Min(fires))}
GoToSleep(fires) ==
  /\ pc' = "sleep" /\ known' = on
  /\ wake' \in SleepFor({fires[j] : j \in on})

-----------------------------------------------------------------------------
(* Requests *)

\* register() computes the next fire of an enabled job, and rejects one it cannot
Create(j, e, enabled) ==
  /\ expr[j] = NoExpr
  /\ expr' = [expr EXCEPT ![j] = e]
  /\ \/ ~ enabled /\ UNCHANGED <<on, left>>
     \/ /\ enabled
        /\ on' = on \cup {j}
        /\ \E fire \in NextFire(e) : left' = [left EXCEPT ![j] = fire]
  /\ UNCHANGED <<now, arming, open, pc, due, busy, spent, wake, passed, known>>

Pause(j) ==
  /\ j \in on /\ j \notin arming
  /\ on' = on \ {j} /\ known' = known \ {j}
  /\ UNCHANGED <<now, expr, arming, left, open, pc, due, busy, spent, wake, passed>>

ResumeFlag(j) ==
  /\ expr[j] # NoExpr /\ j \notin on
  /\ on' = on \cup {j} /\ arming' = arming \cup {j}
  /\ UNCHANGED <<now, expr, left, open, pc, due, busy, spent, wake, passed, known>>

\* an expression without a match raises here, with the job enabled
ResumeArm(j) ==
  /\ j \in arming
  /\ arming' = arming \ {j} /\ known' = known \ {j}
  /\ \/ NextFire(expr[j]) = {} /\ UNCHANGED <<left, passed>>
     \/ /\ \E fire \in NextFire(expr[j]) : left' = [left EXCEPT ![j] = fire]
        /\ passed' = passed \ {j}
  /\ UNCHANGED <<now, expr, on, open, pc, due, busy, spent, wake>>

\* breaker.allow() again
CircuitCools(j) ==
  /\ j \in open
  /\ open' = open \ {j}
  /\ UNCHANGED <<now, expr, on, arming, left, pc, due, busy, spent, wake, passed, known>>

-----------------------------------------------------------------------------
(* The loop *)

\* MUTANT: one job of them at a time
DueFirst ==
  LET all == {j \in on : left[j] = 0 /\ j \notin open}
  IN IF all = {} THEN {} ELSE {CHOOSE j \in all : TRUE}

\* the jobs to poll
Due == {j \in on : left[j] = 0 /\ j \notin open}

Top ==
  /\ pc = "top"
  /\ due' = Due
  /\ IF Due = {} THEN GoToSleep(left) ELSE pc' = "poll" /\ UNCHANGED <<wake, known>>
  /\ UNCHANGED <<table, left, busy, spent, passed>>

PollStart(j) ==
  /\ pc = "poll" /\ busy = Nobody /\ j \in due
  /\ busy' = j /\ spent' = 0
  /\ UNCHANGED <<table, left, pc, due, wake, passed, known>>

\* the poll of j is over: what is left of the snapshot, and the fires of all jobs
Rearmed(j, fire) == [left EXCEPT ![j] = fire]

PollEnd ==
  /\ busy # Nobody
  /\ \/ /\ NextFire(expr[busy]) = {}
        /\ pc' = "dead" /\ due' = {}
        /\ UNCHANGED <<left, wake, passed, known>>
     \/ \E fire \in NextFire(expr[busy]) :
          /\ left' = Rearmed(busy, fire)
          /\ passed' = passed \ {busy}
          /\ due' = due \ {busy}
          /\ IF due = {busy} THEN GoToSleep(Rearmed(busy, fire)) ELSE UNCHANGED <<pc, wake, known>>
  /\ open' \in {open, open \cup {busy}}  \* the poll failed once too often
  /\ busy' = Nobody /\ spent' = 0
  /\ UNCHANGED <<now, expr, on, arming>>

Wake ==
  /\ pc = "sleep" /\ wake = 0
  /\ pc' = "top"
  /\ UNCHANGED <<table, left, due, busy, spent, wake, passed, known>>

\* time passes while the loop sleeps, awaits a poll or is gone
Tick ==
  /\ \/ pc = "sleep" /\ wake > 0 /\ wake' = wake - 1 /\ UNCHANGED spent
     \/ busy # Nobody /\ spent < MaxPoll /\ spent' = spent + 1 /\ UNCHANGED wake
     \/ pc = "dead" /\ UNCHANGED <<wake, spent>>
  /\ now' = (now + 1) % (Year * Minute)
  /\ left' = [j \in Jobs |-> Larger(0, left[j] - 1)]
  /\ passed' = passed \cup {j \in Jobs : /\ expr[j] # NoExpr /\ now' % Minute = 0
                                         /\ Names(expr[j], Local(now' \div Minute))}
  /\ UNCHANGED <<expr, on, arming, open, pc, due, busy, known>>

-----------------------------------------------------------------------------
Loop == Top \/ (\E j \in Jobs : PollStart(j)) \/ PollEnd \/ Wake

Request(j) ==
  \/ \E e \in Exprs, enabled \in BOOLEAN : Create(j, e, enabled)
  \/ Pause(j) \/ ResumeFlag(j) \/ ResumeArm(j) \/ CircuitCools(j)

Next == Loop \/ Tick \/ \E j \in Jobs : Request(j)

\* the loop's coroutine runs when it can, polls end, time passes
Fairness == WF_vars(Loop) /\ WF_vars(Tick)

Spec == Init /\ [][Next]_vars /\ Fairness

-----------------------------------------------------------------------------
(* Properties *)

CanFire(j) == NextFire(expr[j]) # {}

\* A job is taken only when its expression named a minute of the engine's clock since its
\* last poll ended, or since it was created or resumed: no fire is polled twice, although
\* polls outlast minutes, sleeps overrun and jobs are paused under way.  A resume under way
\* is the exception: the job is enabled with the next fire it had before.
FiresOnce ==
  [][\A j \in due' \ due : CanFire(j) => j \in passed \/ j \in arming]_vars

\* A fire is not lost: an enabled job whose time has come is polled, unless it is paused, its
\* circuit is open, or the loop ended on an expression that can never fire.
EveryFireIsPolled ==
  \A j \in Jobs : (j \in on /\ left[j] = 0) ~> (busy = j \/ j \notin on \/ j \in open \/ pc = "dead")

\* The loop does not oversleep: it wakes by the next fire of every job that was enabled when
\* it went to sleep and has kept its next fire, even when it skipped one whose circuit was open.
WakesInTime ==
  pc = "sleep" => \A j \in known \cap on : wake <= Larger(1, left[j])

\* What an expression names is local time, "matching operator expectations" (cron.py): when
\* a next fire has been computed, the clock on the wall will show a minute it names.
FiresAtLocalTime ==
  \A j \in on : left[j] > 0 => Names(expr[j], Local(Boot + (now + left[j]) \div Minute))
=============================================================================
