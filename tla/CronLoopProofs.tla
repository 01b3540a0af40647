--------------------------- MODULE CronLoopProofs ---------------------------
(***************************************************************************)
(* Proofs about CronLoop, for any jobs, expressions, calendar, zone and    *)
(* lengths of polls and sleeps: the loop does not oversleep a fire, and    *)
(* where clocks are not put back it does not poll one twice.               *)
(***************************************************************************)
EXTENDS CronLoop, WellFoundedInduction, TLAPS

TypeOK ==
  /\ now \in Nat /\ left \in [Jobs -> Nat] /\ wake \in Int /\ IdleSleep \in Nat
  /\ expr \in [Jobs -> Exprs \cup {NoExpr}]
  /\ on \subseteq Jobs /\ due \subseteq Jobs /\ busy \in Jobs \cup {Nobody}

\* what the loop slept on, it slept on knowing it; a poll is under way only while it polls
LoopInv ==
  /\ TypeOK
  /\ \A j \in on : expr[j] # NoExpr
  /\ known \subseteq on
  /\ busy # Nobody => pc = "poll"
  /\ WakesInTime

LEMMA LargerIsEither ==
  ASSUME NEW a \in Int, NEW b \in Int
  PROVE  /\ Larger(a, b) \in {a, b} /\ Larger(a, b) >= a /\ Larger(a, b) >= b
         /\ Larger(a, b) \in Int
BY DEF Larger

\* The earliest of some fires is one of them, and no later than any.
LEMMA Earliest ==
  ASSUME NEW S \in SUBSET Nat, S # {}
  PROVE  Min(S) \in S /\ \A x \in S : Min(S) <= x
<1>1. PICK n \in S : \A m \in S : n <= m
  <2> DEFINE less == {p \in Nat \X Nat : p[1] < p[2]}
  <2>1. PICK n \in S : \A m \in S : ~ (<<m, n>> \in less)
    <3>1. IsWellFoundedOn(less, Nat)
      BY NatLessThanWellFounded DEF OpToRel
    <3> HIDE DEF less
    <3> QED BY <3>1, WFMin
  <2>2. ASSUME NEW m \in S PROVE n <= m
    <3>1. m \in Nat /\ n \in Nat
      OBVIOUS
    <3>2. m < n => <<m, n>> \in less
      BY <3>1
    <3> QED BY <2>1, <3>1, <3>2
  <2> QED BY <2>2
<1> QED BY <1>1 DEF Min

LEMMA EpochType == ASSUME NEW local \in Int PROVE Epoch(local) \in Int
<1> DEFINE shown == {m \in {local, local - Saving} : Local(m) = local}
<1>1. Saving \in Nat
  BY CronAssumption DEF CronAssumption
<1>2. ASSUME shown # {} PROVE Min(shown) \in Int
  <2>1. \E x \in shown : \A y \in shown : x <= y
    BY <1>1, <1>2
  <2>2. Min(shown) \in shown
    BY <2>1 DEF Min
  <2> QED BY <1>1, <2>2
<1> QED BY <1>2 DEF Epoch

\* A next fire is a time to come, or one that has come.
LEMMA FireType ==
  ASSUME now \in Nat, NEW e, NEW fire \in NextFire(e)
  PROVE  fire \in Nat
<1>1. Minute \in Nat \ {0} /\ Saving \in Nat /\ Horizon \in Nat
  BY CronAssumption, CronLoopAssumption DEF CronAssumption, CronLoopAssumption
<1>2. now \div Minute \in Int
  BY <1>1
<1>3. PICK m \in NextAfter(e, now \div Minute) : fire = Larger(0, m * Minute - now)
  BY DEF NextFire
<1>4. Local(now \div Minute) \in Int
  BY <1>1, <1>2 DEF Local
<1>5. PICK k \in 1..Horizon : m = Epoch(Local(now \div Minute) + k)
  BY <1>3 DEF NextAfter
<1>6. m \in Int
  BY <1>1, <1>4, <1>5, EpochType
<1>7. m * Minute - now \in Int
  BY <1>1, <1>6
<1> QED BY <1>3, <1>7, LargerIsEither

\* Whatever the loop goes to sleep on, it wakes by the earliest of the fires.
LEMMA SleepEnds ==
  ASSUME NEW fires \in [Jobs -> Nat], on \subseteq Jobs, GoToSleep(fires), IdleSleep \in Nat
  PROVE  wake' \in Int /\ known' = on /\ \A j \in on : wake' <= Larger(1, fires[j])
<1> DEFINE S == {fires[j] : j \in on}
<1>1. S \subseteq Nat /\ wake' \in SleepFor(S)
  BY DEF GoToSleep
<1>2. CASE on = {}
  BY <1>1, <1>2 DEF SleepFor, GoToSleep
<1>3. CASE on # {}
  <2>1. S # {}
    BY <1>3
  <2>2. wake' = Larger(1, Min(S))
    BY <1>1, <2>1 DEF SleepFor
  <2>3. Min(S) \in Nat /\ \A j \in on : Min(S) <= fires[j]
    BY <1>1, <2>1, Earliest
  <2> HIDE DEF S
  <2> QED BY <2>2, <2>3 DEF Larger, GoToSleep
<1> QED BY <1>2, <1>3

LEMMA Positive == \A a, b \in Nat \ {0} : a * b \in Nat \ {0}
OBVIOUS

LEMMA NextInv == LoopInv /\ [Next]_vars => LoopInv'
<1> SUFFICES ASSUME LoopInv, [Next]_vars PROVE LoopInv'
  OBVIOUS
<1> USE DEF LoopInv, TypeOK
<1>1. CASE UNCHANGED vars
  BY <1>1 DEF vars, WakesInTime
<1>2. ASSUME Top PROVE LoopInv'
  <2>1. CASE Due = {}
    <3>1. GoToSleep(left) /\ UNCHANGED <<table, left, busy>> /\ due' = Due
      BY <1>2, <2>1 DEF Top
    <3>2. wake' \in Int /\ known' = on /\ \A j \in on : wake' <= Larger(1, left[j])
      BY <3>1, SleepEnds
    <3> QED BY <2>1, <3>1, <3>2, <1>2 DEF Top, table, WakesInTime
  <2>2. CASE Due # {}
    BY <1>2, <2>2 DEF Top, Due, table, WakesInTime
  <2> QED BY <2>1, <2>2
<1>3. ASSUME NEW j \in Jobs, PollStart(j) PROVE LoopInv'
  BY <1>3 DEF PollStart, table, WakesInTime
<1>4. ASSUME PollEnd PROVE LoopInv'
  <2>1. busy \in Jobs /\ pc = "poll"
    BY <1>4 DEF PollEnd
  <2>2. CASE NextFire(expr[busy]) = {} /\ pc' = "dead" /\ due' = {} /\ UNCHANGED <<left, wake, passed, known>>
    BY <1>4, <2>2 DEF PollEnd, WakesInTime
  <2>3. ASSUME NEW fire \in NextFire(expr[busy]), left' = Rearmed(busy, fire), due' = due \ {busy},
               IF due = {busy} THEN GoToSleep(Rearmed(busy, fire)) ELSE UNCHANGED <<pc, wake, known>>
        PROVE  LoopInv'
    <3>1. fire \in Nat
      BY <2>3, FireType
    <3>2. left' \in [Jobs -> Nat]
      BY <2>3, <3>1 DEF Rearmed
    <3>3. CASE due = {busy}
      <4>1. GoToSleep(left')
        BY <2>3, <3>3
      <4>2. wake' \in Int /\ known' = on /\ \A j \in on : wake' <= Larger(1, left'[j])
        BY <3>2, <4>1, SleepEnds
      <4> QED BY <1>4, <2>3, <3>2, <4>2 DEF PollEnd, WakesInTime
    <3>4. CASE due # {busy}
      BY <1>4, <2>1, <2>3, <3>2, <3>4 DEF PollEnd, WakesInTime
    <3> QED BY <3>3, <3>4
  <2> QED BY <1>4, <2>2, <2>3 DEF PollEnd
<1>5. ASSUME Wake PROVE LoopInv'
  BY <1>5 DEF Wake, table, WakesInTime
<1>6. ASSUME Tick PROVE LoopInv'
  <2>1. now' \in Nat
    <3>1. Year \in Nat \ {0}
      <4>1. Minutes \in Nat \ {0} /\ Hours \in Nat \ {0} /\ Doms \in Nat \ {0} /\ Months \in Nat \ {0}
        BY CronAssumption DEF CronAssumption
      <4>2. Minutes * Hours \in Nat \ {0}
        BY <4>1, Positive
      <4>3. Minutes * Hours * Doms \in Nat \ {0}
        BY <4>1, <4>2, Positive
      <4> QED BY <4>1, <4>3, Positive DEF Year, Day
    <3>2. Year * Minute \in Nat \ {0}
      BY <3>1, Positive, CronLoopAssumption DEF CronLoopAssumption
    <3>3. now' = (now + 1) % (Year * Minute)
      BY <1>6 DEF Tick
    <3> QED BY <3>2, <3>3
  <2>2. left' \in [Jobs -> Nat]
    BY <1>6 DEF Tick, Larger
  <2>3. wake' \in Int
    BY <1>6 DEF Tick
  <2>4. WakesInTime'
    <3>1. SUFFICES ASSUME pc = "sleep", NEW j \in known \cap on
                   PROVE  wake' <= Larger(1, left'[j])
      BY <1>6 DEF Tick, WakesInTime
    <3>2. wake' = wake - 1 /\ left'[j] = Larger(0, left[j] - 1)
      BY <1>6, <3>1 DEF Tick
    <3>3. wake <= Larger(1, left[j]) /\ left[j] \in Nat /\ wake \in Int
      BY <3>1 DEF WakesInTime
    <3> QED BY <3>2, <3>3 DEF Larger
  <2> QED BY <1>6, <2>1, <2>2, <2>3, <2>4 DEF Tick
<1>7. ASSUME NEW j \in Jobs, NEW e \in Exprs, NEW enabled \in BOOLEAN, Create(j, e, enabled) PROVE LoopInv'
  <2>1. j \notin on /\ j \notin known /\ e # NoExpr
    BY <1>7, CronLoopAssumption DEF Create, CronLoopAssumption
  <2>2. CASE UNCHANGED <<on, left>>
    BY <1>7, <2>1, <2>2 DEF Create, WakesInTime
  <2>3. ASSUME on' = on \cup {j}, NEW fire \in NextFire(e), left' = [left EXCEPT ![j] = fire] PROVE LoopInv'
    <3>1. fire \in Nat
      BY <2>3, FireType
    <3> QED BY <1>7, <2>1, <2>3, <3>1 DEF Create, WakesInTime
  <2> QED BY <1>7, <2>2, <2>3 DEF Create
<1>8. ASSUME NEW j \in Jobs, Pause(j) \/ ResumeFlag(j) \/ CircuitCools(j) PROVE LoopInv'
  BY <1>8 DEF Pause, ResumeFlag, CircuitCools, WakesInTime
<1>9. ASSUME NEW j \in Jobs, ResumeArm(j) PROVE LoopInv'
  <2>1. CASE UNCHANGED left
    BY <1>9, <2>1 DEF ResumeArm, WakesInTime
  <2>2. ASSUME NEW fire \in NextFire(expr[j]), left' = [left EXCEPT ![j] = fire] PROVE LoopInv'
    <3>1. fire \in Nat
      BY <2>2, FireType
    <3> QED BY <1>9, <2>2, <3>1 DEF ResumeArm, WakesInTime
  <2> QED BY <1>9, <2>1, <2>2 DEF ResumeArm
<1> QED BY <1>1, <1>2, <1>3, <1>4, <1>5, <1>6, <1>7, <1>8, <1>9 DEF Next, Loop, Request

\* For any jobs and any calendar the loop is awake by the next fire of every job it knew when it
\* went to sleep (jobs/manager.py: cron_loop).
THEOREM NeverOversleeps == Spec => []WakesInTime
<1>1. Init => LoopInv
  BY CronLoopAssumption DEF Init, LoopInv, TypeOK, WakesInTime, CronLoopAssumption
<1>2. LoopInv => WakesInTime
  BY DEF LoopInv
<1> QED BY <1>1, <1>2, NextInv, PTL DEF Spec

-----------------------------------------------------------------------------
(* The calendar *)

\* What the quotient is, and what a multiple of the divisor adds to it.
LEMMA QuotientIs ==
  ASSUME NEW a \in Nat \ {0}, NEW m \in Int, NEW q \in Int, a * q <= m, m < a * q + a
  PROVE  m \div a = q /\ m % a = m - a * q
<1> DEFINE p == m \div a
<1>1. p \in Int /\ a * p <= m /\ m < a * p + a /\ m % a = m - a * p
  OBVIOUS
<1> HIDE DEF p
<1>2. ASSUME p >= q + 1 PROVE FALSE
  <2>1. a * (q + 1) <= a * p
    BY <1>1, <1>2
  <2> QED BY <1>1, <2>1
<1>3. ASSUME q >= p + 1 PROVE FALSE
  <2>1. a * (p + 1) <= a * q
    BY <1>1, <1>3
  <2> QED BY <1>1, <2>1
<1>4. p = q
  BY <1>1, <1>2, <1>3
<1> QED BY <1>1, <1>4 DEF p

LEMMA ShiftByMultiple ==
  ASSUME NEW a \in Nat \ {0}, NEW m \in Int, NEW k \in Int, NEW n, n = m + a * k
  PROVE  n \div a = (m \div a) + k /\ n % a = m % a /\ m \div a \in Int
<1> DEFINE p == m \div a
<1>1. p \in Int /\ a * p <= m /\ m < a * p + a /\ m % a = m - a * p
  OBVIOUS
<1> HIDE DEF p
<1>2. a * (p + k) = a * p + a * k /\ a * p \in Int /\ a * k \in Int
  BY <1>1
<1>3. a * (p + k) <= m + a * k /\ m + a * k < a * (p + k) + a
  BY <1>1, <1>2
<1>4. p + k \in Int /\ m + a * k \in Int
  BY <1>1, <1>2
<1>5. n \div a = p + k /\ n % a = n - a * (p + k)
  BY <1>3, <1>4, QuotientIs
<1> QED BY <1>1, <1>2, <1>5 DEF p

LEMMA SameRemainder ==
  ASSUME NEW a \in Nat \ {0}, NEW m \in Int, NEW n, \E k \in Int : n = m + a * k
  PROVE  n % a = m % a
<1>1. PICK k \in Int : n = m + a * k
  OBVIOUS
<1> QED BY <1>1, ShiftByMultiple

LEMMA YearParts ==
  /\ Minutes \in Nat \ {0} /\ Hours \in Nat \ {0} /\ Doms \in Nat \ {0} /\ Months \in Nat \ {0}
  /\ Dows \in Nat \ {0} /\ Day \in Nat \ {0} /\ Day * Doms \in Nat \ {0} /\ Year \in Nat \ {0}
  /\ Doms * Months \in Nat \ {0}
<1>1. /\ Minutes \in Nat \ {0} /\ Hours \in Nat \ {0} /\ Doms \in Nat \ {0} /\ Months \in Nat \ {0}
      /\ Dows \in Nat \ {0}
  BY CronAssumption DEF CronAssumption
<1>2. Day \in Nat \ {0}
  BY <1>1, Positive DEF Day
<1>3. Day * Doms \in Nat \ {0} /\ Doms * Months \in Nat \ {0}
  BY <1>1, <1>2, Positive
<1>4. Year \in Nat \ {0}
  BY <1>1, <1>3, Positive DEF Year
<1> QED BY <1>1, <1>2, <1>3, <1>4

LEMMA Products ==
  ASSUME NEW a \in Int, NEW b \in Int, NEW c \in Int
  PROVE  (a * b) * c = a * (b * c) /\ a * b \in Int
OBVIOUS

\* An expression names the same minutes every year.
LEMMA EveryYear ==
  ASSUME NEW e, NEW m \in Int, NEW y \in Int, NEW n, n = m + Year * y
  PROVE  Names(e, n) <=> Names(e, m)
<1>0. /\ Minutes \in Int /\ Hours \in Int /\ Doms \in Int /\ Months \in Int /\ Dows \in Int
      /\ Day \in Int /\ Day * Doms \in Int /\ Year \in Int /\ Doms * Months \in Int
  BY YearParts
<1>1. (n \div (Day * Doms)) % Months = (m \div (Day * Doms)) % Months
  <2>1. Year * y = (Day * Doms) * (Months * y) /\ Months * y \in Int
    BY <1>0, Products DEF Year
  <2> DEFINE X == Day * Doms
             p == m \div X
             q == n \div X
  <2>2. X \in Nat \ {0}
    BY YearParts
  <2> HIDE DEF X
  <2>3. q = p + Months * y /\ p \in Int
    BY <2>1, <2>2, ShiftByMultiple DEF X
  <2> HIDE DEF p, q
  <2>4. q % Months = p % Months
    BY <2>3, YearParts, SameRemainder
  <2> QED BY <2>4 DEF p, q, X
<1> DEFINE k == (Doms * Months) * y
<1>2. n \div Day = (m \div Day) + k /\ m \div Day \in Int /\ k \in Int
  <2>1. Year = Day * (Doms * Months)
    BY <1>0, Products DEF Year
  <2>2. Year * y = Day * k /\ k \in Int
    BY <1>0, <2>1, Products
  <2> HIDE DEF k
  <2> QED BY <2>2, YearParts, ShiftByMultiple
<1> DEFINE p == m \div Day
           q == n \div Day
<1>3. q % Doms = p % Doms
  <2>1. k = Doms * (Months * y) /\ Months * y \in Int
    BY <1>0, Products
  <2> HIDE DEF k
  <2>2. q = p + k /\ p \in Int
    BY <1>2
  <2> HIDE DEF p, q
  <2> QED BY <2>1, <2>2, YearParts, SameRemainder
<1>4. q % Dows = p % Dows
  <2> DEFINE weeks == (Doms * Months) \div Dows
  <2>1. (Doms * Months) % Dows = 0
    BY CronAssumption DEF CronAssumption
  <2>2. Doms * Months = Dows * weeks /\ weeks \in Int
    BY <2>1, YearParts
  <2> HIDE DEF weeks
  <2>3. k = Dows * (weeks * y) /\ weeks * y \in Int
    BY <1>0, <2>2, Products
  <2> HIDE DEF k
  <2>4. q = p + k /\ p \in Int
    BY <1>2
  <2> HIDE DEF p, q
  <2> QED BY <2>3, <2>4, YearParts, SameRemainder
<1>5. (n \div Minutes) % Hours = (m \div Minutes) % Hours /\ n % Minutes = m % Minutes
  <2>1. Year = (Minutes * Hours) * (Doms * Months)
    BY <1>0, Products DEF Year, Day
  <2>2. Year * y = (Minutes * Hours) * k
    BY <1>0, <2>1, Products DEF Day
  <2> HIDE DEF k
  <2>3. Year * y = Minutes * (Hours * k) /\ Hours * k \in Int
    BY <1>0, <1>2, <2>2, Products
  <2> DEFINE z == Hours * k
             r == m \div Minutes
             s == n \div Minutes
  <2>4. n = m + Minutes * z /\ z \in Int
    BY <2>3
  <2> HIDE DEF z
  <2>5. s = r + z /\ n % Minutes = m % Minutes /\ r \in Int
    <3>1. s = r + z /\ r \in Int
      BY <2>4, YearParts, ShiftByMultiple
    <3> QED BY <2>4, <3>1, YearParts, SameRemainder
  <2>6. s = r + Hours * k
    BY <2>5 DEF z
  <2> HIDE DEF r, s
  <2>7. s % Hours = r % Hours
    BY <1>2, <2>5, <2>6, YearParts, SameRemainder
  <2> QED BY <2>5, <2>7 DEF r, s
<1> QED BY <1>1, <1>3, <1>4, <1>5 DEF Names, DayOk, OnWeekDay

LEMMA NoSummer ==
  ASSUME Summer = {}, NEW m \in Int
  PROVE  Local(m) = m /\ Epoch(m) = m
<1>1. \A x : Local(x) = x
  BY DEF Local
<1>2. {x \in {m, m - Saving} : Local(x) = m} = {m}
  BY <1>1
<1>3. Min({m}) = m
  BY DEF Min
<1> QED BY <1>1, <1>2, <1>3 DEF Epoch

-----------------------------------------------------------------------------
(* No fire twice *)

\* at the tick f the expression fires
Fires(e, f) == f % Minute = 0 /\ Names(e, f \div Minute)

Never(e) == \A m \in Nat : ~ Names(e, m)

\* A next fire is at a tick to come at which the expression fires.
LEMMA NextFireFires ==
  ASSUME Summer = {}, now \in Nat, NEW e, NEW fire \in NextFire(e)
  PROVE  fire \in Nat \ {0} /\ Fires(e, now + fire)
<1> DEFINE b == now \div Minute
<1>1. Minute \in Nat \ {0} /\ Horizon \in Nat
  BY CronAssumption, CronLoopAssumption DEF CronAssumption, CronLoopAssumption
<1>2. b \in Nat /\ now < Minute * b + Minute
  BY <1>1
<1>3. PICK m \in NextAfter(e, b) : fire = Larger(0, m * Minute - now)
  BY DEF NextFire
<1> HIDE DEF b
<1>4. PICK k \in 1..Horizon : m = Epoch(Local(b) + k) /\ Names(e, Local(b) + k)
  BY <1>3 DEF NextAfter
<1>5. m = b + k /\ Names(e, m) /\ m \in Nat /\ k \in Nat /\ k >= 1
  BY <1>1, <1>2, <1>4, NoSummer
<1>6. Minute * (b + 1) <= Minute * m /\ Minute * (b + 1) = Minute * b + Minute /\ Minute * m \in Nat
      /\ m * Minute = Minute * m /\ Minute * b \in Nat
  BY <1>1, <1>2, <1>5
<1> DEFINE f == m * Minute
<1>7. f \in Nat /\ f > now /\ f = Minute * m /\ fire = Larger(0, f - now)
  <2>1. fire = Larger(0, f - now) /\ f = Minute * m
    BY <1>3, <1>6
  <2> HIDE DEF f
  <2> QED BY <1>1, <1>2, <1>6, <2>1
<1> HIDE DEF f
<1>8. fire = f - now /\ fire \in Nat \ {0} /\ now + fire = f
  BY <1>7 DEF Larger
<1>9. f \div Minute = m /\ f % Minute = 0
  <2>1. Minute * m <= f /\ f < Minute * m + Minute /\ f - Minute * m = 0 /\ m \in Int /\ f \in Int
    BY <1>1, <1>5, <1>7
  <2> QED BY <1>1, <2>1, QuotientIs
<1> QED BY <1>5, <1>8, <1>9 DEF Fires

\* The search covers a year: an expression without a next fire never fires.
LEMMA NoFireIsNever ==
  ASSUME Summer = {}, Horizon >= Year, now \in Nat, NEW e, NextFire(e) = {}
  PROVE  Never(e)
<1> SUFFICES ASSUME NEW m \in Nat, Names(e, m) PROVE FALSE
  BY DEF Never
<1> DEFINE b == now \div Minute
           S == {n \in 1..Horizon : Names(e, b + n)}
<1>1. Minute \in Nat \ {0} /\ Horizon \in Nat /\ b \in Nat /\ Year \in Nat \ {0}
  BY YearParts, CronAssumption, CronLoopAssumption DEF CronAssumption, CronLoopAssumption
<1> HIDE DEF b
<1>2. S = {}
  <2> SUFFICES ASSUME S # {} PROVE FALSE
    OBVIOUS
  <2>1. S \in SUBSET Nat
    BY <1>1
  <2>2. PICK n \in S : \A i \in S : n <= i
    BY <2>1, Earliest
  <2>3. Local(b) = b
    BY <1>1, NoSummer
  <2>4. Names(e, Local(b) + n) /\ \A i \in 1..n - 1 : ~ Names(e, Local(b) + i)
    BY <1>1, <2>2, <2>3
  <2>5. Epoch(Local(b) + n) \in NextAfter(e, b)
    BY <2>2, <2>4 DEF NextAfter
  <2> QED BY <2>5 DEF NextFire, b
<1>3. PICK y \in Int : m + Year * y \in b + 1 .. b + Year
  <2> DEFINE q == (b + Year - m) \div Year
             d == b + Year - m
  <2>1. d \in Int /\ q = d \div Year
    BY <1>1
  <2> HIDE DEF d
  <2>2. q \in Int /\ Year * q <= d /\ d < Year * q + Year /\ Year * q \in Int
    BY <1>1, <2>1
  <2> HIDE DEF q
  <2>3. m + Year * q \in b + 1 .. b + Year
    BY <1>1, <2>2 DEF d
  <2> QED BY <2>2, <2>3
<1>4. Names(e, m + Year * y)
  BY EveryYear
<1> DEFINE n == m + Year * y - b
<1>5. n \in 1..Horizon /\ m + Year * y = b + n
  BY <1>1, <1>3
<1> QED BY <1>2, <1>4, <1>5

\* The fire a job waits for, unless it may be taken anyway.
Awaits(j) ==
  \/ j \in passed \/ Never(expr[j])
  \/ left[j] > 0 /\ Fires(expr[j], now + left[j])

\* a job is enabled with a fire to come, or has had it
OnceInv ==
  /\ LoopInv /\ now < Year * Minute
  /\ \A j \in on \ arming : Awaits(j)

LEMMA ClockRange == Year * Minute \in Nat \ {0} /\ Minute \in Nat \ {0}
BY YearParts, Positive, CronLoopAssumption DEF CronLoopAssumption

\* A tick brings every fire nearer, and the one that is reached has been named.
LEMMA TickAwaits ==
  ASSUME Summer = {}, OnceInv, Tick, NEW j \in on \ arming
  PROVE  Awaits(j)' /\ now' < Year * Minute
<1> DEFINE all == Year * Minute
           f == now + left[j]
           g == now' + (left[j] - 1)
<1>1. now \in Nat /\ now < all /\ left[j] \in Nat /\ all \in Nat \ {0} /\ j \in Jobs /\ expr[j] # NoExpr
  BY ClockRange DEF OnceInv, LoopInv, TypeOK
<1>2. /\ now' = (now + 1) % all /\ left'[j] = Larger(0, left[j] - 1) /\ UNCHANGED expr
      /\ (now' % Minute = 0 /\ Names(expr[j], Local(now' \div Minute)) => j \in passed')
      /\ (j \in passed => j \in passed')
  BY <1>1 DEF Tick
<1>3. now' \in Nat /\ now' < all /\ now' \in {now + 1, now + 1 - all}
  <2> HIDE DEF all
  <2>1. CASE now + 1 < all
    <3>1. (now + 1) % all = now + 1
      BY <1>1, <2>1
    <3> QED BY <1>1, <1>2, <2>1, <3>1
  <2>2. CASE now + 1 = all
    <3>1. all % all = 0
      BY <1>1
    <3> QED BY <1>1, <1>2, <2>2, <3>1
  <2> QED BY <1>1, <2>1, <2>2
<1>4. CASE j \in passed \/ Never(expr[j])
  BY <1>2, <1>3, <1>4 DEF Awaits, Never
<1>5. CASE left[j] > 0 /\ Fires(expr[j], f)
  <2>1. Fires(expr[j], g)
    <3>1. CASE g = f
      BY <1>5, <3>1
    <3>2. CASE f = g + all
      <4>1. all = Minute * Year /\ Year \in Int
        BY ClockRange, YearParts
      <4>2. g \in Nat /\ f \in Nat
        BY <1>1, <1>3, <1>5
      <4> HIDE DEF f, g, all
      <4>3. f \div Minute = (g \div Minute) + Year /\ g \div Minute \in Int
        BY <3>2, <4>1, <4>2, ClockRange, ShiftByMultiple
      <4>4. f % Minute = g % Minute
        <5>1. \E k \in Int : f = g + Minute * k
          BY <3>2, <4>1
        <5>2. g \in Int
          BY <4>2
        <5> QED BY <5>1, <5>2, ClockRange, SameRemainder
      <4>5. f \div Minute = (g \div Minute) + Year * 1
        BY <4>1, <4>3
      <4>6. Names(expr[j], f \div Minute) <=> Names(expr[j], g \div Minute)
        BY <4>3, <4>5, EveryYear
      <4> QED BY <1>5, <4>4, <4>6 DEF Fires
    <3> HIDE DEF all
    <3> QED BY <1>1, <1>3, <3>1, <3>2
  <2>2. CASE left[j] = 1
    <3>1. g = now'
      <4>1. left[j] - 1 = 0 /\ now' \in Int
        BY <1>3, <2>2
      <4> HIDE DEF all
      <4> QED BY <4>1
    <3>2. now' \div Minute \in Int
      BY <1>3, ClockRange
    <3>3. Local(now' \div Minute) = now' \div Minute
      BY <3>2, NoSummer
    <3>4. j \in passed'
      BY <1>2, <2>1, <3>1, <3>3 DEF Fires
    <3> QED BY <1>3, <3>4 DEF Awaits
  <2>3. CASE left[j] > 1
    <3>1. left'[j] = left[j] - 1 /\ left'[j] > 0
      BY <1>1, <1>2, <2>3 DEF Larger
    <3>2. Fires(expr'[j], now' + left'[j])
      BY <1>2, <2>1, <3>1
    <3> QED BY <1>3, <3>1, <3>2 DEF Awaits, Fires
  <2> QED BY <1>1, <1>5, <2>2, <2>3
<1> QED BY <1>4, <1>5 DEF OnceInv, Awaits

LEMMA NextOnce ==
  ASSUME Summer = {}, Horizon >= Year, OnceInv, [Next]_vars
  PROVE  OnceInv'
<1>1. LoopInv' /\ LoopInv /\ now \in Nat
  BY NextInv DEF OnceInv, LoopInv, TypeOK
<1>2. ASSUME NEW j, Awaits(j), UNCHANGED now, expr'[j] = expr[j], left'[j] = left[j],
             j \in passed => j \in passed'
      PROVE  Awaits(j)'
  BY <1>2 DEF Awaits, Never, Fires
<1>3. ASSUME NEW j \in Jobs, NEW fire \in NextFire(expr'[j]), left'[j] = fire, UNCHANGED now
      PROVE  Awaits(j)'
  <2>1. PICK e : e = expr'[j]
    OBVIOUS
  <2>2. fire \in Nat \ {0} /\ Fires(e, now + fire)
    BY <1>1, <1>3, <2>1, NextFireFires
  <2>3. Fires(expr'[j], now' + left'[j]) /\ left'[j] > 0
    BY <1>3, <2>1, <2>2
  <2> QED BY <2>3 DEF Awaits, Fires
<1>4. ASSUME UNCHANGED <<now, expr, left, on, arming, passed>> PROVE OnceInv'
  BY <1>1, <1>2, <1>4 DEF OnceInv
<1>5. ASSUME Top \/ Wake \/ UNCHANGED vars PROVE OnceInv'
  BY <1>4, <1>5 DEF Top, Wake, vars, table
<1>6. ASSUME NEW j \in Jobs, PollStart(j) \/ CircuitCools(j) PROVE OnceInv'
  BY <1>4, <1>6 DEF PollStart, CircuitCools, table
<1>7. ASSUME PollEnd PROVE OnceInv'
  <2>1. UNCHANGED <<now, expr, on, arming>> /\ busy \in Jobs
    BY <1>1, <1>7 DEF PollEnd, LoopInv, TypeOK
  <2>2. CASE UNCHANGED <<left, passed>>
    BY <1>4, <2>1, <2>2
  <2>3. ASSUME NEW fire \in NextFire(expr[busy]), left' = Rearmed(busy, fire), passed' = passed \ {busy}
        PROVE  OnceInv'
    <3>1. ASSUME NEW j \in on \ arming PROVE Awaits(j)'
      <4>1. CASE j = busy
        <5>1. left'[busy] = fire /\ expr'[busy] = expr[busy]
          BY <1>1, <2>1, <2>3 DEF Rearmed, LoopInv, TypeOK
        <5>2. ASSUME NEW b \in Jobs, b = busy PROVE Awaits(b)'
          BY <1>3, <2>1, <2>3, <5>1, <5>2
        <5> QED BY <2>1, <4>1, <5>2 DEF OnceInv, LoopInv, TypeOK
      <4>2. CASE j # busy
        <5>1. left'[j] = left[j] /\ (j \in passed => j \in passed') /\ expr'[j] = expr[j]
          BY <2>1, <2>3, <4>2 DEF Rearmed
        <5> QED BY <1>2, <2>1, <5>1 DEF OnceInv
      <4> QED BY <4>1, <4>2
    <3> QED BY <1>1, <2>1, <3>1 DEF OnceInv
  <2> QED BY <1>7, <2>2, <2>3 DEF PollEnd
<1>8. ASSUME Tick PROVE OnceInv'
  <2>1. UNCHANGED <<on, arming>>
    BY <1>8 DEF Tick
  <2>2. now' < Year * Minute
    <3>1. now' = (now + 1) % (Year * Minute)
      BY <1>8 DEF Tick
    <3> QED BY <1>1, <3>1, ClockRange
  <2> QED BY <1>1, <1>8, <2>1, <2>2, TickAwaits DEF OnceInv
<1>9. ASSUME NEW j \in Jobs, NEW e \in Exprs, NEW enabled \in BOOLEAN, Create(j, e, enabled) PROVE OnceInv'
  <2>1. /\ UNCHANGED <<now, arming, passed>> /\ j \notin on /\ expr' = [expr EXCEPT ![j] = e]
        /\ \A k \in on : expr'[k] = expr[k]
    BY <1>1, <1>9 DEF Create, LoopInv, TypeOK
  <2>2. CASE UNCHANGED <<on, left>>
    BY <1>1, <1>2, <2>1, <2>2 DEF OnceInv
  <2>3. ASSUME on' = on \cup {j}, NEW fire \in NextFire(e), left' = [left EXCEPT ![j] = fire] PROVE OnceInv'
    <3>1. left'[j] = fire /\ expr'[j] = e /\ \A k \in on : left'[k] = left[k]
      BY <1>1, <2>1, <2>3 DEF LoopInv, TypeOK
    <3>2. Awaits(j)'
      BY <1>3, <2>1, <2>3, <3>1
    <3>3. \A k \in on \ arming : Awaits(k)'
      BY <1>2, <2>1, <3>1 DEF OnceInv
    <3> QED BY <1>1, <2>1, <2>3, <3>2, <3>3 DEF OnceInv
  <2> QED BY <1>9, <2>2, <2>3 DEF Create
<1>10. ASSUME NEW j \in Jobs, Pause(j) \/ ResumeFlag(j) PROVE OnceInv'
  <2>1. UNCHANGED <<now, expr, left, passed>> /\ on' \ arming' \subseteq on \ arming
    BY <1>10 DEF Pause, ResumeFlag
  <2> QED BY <1>1, <1>2, <2>1 DEF OnceInv
<1>11. ASSUME NEW j \in Jobs, ResumeArm(j) PROVE OnceInv'
  <2>1. UNCHANGED <<now, expr, on>> /\ arming' = arming \ {j}
    BY <1>11 DEF ResumeArm
  <2>2. Awaits(j)'
    <3>1. CASE NextFire(expr[j]) = {}
      <4>1. Never(expr[j])
        BY <1>1, <3>1, NoFireIsNever
      <4> QED BY <2>1, <4>1 DEF Awaits, Never
    <3>2. ASSUME NEW fire \in NextFire(expr[j]), left' = [left EXCEPT ![j] = fire] PROVE Awaits(j)'
      <4>1. left'[j] = fire /\ expr'[j] = expr[j]
        BY <1>1, <2>1, <3>2 DEF LoopInv, TypeOK
      <4> QED BY <1>3, <2>1, <3>2, <4>1
    <3> QED BY <1>11, <3>1, <3>2 DEF ResumeArm
  <2>3. ASSUME NEW k \in on \ arming, k # j PROVE Awaits(k)'
    <3>1. left'[k] = left[k] /\ (k \in passed => k \in passed')
      BY <1>1, <1>11, <2>3 DEF ResumeArm, LoopInv, TypeOK
    <3> QED BY <1>2, <2>1, <2>3, <3>1 DEF OnceInv
  <2> QED BY <1>1, <2>1, <2>2, <2>3 DEF OnceInv
<1> QED BY <1>5, <1>6, <1>7, <1>8, <1>9, <1>10, <1>11 DEF Next, Loop, Request

\* What is taken has had its fire.
LEMMA TakenHasFired ==
  ASSUME Summer = {}, OnceInv, [Next]_vars, NEW j \in due' \ due, CanFire(j)
  PROVE  j \in passed \/ j \in arming
<1>1. j \in on /\ left[j] = 0 /\ now \in Nat
  BY DEF Next, Loop, Top, Due, PollStart, PollEnd, Wake, Tick, Request, Create, Pause, ResumeFlag, ResumeArm,
         CircuitCools, vars, OnceInv, LoopInv, TypeOK
<1>2. ASSUME Never(expr[j]) PROVE FALSE
  <2>1. PICK fire \in NextFire(expr[j]) : TRUE
    BY DEF CanFire
  <2>2. fire \in Nat \ {0} /\ Fires(expr[j], now + fire)
    BY <1>1, <2>1, NextFireFires
  <2>3. now + fire \in Nat
    BY <1>1, <2>2
  <2>4. (now + fire) \div Minute \in Nat
    BY <2>3, ClockRange
  <2> QED BY <1>2, <2>2, <2>4 DEF Fires, Never
<1> QED BY <1>1, <1>2 DEF OnceInv, Awaits

\* For any jobs, any calendar without summer time whose year the search covers, and any lengths of
\* polls and sleeps, a job is taken only when its expression named a minute since its last poll,
\* since it was created or resumed (jobs/manager.py: cron_loop; jobs/cron.py: next_after).
THEOREM NoFireTwice ==
  ASSUME Summer = {}, Horizon >= Year
  PROVE  Spec => FiresOnce
<1>1. Init => OnceInv
  <2>1. Init => LoopInv
    BY CronLoopAssumption DEF Init, LoopInv, TypeOK, WakesInTime, CronLoopAssumption
  <2>2. Init => now < Year * Minute
    BY ClockRange DEF Init
  <2> QED BY <2>1, <2>2 DEF Init, OnceInv
<1>2. OnceInv /\ [Next]_vars => OnceInv'
  BY NextOnce
<1>3. OnceInv /\ [Next]_vars =>
        [\A j \in due' \ due : CanFire(j) => j \in passed \/ j \in arming]_vars
  BY TakenHasFired
<1> QED BY <1>1, <1>2, <1>3, PTL DEF Spec, FiresOnce
=============================================================================
