---------------------------- MODULE HostLimiter ----------------------------
(***************************************************************************)
(* The opt-in adaptive path of poll_once (adaptive=True,                   *)
(* respect_robots=True) for the targets of ONE host: the robots.txt check, *)
(* the learned limiter's gate (adapt/rate.py: a pacing bucket, then a      *)
(* concurrency slot under a condition variable), the feedback of each      *)
(* response, and the site store that outlives a crash.                     *)
(*                                                                         *)
(*   "idle" --> "robots" (robots.txt is being fetched) --> "queued"        *)
(*   "queued" --> "sleeping" (pacing) --> "waiting"/"notified" (slot)      *)
(*            --> "fetching" --> "firing" (on_change) --> "idle"           *)
(*                                                                         *)
(* The engine's own bucket, backoff and breaker are PollEngine's subject;  *)
(* here the delay they ask for is any of OwnDelays.  Time is in ticks of   *)
(* one second; counters that only matter up to a bound saturate there.     *)
(***************************************************************************)
EXTENDS Robots, FiniteSetsExt

CONSTANTS
  Targets,
  MaxConcurrency,   \* of the engine's semaphore and of the limiter alike
  BaseInterval,     \* adaptive_base_interval
  MinRlStep,        \* _MIN_RL_STEP and signals._MIN_RATE_LIMIT_INTERVAL
  MaxInterval,      \* _DEFAULT_MAX_INTERVAL
  Full,             \* one token, in units that every interval divides
  PathOf,           \* of each target, the path of its URL
  Texts,            \* what the host's robots.txt may be
  MoreTexts, Agents, Paths,   \* other texts the cache may read, and what it may be asked about them
  RobotsMayFail,    \* whether a robots.txt fetch may fail
  Ttl,              \* robots_ttl
  OwnDelays,        \* delays the target's own controllers may ask for
  RlBound,          \* model bound: rate_limit_count saturates here
  MayCrash, NoGov, NoRobots

\* the live controllers; of AIMD's limit, a float, the whole part, which is all that
\* .value gives away (it is at least 1): halving, adding one and the clamps between
\* whole numbers all commute with rounding down
GovType ==
  [limit : 1..MaxConcurrency, pen : Int, rl : BOOLEAN, inflight : Nat,
   interval : 1..MaxInterval, tokens : Int, elapsed : Nat]

\* a tick credits something
ASSUME LimiterAssumption ==
  /\ IsFiniteSet(Targets)
  /\ MaxConcurrency \in Nat \ {0}
  /\ BaseInterval \in Nat /\ BaseInterval % 2 = 0 /\ MinRlStep \in Nat \ {0}
  /\ MaxInterval \in Nat /\ BaseInterval <= MaxInterval /\ MinRlStep <= MaxInterval
  /\ Full \in Nat /\ MaxInterval <= Full /\ Ttl \in Nat \ {0} /\ RlBound \in Nat \ {0}
  /\ OwnDelays \subseteq 1..MaxInterval
  /\ RobotsMayFail \in BOOLEAN /\ MayCrash \in BOOLEAN
  /\ NoGov \notin GovType

\* the delays the host asks for are within the limiter's range
ASSUME RobotsAssumption ==
  /\ \A text \in Texts \cup MoreTexts : IsText(text)
  /\ \A text \in Texts : \A k \in DOMAIN text : text[k].key = "delay" => text[k].val \in 0..MaxInterval \cup {NoNumber}

VARIABLES
  site,      \* the host's robots.txt now
  robots,    \* RobotsCache entry and the adaptor's policy: [policy, age]
  rec,       \* the site store's rate_limit_count of the host
  gov,       \* the live controllers (_HostGov), or NoGov before first use
  pc, timer, \* each target's poll, and the clock its present wait is measured by
  gap, pace  \* history: ticks since the last paced grant; smallest interval set since

vars == <<site, robots, rec, gov, pc, timer, gap, pace>>
history == <<gap, pace>>

Smaller(a, b) == Min({a, b})
Larger(a, b) == Max({a, b})
RlFloor == Larger(BaseInterval, MinRlStep)

\* what poll_once and the limiter ask of a policy: for everyone, about the targets' paths
Policy(text) ==
  LET policy == Parse(text)  delay == CrawlDelay(policy, Anyone)
  IN [allows |-> [t \in Targets |-> IsAllowed(policy, PathOf[t], Anyone)],
      delay |-> IF delay = NoDelay THEN 0 ELSE delay]

\* a robots.txt that cannot be fetched is an empty one
Unreachable == <<>>
PolicyOf == [text \in Texts \cup {Unreachable} |-> Policy(text)]
Policies == {PolicyOf[text] : text \in DOMAIN PolicyOf}

RobotsDelay == IF robots = NoRobots THEN 0 ELSE robots.policy.delay

-----------------------------------------------------------------------------
(* What the persisted record recommends, and the controllers seeded from it *)

\* derive_signals: the interval grows by half the base per 429, up to four times;
\* the concurrency factor is 1/share
Signals(count, delay) ==
  LET limited == count > 0
      grown == Smaller(4 * BaseInterval, (BaseInterval * (2 + count)) \div 2) IN
  [limited  |-> limited,
   interval |-> Larger(IF limited THEN Larger(grown, MinRlStep) ELSE BaseInterval, delay),
   share    |-> IF limited THEN Smaller(4, 1 + count) ELSE 1]

\* Python's round of a/b: halves go to the even neighbour
Rounded(a, b) ==
  LET q == a \div b  r == 2 * (a % b) IN
  IF r > b \/ (r = b /\ q % 2 = 1) THEN q + 1 ELSE q

ClampPenalty(v) == Larger(RlFloor, Smaller(MaxInterval, v))

\* MUTANT: the controllers start out at the healthy cadence after a restart
ColdGov ==
  [limit |-> MaxConcurrency, pen |-> RlFloor, rl |-> FALSE, inflight |-> 0,
   interval |-> 1, tokens |-> Full, elapsed |-> 0]

NewGov ==
  LET sig == Signals(rec, RobotsDelay) IN
  [limit |-> Larger(1, Rounded(MaxConcurrency, sig.share)),
   pen |-> ClampPenalty(Larger(RlFloor, sig.interval)),
   rl |-> sig.limited, inflight |-> 0,
   interval |-> 1, tokens |-> Full, elapsed |-> 0]

Gov == IF gov = NoGov THEN NewGov ELSE gov

IntervalFor(g) ==
  LET floor == Larger(BaseInterval, RobotsDelay) IN
  IF g.rl THEN Larger(g.pen, floor) ELSE floor

\* MUTANT: the same time is credited again by the next refill
RefilledTwice(g) == [g EXCEPT !.tokens = Smaller(Full, @ + g.elapsed * (Full \div g.interval))]

\* the bucket credits the time since its last refill at the rate set LAST
Refilled(g) ==
  [g EXCEPT !.tokens = Smaller(Full, @ + g.elapsed * (Full \div g.interval)), !.elapsed = 0]

\* ticks until the token is whole
WaitFor(g) ==
  LET perTick == Full \div g.interval IN (Full - g.tokens + perTick - 1) \div perTick

-----------------------------------------------------------------------------
States == {"idle", "robots", "queued", "sleeping", "waiting", "notified",
           "fetching", "firing"}
Holders == {t \in Targets : pc[t] = "fetching"}
InSem == {t \in Targets : pc[t] \in {"sleeping", "waiting", "notified", "fetching"}}
Waiters == {t \in Targets : pc[t] = "waiting"}

TypeOK ==
  /\ site \in Texts
  /\ robots = NoRobots \/ robots \in [policy : Policies, age : Int]
  /\ rec \in Nat
  /\ gov = NoGov \/ (gov \in GovType /\ gov.pen <= MaxInterval)
  /\ pc \in [Targets -> States]
  /\ timer \in [Targets -> Int]

Init ==
  /\ site \in Texts /\ robots = NoRobots
  /\ rec = 0 /\ gov = NoGov
  /\ pc = [t \in Targets |-> "idle"]
  /\ timer = [t \in Targets |-> 0]
  /\ gap = MaxInterval /\ pace = MaxInterval

Goto(t, state, clock) ==
  /\ pc' = [pc EXCEPT ![t] = state]
  /\ timer' = [timer EXCEPT ![t] = clock]

-----------------------------------------------------------------------------
(* robots.txt *)

EditRobots ==
  /\ \E text \in Texts : text # site /\ site' = text
  /\ UNCHANGED <<robots, rec, gov, pc, timer, history>>

\* a disallowed poll is skipped without a fetch and comes back an interval later
Admit(t, policy) ==
  IF policy.allows[t] THEN Goto(t, "queued", 0)
  ELSE \E d \in OwnDelays : Goto(t, "idle", d)

Fresh == robots # NoRobots /\ robots.age < Ttl

BeginCached(t) ==
  /\ pc[t] = "idle" /\ timer[t] = 0 /\ Fresh
  /\ Admit(t, robots.policy)
  /\ UNCHANGED <<site, robots, rec, gov, history>>

BeginRobots(t) ==
  /\ pc[t] = "idle" /\ timer[t] = 0 /\ ~Fresh
  /\ Goto(t, "robots", 0)
  /\ UNCHANGED <<site, robots, rec, gov, history>>

\* the entry is stamped with the time its fetch BEGAN; an unreachable robots.txt
\* allows everything
RobotsAnswer(t) ==
  /\ pc[t] = "robots"
  /\ \E text \in {site} \cup (IF RobotsMayFail THEN {Unreachable} ELSE {}) :
       /\ robots' = [policy |-> PolicyOf[text], age |-> timer[t]]
       /\ Admit(t, PolicyOf[text])
  /\ UNCHANGED <<site, rec, gov, history>>

-----------------------------------------------------------------------------
(* The gate *)

\* take a slot, or wait on the condition variable
Reserve(t, g) ==
  IF g.inflight < g.limit
  THEN /\ Goto(t, "fetching", 0)
       /\ gov' = [g EXCEPT !.inflight = @ + 1]
  ELSE /\ Goto(t, "waiting", 0)
       /\ gov' = g

\* one turn of the bucket's loop for an entrant, or for a sleeper that woke up
Pace(t, g) ==
  LET r == Refilled(g) IN
  \/ /\ r.tokens >= Full
     /\ Reserve(t, [r EXCEPT !.tokens = @ - Full])
     /\ gap' = 0 /\ pace' = g.interval
  \/ /\ r.tokens < Full
     /\ gov' = r
     /\ Goto(t, "sleeping", WaitFor(r))
     /\ pace' = Smaller(pace, g.interval)
     /\ UNCHANGED gap

MayEnter(t) == pc[t] = "queued" /\ Cardinality(InSem) < MaxConcurrency

EnterUnpaced(t) ==
  /\ MayEnter(t) /\ IntervalFor(Gov) = 0
  /\ Reserve(t, Gov)
  /\ UNCHANGED <<site, robots, rec, gap, pace>>

EnterPaced(t) ==
  /\ MayEnter(t) /\ IntervalFor(Gov) > 0
  /\ Pace(t, [Gov EXCEPT !.interval = IntervalFor(Gov)])
  /\ UNCHANGED <<site, robots, rec>>

Wake(t) ==
  /\ pc[t] = "sleeping" /\ timer[t] = 0
  /\ Pace(t, gov)
  /\ UNCHANGED <<site, robots, rec>>

\* a notified waiter holds the lock again and looks at the cap again
Recheck(t) ==
  /\ pc[t] = "notified"
  /\ Reserve(t, gov)
  /\ UNCHANGED <<site, robots, rec, gap, pace>>

\* _gate_release: the slot is freed and one waiter is notified
Freed(g) == [g EXCEPT !.inflight = IF @ > 0 THEN @ - 1 ELSE @]

\* MUTANT: the release does not notify
NotifyNone(t, state, clock) ==
  /\ pc' = [pc EXCEPT ![t] = state]
  /\ timer' = [timer EXCEPT ![t] = clock]

Notify(t, state, clock) ==
  /\ timer' = [timer EXCEPT ![t] = clock]
  /\ \/ Waiters = {} /\ pc' = [pc EXCEPT ![t] = state]
     \/ \E w \in Waiters : pc' = [pc EXCEPT ![t] = state, ![w] = "notified"]

-----------------------------------------------------------------------------
(* Responses *)

\* LearnedRateLimiter.observe on the live controllers
Throttle(g) == [g EXCEPT !.limit = Larger(1, @ \div 2)]
BackOff(g) == [Throttle(g) EXCEPT !.rl = TRUE, !.pen = ClampPenalty(2 * @)]

\* MUTANT: clean answers give the slots back, but the penalty never ends
RelaxedHalf(g) == [g EXCEPT !.limit = Smaller(MaxConcurrency, @ + 1)]

Relaxed(g) ==
  LET pen == IF g.rl THEN ClampPenalty(g.pen \div 2) ELSE g.pen IN
  [g EXCEPT !.limit = Smaller(MaxConcurrency, @ + 1), !.pen = pen,
            !.rl = g.rl /\ pen > RlFloor]

\* the delay is floored by the learned cadence AFTER the feedback
Delays(g) == {Larger(d, IntervalFor(g)) : d \in OwnDelays}

\* a 429, another failure, or an unchanged answer: nothing is awaited after release
Finish(t, g) ==
  /\ pc[t] = "fetching"
  /\ gov' = g
  /\ \E d \in Delays(g) : Notify(t, "idle", d)
  /\ UNCHANGED <<site, robots, history>>

TooMany(t) ==
  /\ Finish(t, BackOff(Freed(gov)))
  /\ rec' = Smaller(RlBound, rec + 1)
Failed(t) == Finish(t, Throttle(Freed(gov))) /\ UNCHANGED rec
Unchanged(t) == Finish(t, Relaxed(Freed(gov))) /\ UNCHANGED rec

\* a changed answer: on_change is awaited before the feedback is given
Changed(t) ==
  /\ pc[t] = "fetching"
  /\ gov' = Freed(gov)
  /\ Notify(t, "firing", 0)
  /\ UNCHANGED <<site, robots, rec, history>>

FireDone(t) ==
  /\ pc[t] = "firing"
  /\ gov' = Relaxed(gov)
  /\ \E d \in Delays(gov') : Goto(t, "idle", Larger(0, d - timer[t]))
  /\ UNCHANGED <<site, robots, rec, history>>

-----------------------------------------------------------------------------
(* Crash and time *)

\* only the site store's database survives the process
Crash ==
  /\ MayCrash
  /\ gov # NoGov
  /\ robots' = NoRobots /\ gov' = NoGov
  /\ pc' = [t \in Targets |-> "idle"]
  /\ timer' = [t \in Targets |-> 0]
  /\ gap' = MaxInterval /\ pace' = MaxInterval
  /\ UNCHANGED <<site, rec>>

UpTo(n, bound) == Smaller(bound, n + 1)

\* a notified waiter is on the event loop's ready queue and runs before time passes
Tick ==
  /\ \A t \in Targets : pc[t] # "notified"
  /\ timer' = [t \in Targets |->
       CASE pc[t] = "robots" -> UpTo(timer[t], Ttl)
         [] pc[t] = "firing" -> UpTo(timer[t], MaxInterval)
         [] OTHER -> Larger(0, timer[t] - 1)]
  /\ robots' = IF robots = NoRobots THEN robots ELSE [robots EXCEPT !.age = UpTo(@, Ttl)]
  /\ gov' = IF gov = NoGov THEN gov ELSE [gov EXCEPT !.elapsed = UpTo(@, MaxInterval)]
  /\ gap' = UpTo(gap, MaxInterval)
  /\ UNCHANGED <<site, rec, pc, pace>>

-----------------------------------------------------------------------------
Answer(t) == TooMany(t) \/ Failed(t) \/ Unchanged(t) \/ Changed(t)

TaskStep(t) ==
  \/ BeginCached(t) \/ BeginRobots(t) \/ RobotsAnswer(t)
  \/ EnterUnpaced(t) \/ EnterPaced(t) \/ Wake(t) \/ Recheck(t)
  \/ Answer(t) \/ FireDone(t)

Next == EditRobots \/ Crash \/ Tick \/ \E t \in Targets : TaskStep(t)

\* coroutines that can run do, requests are answered, time passes
Fairness == WF_vars(Tick) /\ \A t \in Targets : WF_vars(TaskStep(t))

Spec == Init /\ [][Next]_vars /\ Fairness

-----------------------------------------------------------------------------
(* Properties *)

\* A robots.txt is read as its lines say: its groups, who they are for, the longest of the
\* patterns that hit, and the last delay; and what the polls go by, from a cache entry of any
\* age, is such a reading of a text the host has had, or the licence a failed fetch gives.
ReadAsWritten == \A text \in Texts \cup MoreTexts, agent \in Agents, path \in Paths : AgreesOn(text, agent, path)
GoesBy(policy, text) ==
  /\ \A t \in Targets : MayFetch(text, PathOf[t], Anyone, policy.allows[t])
  /\ IF DelayOf(text, Anyone) = {} THEN policy.delay = 0 ELSE policy.delay \in DelayOf(text, Anyone)
RobotsReadAsWritten ==
  /\ ReadAsWritten
  /\ robots # NoRobots => \E text \in Texts \cup {Unreachable} : GoesBy(robots.policy, text)

\* A poll waits for a slot only while another one holds a slot, and so will notify
\* it, or while a notified poll is about to look again: no order of releases, caps
\* raised by clean answers and caps lowered by a 429 strands it (_gate_enter,
\* _gate_release), and the slot count is the number of polls between the two.
WaitersAreWoken ==
  /\ gov # NoGov => gov.inflight = Cardinality(Holders)
  /\ Waiters # {} => Holders # {} \/ \E t \in Targets : pc[t] = "notified"

\* Two paced grants are at least as far apart as the smallest interval any poll set
\* since the first of them, however often the rate was changed while polls slept and
\* although elapsed time is credited at the new rate (_gate_enter sets bucket.rate).
PacedGrant(t) ==
  /\ pc[t] = "sleeping" \/ (pc[t] = "queued" /\ IntervalFor(Gov) > 0)
  /\ pc'[t] \in {"waiting", "fetching"}

GrantsSpaced == [][\A t \in Targets : PacedGrant(t) => gap >= Smaller(pace, pace')]_vars

\* A host that ever answered 429 is met by a restarted process as a throttled one:
\* before the first answer arrives the polls are paced and the cap is lowered
\* ("warm restart"), though nothing but the store's counter is left.
RestartRemembers ==
  [][\A t \in Targets :
       gov = NoGov /\ gov' # NoGov /\ rec > 0 =>
         /\ gov'.limit < MaxConcurrency \/ MaxConcurrency = 1
         /\ gov'.interval >= RlFloor /\ gov'.tokens < Full]_vars

\* Once the host answers cleanly for good and its robots.txt settles on allowing one of the
\* targets, the controllers return to the healthy cadence and full concurrency for
\* good, whatever penalties, skips and failed robots fetches came before.
HostRecovers ==
  (\E t \in Targets : <>[](PolicyOf[site].allows[t])) /\ <>[][\A t \in Targets : ~TooMany(t) /\ ~Failed(t) /\ ~Crash]_vars
    => <>[](gov # NoGov /\ gov.limit = MaxConcurrency /\ ~gov.rl)

=============================================================================
