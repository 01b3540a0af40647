----------------------------- MODULE PollEngine -----------------------------
(***************************************************************************)
(* ujin/engine.py: the daemon loop (run), one-shot passes (sweep) and      *)
(* direct polls (poll_once called by the job manager's run-now), all on    *)
(* the same Target objects, through one semaphore and one token bucket.    *)
(*                                                                         *)
(* poll_once is a coroutine; the model has one step per stretch of it      *)
(* between two awaits:                                                     *)
(*                                                                         *)
(*   "queued"   --AcquireSem-->  "bucket"   (async with self.sem)          *)
(*   "bucket"   --TakeToken-->   "fetching" (prev is read here)            *)
(*   "fetching" --Respond-->     "answered" (the source is read here)      *)
(*   "answered" --Complete-->    "idle", or "firing" when on_change runs   *)
(*   "firing"   --FireDone-->    "idle"     (prev and next_due are written)*)
(*                                                                         *)
(* The learned limiter and robots.txt (adaptive=True, respect_robots=True) *)
(* are off, as in both services.  Poll and change counters are statistics  *)
(* nothing reads back and are left out.                                    *)
(***************************************************************************)
EXTENDS Adapt, FiniteSets

CONSTANTS
  Objects,         \* Target objects, registered or not
  Keys, KeyOf,     \* the key each object is registered under
  Callers,         \* concurrent users of the engine besides its loop
  Loop,            \* the daemon loop, as a driver of polls
  Versions, NoFp,  \* fingerprints of a source's content; "no result yet"
  RetryAfters,     \* Retry-After values a failing source may send
  MaxConcurrency,  \* the semaphore's size
  Burst, Refill    \* the bucket: its size, the tokens a tick adds

ASSUME EngineAssumption ==
  /\ KeyOf \in [Objects -> Keys]
  /\ Loop \notin Callers
  /\ NoFp \notin Versions
  /\ RetryAfters \subseteq Nat
  /\ MaxConcurrency \in Nat \ {0}
  /\ Burst \in Nat \ {0} /\ Refill \in Nat \ {0}

Drivers == Callers \cup {Loop}
Tasks == Drivers \X Objects      \* one poll_once call: who called it, on which object
Driver(k) == k[1]
Object(k) == k[2]

VARIABLES
  targets,   \* engine.targets, as the set of registered objects
  unborn,    \* objects that no engine.add has built yet
  st,        \* the adaptive state of each object
  pc,        \* where each poll_once call is
  seen,      \* the prev fingerprint the call passed to poll()
  got,       \* the result of poll()
  delay,     \* the delay computed before on_change was awaited
  left,      \* what is left of it, counted from the poll's own end
  tokens,    \* TokenBucket._tokens
  loop,      \* run(): "check" | "gather" | "sleep" | "dead"
  wake,      \* what is left of run()'s sleep
  fired,     \* history: the fingerprint of the last on_change call per object
  bell       \* history: toggled by every on_change call (both kept without Callers only:
             \* polls of several drivers may deliver the same content twice)

sched == <<targets, unborn, st>>
tasks == <<pc, seen, got, delay, left>>
history == <<fired, bell>>
vars == <<sched, tasks, tokens, loop, wake, history>>

NoResult == [ok |-> FALSE, fp |-> NoFp, changed |-> FALSE, retryAfter |-> NoRetryAfter]
Results == [ok : BOOLEAN, fp : Versions \cup {NoFp}, changed : BOOLEAN,
            retryAfter : RetryAfters \cup {NoRetryAfter}]

\* a Target as the dataclass builds it: next_due is set by add
NewTarget == [interval |-> Clamp(BaseInterval), fails |-> 0, breaker |-> BreakerInit,
              prev |-> NoFp, due |-> 0, last |-> 0]

TypeOK ==
  /\ targets \subseteq Objects
  /\ unborn \subseteq Objects
  /\ st \in [Objects -> [interval : MinInterval..MaxInterval, fails : 0..FailureBound,
                         breaker : Breakers, prev : Versions \cup {NoFp},
                         due : Nat, last : Nat]]
  /\ pc \in [Tasks -> {"idle", "queued", "bucket", "fetching", "answered", "firing"}]
  /\ seen \in [Tasks -> Versions \cup {NoFp}]
  /\ got \in [Tasks -> Results]
  /\ delay \in [Tasks -> Nat]
  /\ left \in [Tasks -> Nat]
  /\ tokens \in 0..Burst
  /\ loop \in {"check", "gather", "sleep", "dead"}
  /\ wake \in Nat
  /\ fired \in [Objects -> Versions \cup {NoFp}]
  /\ bell \in [Objects -> BOOLEAN]

Init ==
  /\ targets = {} /\ unborn = Objects
  /\ st = [o \in Objects |-> NewTarget]
  /\ pc = [k \in Tasks |-> "idle"]
  /\ seen = [k \in Tasks |-> NoFp]
  /\ got = [k \in Tasks |-> NoResult]
  /\ delay = [k \in Tasks |-> 0]
  /\ left = [k \in Tasks |-> 0]
  /\ tokens = Burst
  /\ loop = "check" /\ wake = 0
  /\ fired = [o \in Objects |-> NoFp]
  /\ bell = [o \in Objects |-> FALSE]

-----------------------------------------------------------------------------
(* Registration *)

\* engine.add: a fresh Target replaces whatever its key named before
Add(o) ==
  /\ o \in unborn
  /\ unborn' = unborn \ {o}
  /\ targets' = {x \in targets : KeyOf[x] # KeyOf[o]} \cup {o}
  /\ \E phase \in 0..BaseInterval : st' = [st EXCEPT ![o].due = phase]
  /\ UNCHANGED <<tasks, tokens, loop, wake, history>>

\* DELETE /targets/{key}: polls already in flight go on with the object
Remove(o) ==
  /\ o \in targets
  /\ targets' = targets \ {o}
  /\ UNCHANGED <<unborn, st, tasks, tokens, loop, wake, history>>

-----------------------------------------------------------------------------
(* poll_once *)

Busy(d) == \E o \in Objects : pc[<<d, o>>] # "idle"

\* driver d starts one poll_once for every object of S
Start(d, S) ==
  /\ pc' = [k \in Tasks |-> IF Driver(k) = d /\ Object(k) \in S THEN "queued" ELSE pc[k]]
  /\ UNCHANGED <<seen, got, delay, left>>

InSem == {k \in Tasks : pc[k] \in {"bucket", "fetching", "answered"}}

AcquireSem(k) ==
  /\ pc[k] = "queued"
  /\ Cardinality(InSem) < MaxConcurrency
  /\ pc' = [pc EXCEPT ![k] = "bucket"]
  /\ UNCHANGED <<sched, seen, got, delay, left, tokens, loop, wake, history>>

\* the bucket grants a token and poll(target.prev) is called without a further await
TakeToken(k) ==
  /\ pc[k] = "bucket"
  /\ tokens >= 1
  /\ tokens' = tokens - 1
  /\ pc' = [pc EXCEPT ![k] = "fetching"]
  /\ seen' = [seen EXCEPT ![k] = st[Object(k)].prev]
  /\ UNCHANGED <<sched, got, delay, left, loop, wake, history>>

\* the first successful poll counts as changed
DecideChanged(fp, prev) == prev = NoFp \/ fp # prev

\* the source fails, or is read with whatever content it has at that instant; the
\* coroutine is resumed with the result some time later
Respond(k) ==
  /\ pc[k] = "fetching"
  /\ pc' = [pc EXCEPT ![k] = "answered"]
  /\ \/ \E ra \in RetryAfters \cup {NoRetryAfter} :
          got' = [got EXCEPT ![k] = [NoResult EXCEPT !.retryAfter = ra]]
     \/ \E v \in Versions :
          got' = [got EXCEPT ![k] = [ok |-> TRUE, fp |-> v, retryAfter |-> NoRetryAfter,
                                     changed |-> DecideChanged(v, seen[k])]]
  /\ UNCHANGED <<sched, seen, delay, left, tokens, loop, wake, history>>

\* finished calls keep nothing: their locals are gone
Forget(k) ==
  /\ pc' = [pc EXCEPT ![k] = "idle"]
  /\ seen' = [seen EXCEPT ![k] = NoFp]
  /\ got' = [got EXCEPT ![k] = NoResult]
  /\ delay' = [delay EXCEPT ![k] = 0]
  /\ left' = [left EXCEPT ![k] = 0]

\* a failed poll: breaker, then backoff; an overflowing power raises out of
\* poll_once, through gather, and ends run()
CompleteFailure(k) ==
  LET o == Object(k)
      n == Failures(st[o].fails)
      d == BackoffDelay(n, got[k].retryAfter)
      raises == Overflows(n, got[k].retryAfter) IN
  /\ pc[k] = "answered" /\ ~got[k].ok
  /\ Forget(k)
  /\ st' = [st EXCEPT ![o].breaker = BreakerFailure(@), ![o].fails = n,
                      ![o].last = IF raises THEN @ ELSE d,
                      ![o].due  = IF raises THEN @ ELSE d]
  /\ loop' = IF raises /\ Driver(k) = Loop THEN "dead" ELSE loop
  /\ UNCHANGED <<targets, unborn, tokens, wake, history>>

\* the delays poll_once may compute after a success that leaves the interval at i
SuccessDelays(o, i) == JitterRange(i, IF st[o].last = 0 THEN i ELSE st[o].last)

\* MUTANT: a success leaves the backoff where it was
RecoveredHalf(o, i) == [st[o] EXCEPT !.breaker = BreakerSuccess, !.interval = i]

Recovered(o, i) == [st[o] EXCEPT !.fails = 0, !.breaker = BreakerSuccess, !.interval = i]

\* an unchanged result: nothing is awaited, the poll ends here
CompleteUnchanged(k) ==
  LET o == Object(k)  i == NextInterval(st[o].interval, FALSE) IN
  /\ pc[k] = "answered" /\ got[k].ok /\ ~got[k].changed
  /\ \E d \in SuccessDelays(o, i) :
       st' = [st EXCEPT ![o] = [Recovered(o, i) EXCEPT
                 !.prev = got[k].fp, !.last = d, !.due = d]]
  /\ Forget(k)
  /\ UNCHANGED <<targets, unborn, tokens, loop, wake, history>>

\* a changed result: on_change is called and awaited before prev is written
CompleteChanged(k) ==
  LET o == Object(k)  i == NextInterval(st[o].interval, TRUE) IN
  /\ pc[k] = "answered" /\ got[k].ok /\ got[k].changed
  /\ st' = [st EXCEPT ![o] = Recovered(o, i)]
  /\ \E d \in SuccessDelays(o, i) :
       /\ delay' = [delay EXCEPT ![k] = d]
       /\ left' = [left EXCEPT ![k] = d]
  /\ pc' = [pc EXCEPT ![k] = "firing"]
  /\ IF Callers # {} THEN UNCHANGED history
     ELSE fired' = [fired EXCEPT ![o] = got[k].fp] /\ bell' = [bell EXCEPT ![o] = ~@]
  /\ UNCHANGED <<targets, unborn, seen, got, tokens, loop, wake>>

\* MUTANT: prev is not advanced after on_change
FireDoneForgets(k) ==
  /\ pc[k] = "firing"
  /\ st' = [st EXCEPT ![Object(k)].last = delay[k], ![Object(k)].due = left[k]]
  /\ Forget(k)
  /\ UNCHANGED <<targets, unborn, tokens, loop, wake, history>>

\* on_change returned or raised (an exception is logged and dropped); next_due
\* counts from the instant the poll ended, not from now
FireDone(k) ==
  /\ pc[k] = "firing"
  /\ st' = [st EXCEPT ![Object(k)].prev = got[k].fp,
                      ![Object(k)].last = delay[k], ![Object(k)].due = left[k]]
  /\ Forget(k)
  /\ UNCHANGED <<targets, unborn, tokens, loop, wake, history>>

-----------------------------------------------------------------------------
(* The drivers of polls *)

Ready == {o \in targets : st[o].due = 0 /\ Allow(st[o].breaker)}

\* run(): every due target is polled, and run waits for all of them
LoopDispatch ==
  /\ loop = "check" /\ Ready # {}
  /\ Start(Loop, Ready)
  /\ loop' = "gather"
  /\ UNCHANGED <<sched, tokens, wake, history>>

LoopJoin ==
  /\ loop = "gather" /\ ~Busy(Loop)
  /\ loop' = "check"
  /\ UNCHANGED <<sched, tasks, tokens, wake, history>>

\* nothing is due: sleep until the earliest next_due, even of an open circuit
LoopSleep ==
  /\ loop = "check" /\ Ready = {}
  /\ loop' = "sleep"
  /\ \/ targets = {} /\ wake' = 1
     \/ \E o \in targets : /\ \A x \in targets : st[o].due <= st[x].due
                           /\ wake' = st[o].due
  /\ UNCHANGED <<sched, tasks, tokens, history>>

LoopWake ==
  /\ loop = "sleep" /\ wake = 0
  /\ loop' = "check"
  /\ UNCHANGED <<sched, tasks, tokens, wake, history>>

\* POST /sweep: every target whose circuit is not open, due or not
Sweep(c) ==
  /\ ~Busy(c)
  /\ Start(c, {o \in targets : Allow(st[o].breaker)})
  /\ UNCHANGED <<sched, tokens, loop, wake, history>>

\* run_now: one object, registered or not, whatever its circuit says
RunNow(c, o) ==
  /\ ~Busy(c) /\ o \notin unborn
  /\ Start(c, {o})
  /\ UNCHANGED <<sched, tokens, loop, wake, history>>

-----------------------------------------------------------------------------
(* Time *)

Less(n) == IF n > 0 THEN n - 1 ELSE 0

\* one tick of the clock: every countdown advances, the bucket refills
Tick ==
  /\ st' = [o \in Objects |-> [st[o] EXCEPT !.due = Less(@), !.breaker = BreakerTick(@)]]
  /\ left' = [k \in Tasks |-> Less(left[k])]
  /\ wake' = Less(wake)
  /\ tokens' = Smaller(Burst, tokens + Refill)
  /\ UNCHANGED <<targets, unborn, pc, seen, got, delay, loop, history>>

-----------------------------------------------------------------------------
PollStep(k) ==
  \/ AcquireSem(k) \/ TakeToken(k) \/ Respond(k)
  \/ CompleteFailure(k) \/ CompleteUnchanged(k) \/ CompleteChanged(k)
  \/ FireDone(k)

LoopStep == LoopDispatch \/ LoopJoin \/ LoopSleep \/ LoopWake

Next ==
  \/ \E o \in Objects : Add(o) \/ Remove(o)
  \/ \E k \in Tasks : PollStep(k)
  \/ \E c \in Callers : Sweep(c) \/ \E o \in Objects : RunNow(c, o)
  \/ LoopStep
  \/ Tick

\* asyncio resumes every runnable coroutine and serves a semaphore's waiters in
\* FIFO order, sources answer, on_change returns, time passes
Fairness ==
  /\ \A k \in Tasks : WF_vars(PollStep(k)) /\ SF_vars(AcquireSem(k))
  /\ WF_vars(LoopStep)
  /\ WF_vars(Tick)

Spec == Init /\ [][Next]_vars /\ Fairness

-----------------------------------------------------------------------------
(* Properties *)

\* No more polls are inside the semaphore than it has slots, whatever mix of
\* loop, sweeps and direct polls is running (async with self.sem in poll_once).
ConcurrencyCap == Cardinality(InSem) <= MaxConcurrency

\* A circuit is open exactly when it counted Threshold failures since its last
\* success: polls that overlap cannot leave it open after a success reset it, nor
\* closed at the threshold (CircuitBreaker.on_success/on_failure).
BreakerMatchesFailures ==
  \A o \in Objects : (st[o].breaker.left = Closed) <=> (st[o].breaker.fails < Threshold)

\* No poll, however its backoff, its adaptive interval and its jitter compound (the
\* decorrelated jitter starts from the last delay, which may be a backoff), puts a
\* target further into the future than the largest of the three caps.
DelaysStayCapped ==
  \A o \in Objects :
    st[o].due <= Larger(BaseInterval, Larger(MaxInterval, BackoffCap))

\* While run() is the only driver, it never fetches from a target whose circuit
\* is open: the poll was admitted by allow() and nothing else trips the breaker.
OpenCircuitIsSkipped ==
  \A o \in Objects :
    pc[<<Loop, o>>] \in {"queued", "bucket", "fetching"} => Allow(st[o].breaker)

\* While run() is the only driver, prev is the content last delivered whenever no
\* delivery is under way, and a poll in flight compares with exactly that content.
PrevIsLastDelivered ==
  \A o \in Objects :
    LET p == pc[<<Loop, o>>] IN
    /\ p # "firing" => st[o].prev = fired[o]
    /\ p \in {"fetching", "answered"} => seen[<<Loop, o>>] = st[o].prev

\* on_change is called for an object only with content that differs from what the
\* previous call delivered ("on_change fires only when content actually changed").
Feed == INSTANCE ChangeFeed
          WITH Objects <- Objects, Versions <- Versions, NoFp <- NoFp,
               fired <- fired, bell <- bell
FiresOnlyOnChange == Feed!Spec

FailedPoll(k) == pc[k] = "answered" /\ ~got[k].ok

\* No failed poll comes so late in a row of failures, and without a Retry-After, that its
\* backoff's power overflows: one that does ends run(), and with it the polls of every
\* target (CompleteFailure).
BackoffHolds ==
  [](\A k \in Tasks : FailedPoll(k) =>
        ~Overflows(Failures(st[Object(k)].fails), got[k].retryAfter))

\* Unless a backoff overflows, a registered target is polled again and again until it
\* is removed, though sweeps and direct polls postpone it and compete for the
\* semaphore: no backoff, open circuit or busy neighbour starves it.
EveryTargetPolled ==
  BackoffHolds =>
    \A o \in Objects :
      (o \in targets) ~> (o \notin targets \/ \E d \in Drivers : pc[<<d, o>>] = "fetching")

\* Unless a backoff overflows, once a registered source has stopped failing for good
\* its circuit closes and its backoff is forgotten for good.
RecoveryIsNoticed ==
  BackoffHolds =>
    \A o \in Objects :
      <>[](o \in targets /\ ~\E k \in Tasks : Object(k) = o /\ FailedPoll(k)) =>
        <>[](st[o].breaker.left = Closed /\ st[o].fails = 0)
=============================================================================
