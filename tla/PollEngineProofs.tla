-------------------------- MODULE PollEngineProofs --------------------------
(***************************************************************************)
(* Theorems of PollEngine, for every set of objects, callers and content   *)
(* versions, every semaphore and bucket size and every controller setting. *)
(*                                                                         *)
(* TypeOK is inductive by itself.  The semaphore, the breakers and the     *)
(* delays each have an inductive strengthening; the three properties of a  *)
(* loop that runs alone (Callers = {}) share one, LoopInv.                 *)
(***************************************************************************)
EXTENDS PollEngine, FiniteSetTheorems, TLAPS

-----------------------------------------------------------------------------
(* What the controllers of Adapt return, for every value of their         *)
(* constants: the proofs below cite these facts.                           *)

\* The interval controller stays between its bounds whatever it is multiplied by
\* (AdaptiveInterval._clamp).
LEMMA ClampBounds ==
  ASSUME NEW v \in Int
  PROVE  Clamp(v) \in MinInterval..MaxInterval
BY IntervalAssumption DEF IntervalAssumption, Clamp, Larger, Smaller

\* One poll moves the interval inside its bounds (AdaptiveInterval.next).
LEMMA NextIntervalBounds ==
  ASSUME NEW i \in MinInterval..MaxInterval, NEW changed \in BOOLEAN
  PROVE  NextInterval(i, changed) \in MinInterval..MaxInterval
<1>1. i \in Nat /\ i * Grow \in Int /\ i \div Shrink \in Int
  BY IntervalAssumption DEF IntervalAssumption
<1>2. (IF changed THEN i \div Shrink ELSE i * Grow) \in Int
  BY <1>1
<1> QED BY <1>2, ClampBounds DEF NextInterval

\* Every jittered delay is a natural number (jitter.apply never goes negative).
LEMMA JitterIsNat ==
  ASSUME NEW d \in Nat, NEW prev \in Nat, NEW x \in JitterRange(d, prev)
  PROVE  x \in Nat
<1>1. CASE Jitter = "none"
  BY <1>1 DEF JitterRange
<1>2. CASE Jitter = "full"
  BY <1>2 DEF JitterRange
<1>3. CASE Jitter = "equal"
  <2>1. (d + 1) \div 2 \in Nat
    OBVIOUS
  <2> QED BY <1>3, <2>1 DEF JitterRange
<1>4. CASE Jitter = "decorrelated"
  <2>1. PICK y \in d..Larger(d, prev * 3) : x = Smaller(MaxInterval, y)
    BY <1>4 DEF JitterRange
  <2> QED BY <2>1, IntervalAssumption DEF IntervalAssumption, Smaller, Larger
<1> QED BY <1>1, <1>2, <1>3, <1>4, IntervalAssumption DEF IntervalAssumption

\* No jitter strategy lengthens an interval past the target's largest interval:
\* the decorrelated one, which starts from the last delay, is capped.
LEMMA JitterIsCapped ==
  ASSUME NEW d \in MinInterval..MaxInterval, NEW prev \in Nat,
         NEW x \in JitterRange(d, prev)
  PROVE  x <= MaxInterval
<1>0. d \in Nat /\ d <= MaxInterval /\ MaxInterval \in Nat
  BY IntervalAssumption DEF IntervalAssumption
<1>1. CASE Jitter = "none"
  BY <1>0, <1>1 DEF JitterRange
<1>2. CASE Jitter = "full"
  BY <1>0, <1>2 DEF JitterRange
<1>3. CASE Jitter = "equal"
  <2>1. (d + 1) \div 2 \in Nat
    BY <1>0
  <2> QED BY <1>0, <1>3, <2>1 DEF JitterRange
<1>4. CASE Jitter = "decorrelated"
  <2>1. PICK y \in d..Larger(d, prev * 3) : x = Smaller(MaxInterval, y)
    BY <1>4 DEF JitterRange
  <2> QED BY <1>0, <2>1 DEF Smaller, Larger
<1> QED BY <1>1, <1>2, <1>3, <1>4, IntervalAssumption DEF IntervalAssumption

\* A failure is counted, and the counter saturates at the model's bound.
LEMMA FailuresBounds ==
  ASSUME NEW n \in 0..FailureBound
  PROVE  Failures(n) \in 1..FailureBound
BY BackoffAssumption DEF BackoffAssumption, Failures, Smaller

\* The backoff is a natural number no larger than its cap, with or without a
\* Retry-After (Backoff.on_failure).
LEMMA BackoffIsCapped ==
  ASSUME NEW n \in 1..FailureBound, NEW ra \in Nat \cup {NoRetryAfter}
  PROVE  BackoffDelay(n, ra) \in Nat /\ BackoffDelay(n, ra) <= BackoffCap
<1>1. RawDelay(n) \in Nat /\ BackoffCap \in Nat
  BY BackoffAssumption DEF BackoffAssumption
<1> QED BY <1>1 DEF BackoffDelay, Smaller, NoRetryAfter

\* What a breaker is between two operations: closed below the threshold, open or
\* half-open at it.
BreakerInv(b) == (b.left = Closed) <=> (b.fails < Threshold)

\* Every operation of the circuit breaker keeps it in its range and keeps the
\* relation between its failures and its state.
LEMMA BreakerInitOK == BreakerInit \in Breakers /\ BreakerInv(BreakerInit)
BY BreakerAssumption DEF BreakerAssumption, BreakerInit, Breakers, BreakerInv, Closed

LEMMA BreakerFailureOK ==
  ASSUME NEW b \in Breakers
  PROVE  /\ BreakerFailure(b) \in Breakers
         /\ BreakerInv(b) => BreakerInv(BreakerFailure(b))
<1>1. b.fails \in 0..Threshold /\ b.left \in -1..Cooldown
  BY DEF Breakers, Closed
<1>2. (BreakerState(b) = "half_open") <=> (b.left = 0)
  BY <1>1 DEF BreakerState, Closed
<1> QED BY <1>1, <1>2, BreakerAssumption
        DEF BreakerAssumption, BreakerFailure, Breakers, BreakerInv, Closed, Smaller

LEMMA BreakerTickOK ==
  ASSUME NEW b \in Breakers
  PROVE  /\ BreakerTick(b) \in Breakers
         /\ BreakerInv(b) => BreakerInv(BreakerTick(b))
         /\ Allow(b) => Allow(BreakerTick(b))
<1>1. b.fails \in 0..Threshold /\ b.left \in -1..Cooldown
  BY DEF Breakers, Closed
<1>2. BreakerTick(b) = [fails |-> b.fails, left |-> IF b.left > 0 THEN b.left - 1 ELSE b.left]
  BY DEF Breakers, BreakerTick
<1> QED BY <1>1, <1>2, BreakerAssumption
        DEF BreakerAssumption, Breakers, BreakerInv, Closed, Allow, BreakerState

-----------------------------------------------------------------------------
(* Helpers *)

LEMMA TaskParts ==
  ASSUME NEW k \in Tasks
  PROVE  Driver(k) \in Drivers /\ Object(k) \in Objects /\ k = <<Driver(k), Object(k)>>
BY DEF Tasks, Driver, Object

LEMMA TaskOf ==
  ASSUME NEW d \in Drivers, NEW o \in Objects
  PROVE  <<d, o>> \in Tasks /\ Driver(<<d, o>>) = d /\ Object(<<d, o>>) = o
BY DEF Tasks, Driver, Object

TargetType == [interval : MinInterval..MaxInterval, fails : 0..FailureBound,
               breaker : Breakers, prev : Versions \cup {NoFp}, due : Nat, last : Nat]

LEMMA NewTargetOK == NewTarget \in TargetType
<1>1. Clamp(BaseInterval) \in MinInterval..MaxInterval
  BY IntervalAssumption, ClampBounds DEF IntervalAssumption
<1>2. 0 \in 0..FailureBound
  BY BackoffAssumption DEF BackoffAssumption
<1> QED BY <1>1, <1>2, BreakerInitOK DEF NewTarget, TargetType

\* the delays after a success, whatever was drawn last
LEMMA SuccessDelaysOK ==
  ASSUME TypeOK, NEW o \in Objects, NEW c \in BOOLEAN,
         NEW d \in SuccessDelays(o, NextInterval(st[o].interval, c))
  PROVE  d \in Nat /\ d <= MaxInterval
<1> DEFINE i == NextInterval(st[o].interval, c)
           p == IF st[o].last = 0 THEN i ELSE st[o].last
<1>1. i \in MinInterval..MaxInterval
  BY NextIntervalBounds DEF TypeOK
<1>2. i \in Nat /\ p \in Nat
  BY <1>1, IntervalAssumption DEF IntervalAssumption, TypeOK
<1>3. d \in JitterRange(i, p)
  BY DEF SuccessDelays
<1> HIDE DEF i, p
<1> QED BY <1>1, <1>2, <1>3, JitterIsNat, JitterIsCapped

LEMMA RecoveredOK ==
  ASSUME TypeOK, NEW o \in Objects, NEW c \in BOOLEAN
  PROVE  Recovered(o, NextInterval(st[o].interval, c)) \in TargetType
<1>1. NextInterval(st[o].interval, c) \in MinInterval..MaxInterval
  BY NextIntervalBounds DEF TypeOK
<1>2. 0 \in 0..FailureBound
  BY BackoffAssumption DEF BackoffAssumption
<1>3. st[o] \in TargetType
  BY DEF TypeOK, TargetType
<1> QED BY <1>1, <1>2, <1>3, BreakerInitOK DEF Recovered, BreakerSuccess, TargetType

-----------------------------------------------------------------------------
(* Type correctness *)

LEMMA InitTypeOK == Init => TypeOK
<1> SUFFICES ASSUME Init PROVE TypeOK
  OBVIOUS
<1>1. st \in [Objects -> TargetType]
  BY NewTargetOK DEF Init
<1>2. NoResult \in Results
  BY DEF NoResult, Results
<1>3. Burst \in 0..Burst
  BY EngineAssumption DEF EngineAssumption
<1> QED BY <1>1, <1>2, <1>3 DEF Init, TypeOK, TargetType

\* the state components a Forget leaves well typed
LEMMA ForgetTypeOK ==
  ASSUME TypeOK, NEW k \in Tasks, Forget(k)
  PROVE  /\ pc' \in [Tasks -> {"idle", "queued", "bucket", "fetching", "answered", "firing"}]
         /\ seen' \in [Tasks -> Versions \cup {NoFp}]
         /\ got' \in [Tasks -> Results]
         /\ delay' \in [Tasks -> Nat]
         /\ left' \in [Tasks -> Nat]
<1>1. NoResult \in Results
  BY DEF NoResult, Results
<1> QED BY <1>1 DEF TypeOK, Forget

LEMMA StartTypeOK ==
  ASSUME TypeOK, NEW d \in Drivers, NEW S \in SUBSET Objects, Start(d, S)
  PROVE  /\ pc' \in [Tasks -> {"idle", "queued", "bucket", "fetching", "answered", "firing"}]
         /\ UNCHANGED <<seen, got, delay, left>>
BY DEF TypeOK, Start

LEMMA NextTypeOK == TypeOK /\ [Next]_vars => TypeOK'
<1> SUFFICES ASSUME TypeOK, [Next]_vars PROVE TypeOK'
  OBVIOUS
<1> USE DEF sched, tasks, history
<1>1. ASSUME NEW o \in Objects, Add(o) PROVE TypeOK'
  <2>1. PICK phase \in 0..BaseInterval : st' = [st EXCEPT ![o].due = phase]
    BY <1>1 DEF Add
  <2>2. phase \in Nat
    BY IntervalAssumption DEF IntervalAssumption
  <2>3. st' \in [Objects -> TargetType]
    BY <2>1, <2>2 DEF TypeOK, TargetType
  <2> QED BY <1>1, <2>3 DEF Add, TypeOK, TargetType
<1>2. ASSUME NEW o \in Objects, Remove(o) PROVE TypeOK'
  BY <1>2 DEF Remove, TypeOK
<1>3. ASSUME NEW k \in Tasks, AcquireSem(k) PROVE TypeOK'
  BY <1>3 DEF AcquireSem, TypeOK
<1>4. ASSUME NEW k \in Tasks, TakeToken(k) PROVE TypeOK'
  <2>1. st[Object(k)].prev \in Versions \cup {NoFp}
    BY TaskParts DEF TypeOK
  <2>2. tokens' \in 0..Burst
    BY <1>4, EngineAssumption DEF TakeToken, TypeOK, EngineAssumption
  <2> QED BY <1>4, <2>1, <2>2 DEF TakeToken, TypeOK
<1>5. ASSUME NEW k \in Tasks, Respond(k) PROVE TypeOK'
  <2>1. got' \in [Tasks -> Results]
    <3>1. CASE \E ra \in RetryAfters \cup {NoRetryAfter} :
                 got' = [got EXCEPT ![k] = [NoResult EXCEPT !.retryAfter = ra]]
      <4>1. PICK ra \in RetryAfters \cup {NoRetryAfter} :
                 got' = [got EXCEPT ![k] = [NoResult EXCEPT !.retryAfter = ra]]
        BY <3>1
      <4>2. [NoResult EXCEPT !.retryAfter = ra] \in Results
        BY DEF Results, NoResult
      <4> QED BY <4>1, <4>2 DEF TypeOK
    <3>2. CASE \E v \in Versions :
                 got' = [got EXCEPT ![k] = [ok |-> TRUE, fp |-> v, retryAfter |-> NoRetryAfter,
                                            changed |-> DecideChanged(v, seen[k])]]
      <4>1. PICK v \in Versions :
                 got' = [got EXCEPT ![k] = [ok |-> TRUE, fp |-> v, retryAfter |-> NoRetryAfter,
                                            changed |-> DecideChanged(v, seen[k])]]
        BY <3>2
      <4>2. DecideChanged(v, seen[k]) \in BOOLEAN
        BY DEF DecideChanged
      <4> QED BY <4>1, <4>2 DEF TypeOK, Results
    <3> QED BY <1>5, <3>1, <3>2 DEF Respond
  <2>2. /\ pc' = [pc EXCEPT ![k] = "answered"]
        /\ UNCHANGED <<sched, seen, delay, left, tokens, loop, wake, history>>
    BY <1>5 DEF Respond
  <2> QED BY <2>1, <2>2 DEF TypeOK
<1>6. ASSUME NEW k \in Tasks, CompleteFailure(k) PROVE TypeOK'
  <2> DEFINE o == Object(k)
             n == Failures(st[o].fails)
             d == BackoffDelay(n, got[k].retryAfter)
  <2>1. o \in Objects /\ st[o] \in TargetType
    BY TaskParts DEF TypeOK, TargetType
  <2>2. n \in 1..FailureBound /\ n \in 0..FailureBound
    BY <2>1, FailuresBounds, BackoffAssumption DEF TargetType, BackoffAssumption
  <2>3. d \in Nat
    <3>1. got[k].retryAfter \in Nat \cup {NoRetryAfter}
      BY EngineAssumption DEF TypeOK, Results, EngineAssumption
    <3> QED BY <2>2, <3>1, BackoffIsCapped
  <2>4. BreakerFailure(st[o].breaker) \in Breakers
    BY <2>1, BreakerFailureOK DEF TargetType
  <2>5. /\ st' = [st EXCEPT ![o].breaker = BreakerFailure(@), ![o].fails = n,
                            ![o].last = IF Overflows(n, got[k].retryAfter) THEN @ ELSE d,
                            ![o].due  = IF Overflows(n, got[k].retryAfter) THEN @ ELSE d]
        /\ Forget(k)
        /\ loop' \in {loop, "dead"}
        /\ UNCHANGED <<targets, unborn, tokens, wake, history>>
    BY <1>6 DEF CompleteFailure
  <2> HIDE DEF n, d
  <2>6. st' \in [Objects -> TargetType]
    BY <2>1, <2>2, <2>3, <2>4, <2>5 DEF TypeOK, TargetType
  <2> QED BY <2>5, <2>6, ForgetTypeOK DEF TypeOK, TargetType
<1>7. ASSUME NEW k \in Tasks, CompleteUnchanged(k) PROVE TypeOK'
  <2> DEFINE o == Object(k)
             r == Recovered(o, NextInterval(st[o].interval, FALSE))
  <2>1. o \in Objects
    BY TaskParts
  <2>2. r \in TargetType
    BY <2>1, RecoveredOK
  <2>3. PICK d \in SuccessDelays(o, NextInterval(st[o].interval, FALSE)) :
          st' = [st EXCEPT ![o] = [r EXCEPT !.prev = got[k].fp, !.last = d, !.due = d]]
    BY <1>7 DEF CompleteUnchanged
  <2>4. d \in Nat
    BY <2>1, SuccessDelaysOK
  <2>5. got[k].fp \in Versions \cup {NoFp}
    BY DEF TypeOK, Results
  <2> HIDE DEF r
  <2>6. st' \in [Objects -> TargetType]
    BY <2>1, <2>2, <2>3, <2>4, <2>5 DEF TypeOK, TargetType
  <2> QED BY <1>7, <2>6, ForgetTypeOK DEF CompleteUnchanged, TypeOK, TargetType
<1>8. ASSUME NEW k \in Tasks, CompleteChanged(k) PROVE TypeOK'
  <2> DEFINE o == Object(k)
             r == Recovered(o, NextInterval(st[o].interval, TRUE))
  <2>1. o \in Objects
    BY TaskParts
  <2>2. r \in TargetType
    BY <2>1, RecoveredOK
  <2>3. PICK d \in SuccessDelays(o, NextInterval(st[o].interval, TRUE)) :
          delay' = [delay EXCEPT ![k] = d] /\ left' = [left EXCEPT ![k] = d]
    BY <1>8 DEF CompleteChanged
  <2>4. d \in Nat
    BY <2>1, SuccessDelaysOK
  <2>5. got[k].fp \in Versions \cup {NoFp}
    BY DEF TypeOK, Results
  <2>6. st' = [st EXCEPT ![o] = r]
    BY <1>8 DEF CompleteChanged
  <2> HIDE DEF r
  <2>7. st' \in [Objects -> TargetType]
    BY <2>1, <2>2, <2>6 DEF TypeOK, TargetType
  <2> QED BY <1>8, <2>3, <2>4, <2>5, <2>7 DEF CompleteChanged, TypeOK, TargetType
<1>9. ASSUME NEW k \in Tasks, FireDone(k) PROVE TypeOK'
  <2>1. Object(k) \in Objects /\ got[k].fp \in Versions \cup {NoFp}
        /\ delay[k] \in Nat /\ left[k] \in Nat
    BY TaskParts DEF TypeOK, Results
  <2> DEFINE o == Object(k)
             r == [st[o] EXCEPT !.prev = got[k].fp, !.last = delay[k], !.due = left[k]]
  <2>2. r \in TargetType
    BY <2>1 DEF TypeOK, TargetType
  <2>3. st' = [st EXCEPT ![o] = r]
    <3>1. st[o] \in TargetType
      BY <2>1 DEF TypeOK, TargetType
    <3> QED BY <1>9, <2>1, <3>1 DEF FireDone, TypeOK, TargetType
  <2> HIDE DEF r
  <2>4. st' \in [Objects -> TargetType]
    BY <2>1, <2>2, <2>3 DEF TypeOK, TargetType
  <2> QED BY <1>9, <2>4, ForgetTypeOK DEF FireDone, TypeOK, TargetType
<1>10. ASSUME LoopStep PROVE TypeOK'
  <2>1. CASE LoopDispatch
    <3>1. Ready \in SUBSET Objects /\ Loop \in Drivers
      BY DEF Ready, TypeOK, Drivers
    <3>2. /\ Start(Loop, Ready) /\ loop' = "gather"
          /\ UNCHANGED <<sched, tokens, wake, history>>
      BY <2>1 DEF LoopDispatch
    <3>3. /\ pc' \in [Tasks -> {"idle", "queued", "bucket", "fetching", "answered", "firing"}]
          /\ UNCHANGED <<seen, got, delay, left>>
      BY <3>1, <3>2, StartTypeOK
    <3> QED BY <3>2, <3>3 DEF TypeOK
  <2>2. CASE LoopJoin
    BY <2>2 DEF LoopJoin, TypeOK
  <2>3. CASE LoopSleep
    <3>1. wake' \in Nat
      BY <2>3 DEF LoopSleep, TypeOK
    <3> QED BY <2>3, <3>1 DEF LoopSleep, TypeOK
  <2>4. CASE LoopWake
    BY <2>4 DEF LoopWake, TypeOK
  <2> QED BY <1>10, <2>1, <2>2, <2>3, <2>4 DEF LoopStep
<1>11. ASSUME NEW c \in Callers, Sweep(c) PROVE TypeOK'
  <2>1. {o \in targets : Allow(st[o].breaker)} \in SUBSET Objects /\ c \in Drivers
    BY DEF TypeOK, Drivers
  <2> QED BY <1>11, <2>1, StartTypeOK DEF Sweep, TypeOK
<1>12. ASSUME NEW c \in Callers, NEW o \in Objects, RunNow(c, o) PROVE TypeOK'
  <2>1. {o} \in SUBSET Objects /\ c \in Drivers
    BY DEF Drivers
  <2> QED BY <1>12, <2>1, StartTypeOK DEF RunNow, TypeOK
<1>13. ASSUME Tick PROVE TypeOK'
  <2>1. \A n \in Nat : Less(n) \in Nat
    BY DEF Less
  <2>2. st' \in [Objects -> TargetType]
    <3> SUFFICES ASSUME NEW o \in Objects
                 PROVE  [st[o] EXCEPT !.due = Less(@), !.breaker = BreakerTick(@)] \in TargetType
      BY <1>13 DEF Tick
    <3>1. st[o] \in TargetType
      BY DEF TypeOK, TargetType
    <3>2. BreakerTick(st[o].breaker) \in Breakers /\ Less(st[o].due) \in Nat
      BY <2>1, <3>1, BreakerTickOK DEF TargetType
    <3> QED BY <3>1, <3>2 DEF TargetType
  <2>3. tokens' \in 0..Burst
    <3>1. tokens' = Smaller(Burst, tokens + Refill)
      BY <1>13 DEF Tick
    <3>2. tokens \in 0..Burst
      BY DEF TypeOK
    <3> QED BY <3>1, <3>2, EngineAssumption DEF EngineAssumption, Smaller
  <2>4. left' \in [Tasks -> Nat] /\ wake' \in Nat
    BY <1>13, <2>1 DEF Tick, TypeOK
  <2>5. UNCHANGED <<targets, unborn, pc, seen, got, delay, loop, history>>
    BY <1>13 DEF Tick
  <2> QED BY <2>2, <2>3, <2>4, <2>5 DEF TypeOK, TargetType
<1>14. CASE UNCHANGED vars
  BY <1>14 DEF vars, TypeOK
<1> QED BY <1>1, <1>2, <1>3, <1>4, <1>5, <1>6, <1>7, <1>8, <1>9, <1>10, <1>11, <1>12,
           <1>13, <1>14 DEF Next, PollStep

\* Every state the engine reaches is well typed: intervals, counters, breakers and
\* delays stay in the ranges the controllers promise.
THEOREM TypeCorrect == Spec => []TypeOK
BY InitTypeOK, NextTypeOK, PTL DEF Spec

-----------------------------------------------------------------------------
(* The semaphore.  Only AcquireSem adds a poll to InSem; carrying the      *)
(* finiteness of InSem in the invariant spares an assumption on Objects.   *)

SemInv == IsFiniteSet(InSem) /\ Cardinality(InSem) <= MaxConcurrency

\* a step that takes no poll into the semaphore keeps SemInv
LEMMA SemShrinks ==
  ASSUME SemInv, InSem' \subseteq InSem
  PROVE  SemInv'
<1>1. IsFiniteSet(InSem') /\ Cardinality(InSem') <= Cardinality(InSem)
  BY FS_Subset DEF SemInv
<1>2. Cardinality(InSem') \in Nat /\ Cardinality(InSem) \in Nat /\ MaxConcurrency \in Nat
  BY <1>1, FS_CardinalityType, EngineAssumption DEF SemInv, EngineAssumption
<1> QED BY <1>1, <1>2 DEF SemInv

LEMMA NextSemInv == TypeOK /\ SemInv /\ [Next]_vars => SemInv'
<1> SUFFICES ASSUME TypeOK, SemInv, [Next]_vars PROVE SemInv'
  OBVIOUS
<1>1. ASSUME NEW k \in Tasks, AcquireSem(k) PROVE SemInv'
  <2>1. InSem' = InSem \cup {k} /\ k \notin InSem
    BY <1>1 DEF AcquireSem, InSem, TypeOK
  <2>2. Cardinality(InSem') = Cardinality(InSem) + 1 /\ IsFiniteSet(InSem')
    BY <2>1, FS_AddElement DEF SemInv
  <2>3. Cardinality(InSem) \in Nat /\ Cardinality(InSem) < MaxConcurrency
    BY <1>1, FS_CardinalityType DEF SemInv, AcquireSem
  <2> QED BY <2>2, <2>3, EngineAssumption DEF SemInv, EngineAssumption
<1>2. ASSUME NEW d \in Drivers, NEW S, Start(d, S) PROVE SemInv'
  <2>1. InSem' \subseteq InSem
    BY <1>2 DEF Start, InSem, TypeOK
  <2> QED BY <2>1, SemShrinks
<1>3. ASSUME NEW k \in Tasks, Forget(k) PROVE SemInv'
  <2>1. InSem' \subseteq InSem
    BY <1>3 DEF Forget, InSem, TypeOK
  <2> QED BY <2>1, SemShrinks
<1>4. ASSUME NEW k \in Tasks, TakeToken(k) \/ Respond(k) \/ CompleteChanged(k) PROVE SemInv'
  <2>1. \/ pc[k] \in {"bucket", "fetching"} /\ pc' = [pc EXCEPT ![k] = "fetching"]
        \/ pc[k] \in {"bucket", "fetching"} /\ pc' = [pc EXCEPT ![k] = "answered"]
        \/ pc' = [pc EXCEPT ![k] = "firing"]
    BY <1>4 DEF TakeToken, Respond, CompleteChanged
  <2>2. InSem' \subseteq InSem
    BY <2>1 DEF InSem, TypeOK
  <2> QED BY <2>2, SemShrinks
<1>5. ASSUME UNCHANGED pc PROVE SemInv'
  BY <1>5, SemShrinks DEF InSem
<1> QED
  <2>1. ASSUME NEW o \in Objects, Add(o) \/ Remove(o) PROVE SemInv'
    BY <2>1, <1>5 DEF Add, Remove, tasks
  <2>2. ASSUME NEW k \in Tasks, PollStep(k) PROVE SemInv'
    BY <2>2, <1>1, <1>3, <1>4
       DEF PollStep, CompleteFailure, CompleteUnchanged, FireDone
  <2>3. ASSUME LoopStep PROVE SemInv'
    <3>1. Loop \in Drivers
      BY DEF Drivers
    <3> QED BY <2>3, <3>1, <1>2, <1>5
            DEF LoopStep, LoopDispatch, LoopJoin, LoopSleep, LoopWake, tasks
  <2>4. ASSUME NEW c \in Callers, Sweep(c) \/ \E o \in Objects : RunNow(c, o) PROVE SemInv'
    <3>1. c \in Drivers
      BY DEF Drivers
    <3> QED BY <2>4, <3>1, <1>2 DEF Sweep, RunNow
  <2>5. CASE Tick \/ UNCHANGED vars
    BY <2>5, <1>5 DEF Tick, vars, tasks
  <2> QED BY <2>1, <2>2, <2>3, <2>4, <2>5 DEF Next

\* However many loops, sweeps and direct polls share the engine, at most
\* MaxConcurrency polls are inside its semaphore.
THEOREM SemaphoreIsRespected == Spec => []ConcurrencyCap
<1>1. Init => SemInv
  <2> SUFFICES ASSUME Init PROVE SemInv
    OBVIOUS
  <2>1. InSem = {}
    BY DEF Init, InSem
  <2> QED BY <2>1, FS_EmptySet, EngineAssumption DEF SemInv, EngineAssumption
<1>2. SemInv => ConcurrencyCap
  BY DEF SemInv, ConcurrencyCap
<1> QED BY <1>1, <1>2, NextSemInv, TypeCorrect, PTL DEF Spec

-----------------------------------------------------------------------------
(* The circuit breakers *)

\* A step applies at most one operation of its breaker to each object.
LEMMA BreakerSteps ==
  ASSUME TypeOK, [Next]_vars, NEW x \in Objects
  PROVE  \/ st'[x].breaker = st[x].breaker
         \/ st'[x].breaker = BreakerFailure(st[x].breaker)
         \/ st'[x].breaker = BreakerInit
         \/ st'[x].breaker = BreakerTick(st[x].breaker)
<1> DEFINE Goal == \/ st'[x].breaker = st[x].breaker
                   \/ st'[x].breaker = BreakerFailure(st[x].breaker)
                   \/ st'[x].breaker = BreakerInit
                   \/ st'[x].breaker = BreakerTick(st[x].breaker)
<1>0. st \in [Objects -> TargetType] /\ st[x] \in TargetType
  BY DEF TypeOK, TargetType
<1>1. ASSUME NEW o \in Objects, Add(o) PROVE Goal
  <2>1. PICK phase \in 0..BaseInterval : st' = [st EXCEPT ![o].due = phase]
    BY <1>1 DEF Add
  <2> QED BY <1>0, <2>1 DEF TargetType
<1>2. ASSUME NEW k \in Tasks, CompleteFailure(k) PROVE Goal
  <2>1. PICK n, d, e : st' = [st EXCEPT ![Object(k)].breaker = BreakerFailure(@),
                               ![Object(k)].fails = n, ![Object(k)].last = d,
                               ![Object(k)].due = e]
    BY <1>2 DEF CompleteFailure
  <2> QED BY <1>0, <2>1 DEF TargetType
<1>3. ASSUME NEW k \in Tasks, CompleteUnchanged(k) PROVE Goal
  <2>1. PICK f, d, i : st' = [st EXCEPT ![Object(k)] =
                          [Recovered(Object(k), i) EXCEPT !.prev = f, !.last = d, !.due = d]]
    BY <1>3 DEF CompleteUnchanged
  <2> QED BY <1>0, <2>1 DEF TargetType, Recovered, BreakerSuccess
<1>4. ASSUME NEW k \in Tasks, CompleteChanged(k) PROVE Goal
  <2>1. PICK i : st' = [st EXCEPT ![Object(k)] = Recovered(Object(k), i)]
    BY <1>4 DEF CompleteChanged
  <2> QED BY <1>0, <2>1 DEF TargetType, Recovered, BreakerSuccess
<1>5. ASSUME NEW k \in Tasks, FireDone(k) PROVE Goal
  BY <1>0, <1>5 DEF TargetType, FireDone
<1>6. ASSUME Tick PROVE Goal
  BY <1>0, <1>6 DEF TargetType, Tick
<1>7. ASSUME UNCHANGED st PROVE Goal
  BY <1>7
<1> QED BY <1>1, <1>2, <1>3, <1>4, <1>5, <1>6, <1>7
        DEF Next, PollStep, LoopStep, Remove, AcquireSem, TakeToken, Respond, LoopDispatch,
            LoopJoin, LoopSleep, LoopWake, Sweep, RunNow, sched, vars

\* A circuit is open exactly at the threshold, in every interleaving of polls.
THEOREM BreakerConsistent == Spec => []BreakerMatchesFailures
<1>1. Init => BreakerMatchesFailures
  BY BreakerInitOK DEF Init, NewTarget, BreakerMatchesFailures, BreakerInv
<1>2. TypeOK /\ BreakerMatchesFailures /\ [Next]_vars => BreakerMatchesFailures'
  <2> SUFFICES ASSUME TypeOK, BreakerMatchesFailures, [Next]_vars, NEW x \in Objects
               PROVE  BreakerInv(st'[x].breaker)
    BY DEF BreakerMatchesFailures, BreakerInv
  <2>1. st[x].breaker \in Breakers /\ BreakerInv(st[x].breaker)
    BY DEF TypeOK, BreakerMatchesFailures, BreakerInv
  <2> QED BY <2>1, BreakerSteps, BreakerInitOK, BreakerFailureOK, BreakerTickOK
<1> QED BY <1>1, <1>2, TypeCorrect, PTL DEF Spec

-----------------------------------------------------------------------------
(* The delays.  A poll whose on_change is running carries its delay in     *)
(* left, so the invariant bounds that too.                                 *)

LongestDelay == Larger(BaseInterval, Larger(MaxInterval, BackoffCap))

DelayInv ==
  /\ \A o \in Objects : st[o].due <= LongestDelay
  /\ \A k \in Tasks : left[k] <= MaxInterval

LEMMA LongestDelayOK ==
  /\ LongestDelay \in Nat
  /\ BaseInterval <= LongestDelay /\ MaxInterval <= LongestDelay
  /\ BackoffCap <= LongestDelay
BY IntervalAssumption, BackoffAssumption
   DEF IntervalAssumption, BackoffAssumption, LongestDelay, Larger

LEMMA NextDelayInv == TypeOK /\ DelayInv /\ [Next]_vars => DelayInv'
<1> SUFFICES ASSUME TypeOK, DelayInv, [Next]_vars PROVE DelayInv'
  OBVIOUS
<1>0. /\ st \in [Objects -> TargetType] /\ left \in [Tasks -> Nat]
      /\ MaxInterval \in Nat
  BY IntervalAssumption DEF TypeOK, TargetType, IntervalAssumption
<1>1. ASSUME NEW o \in Objects, NEW d \in Nat, d <= LongestDelay,
             \A x \in Objects \ {o} : st'[x].due = st[x].due,
             st'[o].due \in {d, st[o].due},
             \A k \in Tasks : left'[k] \in {0, left[k]}
      PROVE  DelayInv'
  BY <1>0, <1>1 DEF DelayInv
<1>2. ASSUME NEW k \in Tasks, Forget(k) PROVE \A j \in Tasks : left'[j] \in {0, left[j]}
  BY <1>0, <1>2 DEF Forget
<1>3. ASSUME NEW o \in Objects, Add(o) PROVE DelayInv'
  <2>1. PICK phase \in 0..BaseInterval : st' = [st EXCEPT ![o].due = phase]
    BY <1>3 DEF Add
  <2>2. phase \in Nat /\ phase <= LongestDelay
    BY IntervalAssumption, LongestDelayOK DEF IntervalAssumption
  <2>3. UNCHANGED left
    BY <1>3 DEF Add, tasks
  <2>4. /\ \A x \in Objects \ {o} : st'[x].due = st[x].due
        /\ st'[o].due = phase
    BY <1>0, <2>1 DEF TargetType
  <2> QED BY <1>1, <2>2, <2>3, <2>4
<1>4. ASSUME NEW k \in Tasks, CompleteFailure(k) PROVE DelayInv'
  <2> DEFINE o == Object(k)
             n == Failures(st[o].fails)
             d == BackoffDelay(n, got[k].retryAfter)
  <2>1. o \in Objects
    BY TaskParts
  <2>2. n \in 1..FailureBound
    BY <1>0, <2>1, FailuresBounds DEF TargetType
  <2>3. d \in Nat /\ d <= LongestDelay
    <3>1. got[k].retryAfter \in Nat \cup {NoRetryAfter}
      BY EngineAssumption DEF TypeOK, Results, EngineAssumption
    <3>2. d \in Nat /\ d <= BackoffCap
      BY <2>2, <3>1, BackoffIsCapped
    <3> QED BY <3>2, LongestDelayOK, BackoffAssumption DEF BackoffAssumption
  <2>4. \E e \in {d, st[o].due}, l \in {d, st[o].last} : st' = [st EXCEPT ![o].breaker = BreakerFailure(@),
                               ![o].fails = n, ![o].last = l, ![o].due = e]
    BY <1>4 DEF CompleteFailure
  <2> HIDE DEF n, d
  <2>5. /\ \A x \in Objects \ {o} : st'[x].due = st[x].due
        /\ st'[o].due \in {d, st[o].due}
    BY <1>0, <2>1, <2>4 DEF TargetType
  <2>6. Forget(k)
    BY <1>4 DEF CompleteFailure
  <2>7. \A j \in Tasks : left'[j] \in {0, left[j]}
    BY <1>2, <2>6
  <2> QED BY <1>1, <2>1, <2>3, <2>5, <2>7
<1>5. ASSUME NEW k \in Tasks, CompleteUnchanged(k) PROVE DelayInv'
  <2> DEFINE o == Object(k)
             r == Recovered(o, NextInterval(st[o].interval, FALSE))
  <2>1. o \in Objects
    BY TaskParts
  <2>2. PICK d \in SuccessDelays(o, NextInterval(st[o].interval, FALSE)) :
          st' = [st EXCEPT ![o] = [r EXCEPT !.prev = got[k].fp, !.last = d, !.due = d]]
    BY <1>5 DEF CompleteUnchanged
  <2>3. d \in Nat /\ d <= LongestDelay
    <3>1. d \in Nat /\ d <= MaxInterval
      BY <2>1, SuccessDelaysOK
    <3> QED BY <1>0, <3>1, LongestDelayOK
  <2>4. r \in TargetType
    BY <2>1, RecoveredOK
  <2> HIDE DEF r
  <2>5. /\ \A x \in Objects \ {o} : st'[x].due = st[x].due
        /\ st'[o].due = d
    BY <1>0, <2>1, <2>2, <2>4 DEF TargetType
  <2>6. \A j \in Tasks : left'[j] \in {0, left[j]}
    BY <1>2, <1>5 DEF CompleteUnchanged
  <2> QED BY <1>1, <2>1, <2>3, <2>5, <2>6
<1>6. ASSUME NEW k \in Tasks, CompleteChanged(k) PROVE DelayInv'
  <2> DEFINE o == Object(k)
             i == NextInterval(st[o].interval, TRUE)
  <2>1. o \in Objects
    BY TaskParts
  <2>2. PICK d \in SuccessDelays(o, i) : left' = [left EXCEPT ![k] = d]
    BY <1>6 DEF CompleteChanged
  <2>3. d \in Nat /\ d <= MaxInterval
    BY <2>1, SuccessDelaysOK
  <2>4. st' = [st EXCEPT ![o] = Recovered(o, i)]
    BY <1>6 DEF CompleteChanged
  <2> HIDE DEF i
  <2>5. \A x \in Objects : st'[x].due = st[x].due
    BY <1>0, <2>1, <2>4 DEF TargetType, Recovered
  <2> QED BY <1>0, <2>2, <2>3, <2>5 DEF DelayInv
<1>7. ASSUME NEW k \in Tasks, FireDone(k) PROVE DelayInv'
  <2> DEFINE o == Object(k)
  <2>1. o \in Objects /\ left[k] \in Nat /\ left[k] <= MaxInterval
    BY <1>0, TaskParts DEF DelayInv
  <2>2. left[k] <= LongestDelay
    BY <1>0, <2>1, LongestDelayOK
  <2>3. /\ \A x \in Objects \ {o} : st'[x].due = st[x].due
        /\ st'[o].due = left[k]
    BY <1>0, <1>7, <2>1 DEF TargetType, FireDone
  <2>4. \A j \in Tasks : left'[j] \in {0, left[j]}
    BY <1>2, <1>7 DEF FireDone
  <2> QED BY <1>1, <2>1, <2>2, <2>3, <2>4
<1>8. ASSUME Tick PROVE DelayInv'
  <2>1. /\ \A o \in Objects : st'[o].due = Less(st[o].due)
        /\ \A k \in Tasks : left'[k] = Less(left[k])
    BY <1>0, <1>8 DEF TargetType, Tick
  <2>2. \A n \in Nat : Less(n) \in Nat /\ Less(n) <= n
    BY DEF Less
  <2>3. \A o \in Objects : st[o].due \in Nat
    BY <1>0 DEF TargetType
  <2> QED BY <1>0, <2>1, <2>2, <2>3, LongestDelayOK DEF DelayInv
<1>9. ASSUME UNCHANGED <<st, left>> PROVE DelayInv'
  BY <1>9 DEF DelayInv
<1> QED BY <1>3, <1>4, <1>5, <1>6, <1>7, <1>8, <1>9
        DEF Next, PollStep, LoopStep, Remove, AcquireSem, TakeToken, Respond, LoopDispatch,
            LoopJoin, LoopSleep, LoopWake, Sweep, RunNow, Start, sched, tasks, vars

\* No target is ever scheduled further ahead than the largest of the three caps,
\* though backoff, adaptive interval and decorrelated jitter feed each other.
THEOREM DelaysAreCapped == Spec => []DelaysStayCapped
<1>1. Init => DelayInv
  BY LongestDelayOK, IntervalAssumption DEF Init, NewTarget, DelayInv, IntervalAssumption
<1>2. DelayInv => DelaysStayCapped
  BY DEF DelayInv, DelaysStayCapped, LongestDelay
<1> QED BY <1>1, <1>2, NextDelayInv, TypeCorrect, PTL DEF Spec

-----------------------------------------------------------------------------
(* A loop that runs alone.  With no other driver the polls of an object    *)
(* never overlap: LoopDispatch starts polls only when all earlier ones     *)
(* ended.  So prev does not move under a poll in flight, and a result that *)
(* is changed relative to what the poll saw is changed relative to what    *)
(* was delivered last.                                                     *)

\* the poll of object o, seen through the state it shares with its target
PollInv(o) ==
  LET k == <<Loop, o>> IN
  /\ pc[k] # "idle" => loop \in {"gather", "dead"}
  /\ pc[k] # "firing" => st[o].prev = fired[o]
  /\ pc[k] \in {"fetching", "answered"} => seen[k] = st[o].prev
  /\ pc[k] \in {"answered", "firing"} /\ got[k].ok => got[k].fp \in Versions
  /\ pc[k] = "answered" /\ got[k].ok =>
        (got[k].changed <=> got[k].fp # seen[k])
  /\ pc[k] = "firing" => got[k].ok /\ got[k].fp = fired[o]
  /\ pc[k] \in {"queued", "bucket", "fetching"} => Allow(st[o].breaker)

LoopInv == \A o \in Objects : PollInv(o)

\* With one driver a task is its object's only poll.
LEMMA OnlyLoop ==
  ASSUME Callers = {}
  PROVE  /\ Drivers = {Loop}
         /\ \A k \in Tasks : Object(k) \in Objects /\ k = <<Loop, Object(k)>>
         /\ \A o \in Objects : <<Loop, o>> \in Tasks /\ Object(<<Loop, o>>) = o
BY DEF Drivers, Tasks, Object

LEMMA InitLoopInv ==
  ASSUME Callers = {}
  PROVE  Init => LoopInv
<1> SUFFICES ASSUME Init, NEW o \in Objects PROVE PollInv(o)
  BY DEF LoopInv
<1>1. /\ pc[<<Loop, o>>] = "idle" /\ st[o].prev = NoFp /\ fired[o] = NoFp
  BY OnlyLoop DEF Init, NewTarget
<1> QED BY <1>1 DEF PollInv

\* what a step leaves alone for the objects it is not about
SameFor(x) ==
  LET k == <<Loop, x>> IN
  /\ st'[x].prev = st[x].prev /\ st'[x].breaker = st[x].breaker
  /\ fired'[x] = fired[x]
  /\ pc'[k] = pc[k] /\ seen'[k] = seen[k] /\ got'[k] = got[k]

LEMMA PollInvSame ==
  ASSUME NEW x \in Objects, PollInv(x), SameFor(x), loop' = loop \/ loop' = "dead"
  PROVE  PollInv(x)'
BY DEF PollInv, SameFor

LEMMA NextLoopInv ==
  ASSUME Callers = {}
  PROVE  TypeOK /\ LoopInv /\ [Next]_vars => LoopInv'
<1> SUFFICES ASSUME TypeOK, LoopInv, [Next]_vars, NEW x \in Objects PROVE PollInv(x)'
  BY DEF LoopInv
<1> DEFINE j == <<Loop, x>>
<1>0. /\ PollInv(x) /\ j \in Tasks /\ Object(j) = x
      /\ st \in [Objects -> TargetType] /\ st[x] \in TargetType
  BY OnlyLoop DEF LoopInv, TypeOK, TargetType
<1>1. ASSUME NEW o \in Objects, Add(o) PROVE PollInv(x)'
  <2>1. PICK phase \in 0..BaseInterval : st' = [st EXCEPT ![o].due = phase]
    BY <1>1 DEF Add
  <2>2. st'[x].prev = st[x].prev /\ st'[x].breaker = st[x].breaker
    BY <1>0, <2>1 DEF TargetType
  <2> QED BY <1>0, <1>1, <2>2, PollInvSame DEF Add, SameFor, tasks, history
<1>2. ASSUME NEW o \in Objects, Remove(o) PROVE PollInv(x)'
  BY <1>0, <1>2, PollInvSame DEF Remove, SameFor, tasks, history
<1>3. ASSUME NEW k \in Tasks, k # j, PollStep(k) PROVE PollInv(x)'
  <2>1. Object(k) \in Objects /\ Object(k) # x
    BY <1>3, OnlyLoop
  <2>2. SameFor(x) /\ loop' \in {loop, "dead"}
    <3>1. CASE AcquireSem(k) \/ TakeToken(k) \/ Respond(k)
      BY <1>0, <1>3, <3>1
         DEF AcquireSem, TakeToken, Respond, SameFor, TypeOK, sched, history
    <3>2. CASE CompleteFailure(k) \/ CompleteUnchanged(k) \/ FireDone(k)
      <4>1. st'[x] = st[x]
        BY <1>0, <2>1, <3>2 DEF CompleteFailure, CompleteUnchanged, FireDone
      <4>2. Forget(k) /\ UNCHANGED history
        BY <3>2 DEF CompleteFailure, CompleteUnchanged, FireDone
      <4>3. loop' \in {loop, "dead"}
        BY <3>2 DEF CompleteFailure, CompleteUnchanged, FireDone
      <4> QED BY <1>0, <1>3, <4>1, <4>2, <4>3 DEF Forget, SameFor, TypeOK, history
    <3>3. CASE CompleteChanged(k)
      BY <1>0, <1>3, <2>1, <3>3 DEF CompleteChanged, SameFor, TypeOK
    <3> QED BY <1>3, <3>1, <3>2, <3>3 DEF PollStep
  <2> QED BY <1>0, <2>2, PollInvSame
<1>4. ASSUME AcquireSem(j) PROVE PollInv(x)'
  BY <1>0, <1>4 DEF AcquireSem, PollInv, TypeOK, sched, history
<1>5. ASSUME TakeToken(j) PROVE PollInv(x)'
  BY <1>0, <1>5 DEF TakeToken, PollInv, TypeOK, sched, history
<1>6. ASSUME Respond(j) PROVE PollInv(x)'
  <2>1. /\ pc[j] = "fetching" /\ pc'[j] = "answered" /\ seen'[j] = seen[j]
        /\ UNCHANGED <<st, loop, fired>>
    BY <1>0, <1>6 DEF Respond, TypeOK, sched, history
  <2>2. \/ got'[j].ok = FALSE
        \/ /\ got'[j].ok = TRUE /\ got'[j].fp \in Versions
           /\ got'[j].changed = DecideChanged(got'[j].fp, seen[j])
    <3>1. CASE \E ra \in RetryAfters \cup {NoRetryAfter} :
                 got' = [got EXCEPT ![j] = [NoResult EXCEPT !.retryAfter = ra]]
      BY <1>0, <3>1 DEF TypeOK, NoResult
    <3>2. CASE \E v \in Versions :
                 got' = [got EXCEPT ![j] = [ok |-> TRUE, fp |-> v, retryAfter |-> NoRetryAfter,
                                            changed |-> DecideChanged(v, seen[j])]]
      BY <1>0, <3>2 DEF TypeOK
    <3> QED BY <1>6, <3>1, <3>2 DEF Respond
  <2>3. got'[j].ok => got'[j].fp # NoFp
    BY <2>2, EngineAssumption DEF EngineAssumption
  <2> QED BY <1>0, <2>1, <2>2, <2>3 DEF PollInv, DecideChanged
<1>7. ASSUME CompleteFailure(j) PROVE PollInv(x)'
  <2>1. Forget(j) /\ UNCHANGED fired /\ pc[j] = "answered"
    BY <1>7 DEF CompleteFailure, history
  <2>2. st'[x].prev = st[x].prev
    <3>1. PICK b, n, d, e : st' = [st EXCEPT ![x].breaker = b, ![x].fails = n,
                                             ![x].last = d, ![x].due = e]
      BY <1>0, <1>7 DEF CompleteFailure
    <3> QED BY <1>0, <3>1 DEF TargetType
  <2>3. pc'[j] = "idle"
    BY <1>0, <2>1 DEF Forget, TypeOK
  <2> QED BY <1>0, <2>1, <2>2, <2>3 DEF PollInv
<1>8. ASSUME CompleteUnchanged(j) PROVE PollInv(x)'
  <2>1. /\ Forget(j) /\ UNCHANGED fired /\ pc[j] = "answered"
        /\ got[j].ok /\ ~got[j].changed
    BY <1>8 DEF CompleteUnchanged, history
  <2>2. st'[x].prev = got[j].fp
    <3>1. PICK r, d : st' = [st EXCEPT ![x] = [r EXCEPT !.prev = got[j].fp, !.last = d,
                                                        !.due = d]]
                      /\ r \in TargetType
      BY <1>0, <1>8, RecoveredOK DEF CompleteUnchanged
    <3> QED BY <1>0, <3>1 DEF TargetType
  <2>3. got[j].fp = st[x].prev
    BY <1>0, <2>1 DEF PollInv
  <2>4. pc'[j] = "idle"
    BY <1>0, <2>1 DEF Forget, TypeOK
  <2> QED BY <1>0, <2>1, <2>2, <2>3, <2>4 DEF PollInv
<1>9. ASSUME CompleteChanged(j) PROVE PollInv(x)'
  <2>1. /\ pc[j] = "answered" /\ got[j].ok /\ pc'[j] = "firing"
        /\ fired'[x] = got[j].fp /\ UNCHANGED <<got, loop>>
    BY <1>0, <1>9 DEF CompleteChanged, TypeOK
  <2> QED BY <1>0, <2>1 DEF PollInv
<1>10. ASSUME FireDone(j) PROVE PollInv(x)'
  <2>1. Forget(j) /\ UNCHANGED fired /\ pc[j] = "firing"
    BY <1>10 DEF FireDone, history
  <2>2. st'[x].prev = got[j].fp
    BY <1>0, <1>10 DEF FireDone, TargetType
  <2>3. pc'[j] = "idle"
    BY <1>0, <2>1 DEF Forget, TypeOK
  <2> QED BY <1>0, <2>1, <2>2, <2>3 DEF PollInv
<1>11. ASSUME LoopDispatch PROVE PollInv(x)'
  <2>1. /\ loop = "check" /\ loop' = "gather" /\ Start(Loop, Ready)
        /\ UNCHANGED <<st, fired>>
    BY <1>11 DEF LoopDispatch, sched, history
  <2>2. pc[j] = "idle"
    BY <1>0, <2>1 DEF PollInv
  <2>3. pc'[j] = IF x \in Ready THEN "queued" ELSE "idle"
    BY <1>0, <2>1, <2>2, OnlyLoop, TaskOf DEF Start
  <2>4. x \in Ready => Allow(st[x].breaker)
    BY DEF Ready
  <2> QED BY <1>0, <2>1, <2>2, <2>3, <2>4 DEF PollInv
<1>12. ASSUME LoopJoin PROVE PollInv(x)'
  <2>1. pc[j] = "idle" /\ UNCHANGED <<st, pc, fired>>
    BY <1>12 DEF LoopJoin, Busy, sched, tasks, history
  <2> QED BY <1>0, <2>1 DEF PollInv
<1>13. ASSUME LoopSleep \/ LoopWake PROVE PollInv(x)'
  <2>1. loop \in {"check", "sleep"} /\ UNCHANGED <<st, pc, fired>>
    BY <1>13 DEF LoopSleep, LoopWake, sched, tasks, history
  <2>2. pc[j] = "idle"
    BY <1>0, <2>1 DEF PollInv
  <2> QED BY <1>0, <2>1, <2>2 DEF PollInv
<1>14. ASSUME Tick PROVE PollInv(x)'
  <2>1. /\ st'[x].prev = st[x].prev
        /\ st'[x].breaker = BreakerTick(st[x].breaker)
    BY <1>0, <1>14 DEF Tick, TargetType
  <2>2. Allow(st[x].breaker) => Allow(st'[x].breaker)
    BY <1>0, <2>1, BreakerTickOK DEF TargetType
  <2>3. UNCHANGED <<pc, seen, got, loop, fired>>
    BY <1>14 DEF Tick, history
  <2> QED BY <1>0, <2>1, <2>2, <2>3 DEF PollInv
<1>15. CASE UNCHANGED vars
  BY <1>0, <1>15, PollInvSame DEF vars, sched, tasks, history, SameFor
<1> QED BY <1>1, <1>2, <1>3, <1>4, <1>5, <1>6, <1>7, <1>8, <1>9, <1>10, <1>11, <1>12,
           <1>13, <1>14, <1>15 DEF Next, PollStep, LoopStep

LEMMA LoopAloneInv ==
  ASSUME Callers = {}
  PROVE  Spec => []LoopInv
BY InitLoopInv, NextLoopInv, TypeCorrect, PTL DEF Spec

\* A loop that runs alone never fetches from a target whose circuit is open.
THEOREM OpenCircuitsAreSkipped ==
  ASSUME Callers = {}
  PROVE  Spec => []OpenCircuitIsSkipped
<1>1. LoopInv => OpenCircuitIsSkipped
  BY DEF LoopInv, PollInv, OpenCircuitIsSkipped
<1> QED BY <1>1, LoopAloneInv, PTL

\* A loop that runs alone keeps prev equal to the content it delivered last.
THEOREM PrevIsDelivered ==
  ASSUME Callers = {}
  PROVE  Spec => []PrevIsLastDelivered
<1>1. LoopInv => PrevIsLastDelivered
  BY DEF LoopInv, PollInv, PrevIsLastDelivered
<1> QED BY <1>1, LoopAloneInv, PTL

\* A loop that runs alone implements the change feed: on_change is never called
\* twice in a row with the same content.  (A sweep or a run-now beside the loop
\* breaks this: poll_once awaits on_change before it advances prev.)
THEOREM LoopImplementsFeed ==
  ASSUME Callers = {}
  PROVE  Spec => FiresOnlyOnChange
<1>1. Init => Feed!Init
  BY DEF Init, Feed!Init
<1>2. TypeOK /\ LoopInv /\ [Next]_vars => [Feed!Next]_<<fired, bell>>
  <2> SUFFICES ASSUME TypeOK, LoopInv, Next PROVE Feed!Next \/ UNCHANGED <<fired, bell>>
    BY DEF vars, history
  <2>1. ASSUME NEW k \in Tasks, CompleteChanged(k) PROVE Feed!Next
    <3> DEFINE o == Object(k)
    <3>1. o \in Objects /\ k = <<Loop, o>> /\ PollInv(o)
      BY OnlyLoop DEF LoopInv
    <3>2. /\ pc[k] = "answered" /\ got[k].ok /\ got[k].changed
          /\ fired' = [fired EXCEPT ![o] = got[k].fp]
          /\ bell' = [bell EXCEPT ![o] = ~@]
      BY <2>1 DEF CompleteChanged
    <3>3. got[k].fp \in Versions /\ got[k].fp # fired[o]
      BY <3>1, <3>2 DEF PollInv
    <3>4. Feed!Deliver(o, got[k].fp)
      BY <3>2, <3>3 DEF Feed!Deliver
    <3> QED BY <3>1, <3>3, <3>4 DEF Feed!Next
  <2> QED BY <2>1
          DEF Next, PollStep, LoopStep, Add, Remove, AcquireSem, TakeToken, Respond,
              CompleteFailure, CompleteUnchanged, FireDone, LoopDispatch, LoopJoin,
              LoopSleep, LoopWake, Sweep, RunNow, Tick, history
<1> QED BY <1>1, <1>2, LoopAloneInv, TypeCorrect, PTL DEF Spec, FiresOnlyOnChange, Feed!Spec
=============================================================================
