------------------------------- MODULE Adapt --------------------------------
(***************************************************************************)
(* The pure controllers every polled target owns (ujin/adapt): the         *)
(* adaptive interval, the jitter strategies, the error backoff and the     *)
(* circuit breaker.  They are operators on small records, so that the      *)
(* engine and the job modules use the same translation of the code.        *)
(*                                                                         *)
(* Time is counted in ticks.  A deadline is kept as the ticks that remain  *)
(* (never as an absolute instant), so a model has finitely many states     *)
(* although time never ends.                                               *)
(***************************************************************************)
EXTENDS Integers

CONSTANTS
  BaseInterval, MinInterval, MaxInterval,  \* AdaptiveInterval.base, min_interval, max_interval
  Grow, Shrink,          \* interval * Grow when unchanged, interval / Shrink when changed
  Jitter,                \* the strategy name given to PollEngine.add
  BackoffBase, BackoffFactor, BackoffCap,
  FailureBound,          \* model bound: failure counters saturate here
  FloatExp,              \* largest e for which factor ** e is a finite float
  Threshold, Cooldown    \* CircuitBreaker.threshold, cooldown

Smaller(a, b) == IF a <= b THEN a ELSE b
Larger(a, b)  == IF a >= b THEN a ELSE b

ASSUME IntervalAssumption ==
  /\ BaseInterval \in Nat /\ MinInterval \in Nat /\ MaxInterval \in Nat
  /\ MinInterval <= MaxInterval
  /\ Grow \in Nat \ {0, 1} /\ Shrink \in Nat \ {0, 1}
  /\ Jitter \in {"none", "full", "equal", "decorrelated"}

\* The factor's powers are naturals up to the exponent that reaches the cap.
CapExp == CHOOSE e \in 0..FloatExp : BackoffBase * BackoffFactor ^ e >= BackoffCap
\* delay before the cap for n recorded failures; past the cap only ">= cap" matters
RawDelay(n) == IF n - 1 >= CapExp THEN BackoffCap ELSE BackoffBase * BackoffFactor ^ (n - 1)

ASSUME BackoffAssumption ==
  /\ BackoffBase \in Nat /\ BackoffFactor \in Nat \ {0} /\ BackoffCap \in Nat
  /\ FailureBound \in Nat \ {0} /\ FloatExp \in Nat
  /\ \E e \in 0..FloatExp : BackoffBase * BackoffFactor ^ e >= BackoffCap
  /\ \A n \in 1..FailureBound : RawDelay(n) \in Nat

ASSUME BreakerAssumption == Threshold \in Nat \ {0} /\ Cooldown \in Nat \ {0}

-----------------------------------------------------------------------------
(* AdaptiveInterval *)

Clamp(v) == Larger(MinInterval, Smaller(MaxInterval, v))

\* the controller's interval after a poll that saw a change, or none
NextInterval(i, changed) == Clamp(IF changed THEN i \div Shrink ELSE i * Grow)

\* MUTANT: decorrelated jitter without its cap
JitterRangeUncapped(d, prev) ==
  IF Jitter = "decorrelated" THEN d..Larger(d, prev * 3) ELSE 0..d

\* every delay jitter.apply may draw for interval d, the last delay being prev
JitterRange(d, prev) ==
  CASE Jitter = "none"  -> {d}
    [] Jitter = "full"  -> 0..d
    [] Jitter = "equal" -> ((d + 1) \div 2)..d
    [] Jitter = "decorrelated" ->
         {Smaller(MaxInterval, x) : x \in d..Larger(d, prev * 3)}

-----------------------------------------------------------------------------
(* Backoff: the state is the number of consecutive failures. *)

NoRetryAfter == -1

Failures(n) == Smaller(FailureBound, n + 1)

\* on_failure computes factor ** (n - 1) before it applies the cap
Overflows(n, retryAfter) == retryAfter = NoRetryAfter /\ n - 1 > FloatExp

BackoffDelay(n, retryAfter) ==
  IF retryAfter # NoRetryAfter THEN Smaller(BackoffCap, retryAfter)
  ELSE Smaller(BackoffCap, RawDelay(n))

-----------------------------------------------------------------------------
(* CircuitBreaker: consecutive failures, and what is left of the cooldown. *)

Closed == -1

BreakerInit == [fails |-> 0, left |-> Closed]

BreakerState(b) ==
  CASE b.left = Closed -> "closed"
    [] b.left = 0      -> "half_open"
    [] OTHER           -> "open"

Allow(b) == BreakerState(b) # "open"

BreakerSuccess == BreakerInit

\* MUTANT: opens one failure too late
BreakerFailureLate(b) ==
  [fails |-> Smaller(Threshold, b.fails + 1),
   left  |-> IF b.fails = Threshold THEN Cooldown ELSE b.left]

BreakerFailure(b) ==
  LET f == Smaller(Threshold, b.fails + 1) IN
  [fails |-> f,
   left  |-> IF \/ f >= Threshold /\ b.left = Closed
                \/ BreakerState(b) = "half_open"
             THEN Cooldown ELSE b.left]

\* MUTANT: the cooldown never ends
BreakerTickStuck(b) == [b EXCEPT !.left = IF @ > 1 THEN @ - 1 ELSE @]

BreakerTick(b) == [b EXCEPT !.left = IF @ > 0 THEN @ - 1 ELSE @]

Breakers == [fails : 0..Threshold, left : Closed..Cooldown]
=============================================================================
