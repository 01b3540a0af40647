SPECIFICATION Spec
CONSTANTS
  BaseInterval = 1  MinInterval = 0  MaxInterval = 0  Grow = 2  Shrink = 2
  Jitter = "none"
  BackoffBase = 0  BackoffFactor = 2  BackoffCap = 0
  FailureBound = 2  FloatExp = 0
  Threshold = 2  Cooldown = 1
  o1 = o1  o2 = o2  k1 = k1  k2 = k2
  Objects = {o1, o2}  Keys = {k1, k2}
  KeyOf <- TwoKeys
  Callers = {c}  Loop = loop
  Versions = {v1}  NoFp = NoFp
  RetryAfters = {0}
  MaxConcurrency = 1  Burst = 1  Refill = 1
INVARIANTS BreakerMatchesFailures
PROPERTIES EveryTargetPolled
