SPECIFICATION Spec
CONSTANTS
  BaseInterval = 2  MinInterval = 1  MaxInterval = 4  Grow = 2  Shrink = 2
  Jitter = "decorrelated"
  BackoffBase = 1  BackoffFactor = 2  BackoffCap = 5
  FailureBound = 6  FloatExp = 4
  Threshold = 3  Cooldown = 3
  o1 = o1  o2 = o2  k1 = k1  k2 = k2
  Objects = {o1}  Keys = {k1}
  KeyOf <- OnlyOne
  Callers = {}  Loop = loop
  Versions = {v1, v2}  NoFp = NoFp
  RetryAfters = {0, 9}
  MaxConcurrency = 1  Burst = 1  Refill = 1
INVARIANTS DelaysStayCapped
PROPERTIES FiresOnlyOnChange RecoveryIsNoticed
