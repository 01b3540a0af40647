SPECIFICATION Spec
CONSTANTS
  Minutes = 2  Hours = 1  Doms = 2  Months = 2  Dows = 4
  Summer = {}  Saving = 1  Horizon = 8
  Jobs = {j1}
  Exprs <- YearlyToo
  Minute = 2  IdleSleep = 2  MaxPoll = 2  Boot = 3
  NoExpr = NoExpr  Nobody = Nobody
INVARIANTS FiresAtLocalTime
