SPECIFICATION FairSpec
CONSTANTS
  Foci = {f1, f2}
  Work = {w1, wc, wr, wb}
  ContractWork = {wc, wr}
  RenamedWork = {wr}
  Clashes = {{wb}, {w1, wr}}
  Covs = {2, 4}
  MaxConcurrent = 1
  MaxRetries = 1
  CoverageFloor = 1
  FloorCap = 3
  PerAgent = 1
  PerCycle = 2
  PerDay = 2
  FullAuto = TRUE
  Toggles = {}
  MaxCycle = 1
  MaxCrashes = 1
INVARIANTS ContractNeverMerged ApprovedWorkWasGated IntegratedNotLost BudgetOvershootBounded
PROPERTIES CycleFinishes
CHECK_DEADLOCK FALSE
