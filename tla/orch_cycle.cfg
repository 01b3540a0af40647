SPECIFICATION Spec
CONSTANTS
  Foci = {f1, f2}
  Work = {w1, w2, wc}
  ContractWork = {wc}
  RenamedWork = {}
  Clashes = {{w1, w2}}
  Covs = {2, 4}
  MaxConcurrent = 1
  MaxRetries = 2
  CoverageFloor = 1
  FloorCap = 3
  PerAgent = 0
  PerCycle = 1
  PerDay = 1
  FullAuto = TRUE
  Toggles = {"kill", "drain", "commit"}
  MaxCycle = 2
  MaxCrashes = 0
INVARIANTS InFlightCapped IntegrationStaysGreen OnlyGreenReachesBase
CHECK_DEADLOCK FALSE
