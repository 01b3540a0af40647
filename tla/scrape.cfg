SPECIFICATION AppSpec
CONSTANTS
  r1 = r1  r2 = r2
  Requests = {r1, r2}
  Modes = {"links", "auto", "article", "record", "multi"}
  Renders = {"auto", "http", "obscura", "browser"}
  Confs <- SomeConfs
  Sites <- AllPages  LinksOf <- TheirLinks
  MaxEntries = 1  MaxExp = 0  StatBound = 1
  c1 = c1  c2 = c2
  Callers = {c1, c2}  Askers <- SomeAskers
  PoolSize = 2  ScoreMax = 2  BenchAfter = 2
  MayCrash = TRUE  NoEntry = NoEntry
SYMMETRY Swaps
INVARIANTS RevalidationIsSound EscalationComplete PaidLegIsLast
