SPECIFICATION Spec
CONSTANTS
  PlainIds = {a}  FileIds = {w}
  PlainSpecs <- EverySpec  FileSpecs <- FileKinds
  Threads = {t1}
  MaxPolls = 1
INVARIANTS EngineMatchesJobs StoreMatchesJobs
PROPERTIES GoneStaysGone
