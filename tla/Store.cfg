\* Three online runs, one of them named like a child, for two slots; and a batch
\* run, a plain run and a child under a TTL and a limit of one ended run.
CONSTANTS
  o1 = o1
  o2 = o2
  bt = bt
  p = p
  k = k
  None = None
  Competing = {o1, o2, k}
  Retiring = {bt, p, k}
  Runs = {o1, o2, bt, p, k}
  OnlineRuns = {o1, o2, k}
  BatchRuns = {bt}
  Children = {k}
  Inputs = {"good"}
  Parts = {"collector"}
  MaxConcurrentOnlineRuns = 2
  MaxTerminalRuns = 1
  MaxOptimizationCandidates = 1
  TTL = 2
  KeepCollector = FALSE
  ReuseIds = TRUE
  MaxTime = 2
SPECIFICATION SceneSpec
INVARIANTS
  OnlineWithinLimit
PROPERTIES
  ActiveNotEvicted
  SweepRespectsRetention
CHECK_DEADLOCK FALSE
