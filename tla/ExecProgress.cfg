\* A plain run that is started once and stopped twice, with fairness.
CONSTANTS
  p = p
  s1 = s1
  x1 = x1
  x2 = x2
  None = None
  Plain = {p}
  Online = {}
  Leased = {}
  Batch = {}
  Runs = {p}
  OnlineRuns = {}
  BatchRuns = {}
  Children = {}
  Inputs = {"good", "broken", "invalid"}
  Parts = {"metrics", "collector"}
  MaxConcurrentOnlineRuns = 0
  MaxTerminalRuns = 0
  MaxOptimizationCandidates = 0
  TTL = 1
  KeepCollector = FALSE
  ReuseIds = FALSE
  MaxTime = 1
  Starts = {s1}
  Stops = {x1, x2}
  Renews = {}
  LeasedRuns = {}
  LimitedRuns = {}
  CallbackRuns = {p}
  SearchDeadline = FALSE
SPECIFICATION DrainSpec
PROPERTIES
  RunsDrain
CHECK_DEADLOCK FALSE
