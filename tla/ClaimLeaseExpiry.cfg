\* An online run with a lease and a start, with fairness.
CONSTANTS
  o = o
  s1 = s1
  None = None
  Runs = {o}
  OnlineRuns = {o}
  BatchRuns = {}
  Children = {}
  Inputs = {"good"}
  Parts = {"metrics"}
  MaxConcurrentOnlineRuns = 0
  MaxTerminalRuns = 0
  MaxOptimizationCandidates = 0
  TTL = 0
  KeepCollector = FALSE
  ReuseIds = FALSE
  MaxTime = 0
  Starts = {s1}
  Stops = {}
  Renews = {}
  LeasedRuns = {o}
  LimitedRuns = {}
  CallbackRuns = {}
  SearchDeadline = FALSE
SPECIFICATION FairSpec
PROPERTY LeaseExpiryEndsRun
CHECK_DEADLOCK FALSE
