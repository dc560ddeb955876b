\* A plain run, an online run with a limit, a leased one, and a batch search with
\* its candidate: two starts race a stop, the controllers, the clock and a renewal.
CONSTANTS
  p = p
  o = o
  l = l
  bt = bt
  k = k
  s1 = s1
  s2 = s2
  x1 = x1
  n1 = n1
  None = None
  Plain = {p}
  Online = {o}
  Leased = {l}
  Batch = {bt, k}
  Runs = {p, o, l, bt, k}
  OnlineRuns = {o, l}
  BatchRuns = {bt}
  Children = {k}
  Inputs = {"good", "broken", "invalid"}
  Parts = {"metrics"}
  MaxConcurrentOnlineRuns = 1
  MaxTerminalRuns = 0
  MaxOptimizationCandidates = 1
  TTL = 1
  KeepCollector = FALSE
  ReuseIds = FALSE
  MaxTime = 1
  Starts = {s1, s2}
  Stops = {x1}
  Renews = {n1}
  LeasedRuns = {l}
  LimitedRuns = {o, l}
  CallbackRuns = {p, l, bt}
  SearchDeadline = TRUE
SPECIFICATION SceneSpec
SYMMETRY CallSymmetry
INVARIANTS
  ContextsSound
  CompletedHasMetrics
  CallbacksSound
PROPERTIES
  StoreSpec
CHECK_DEADLOCK FALSE
