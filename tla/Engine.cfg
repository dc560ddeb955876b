\* The loop, one generator and one Stop, every limit within reach; and one pattern
\* with each kind of arrival in both modes, updated once.
CONSTANTS
  Loop = Loop
  Others = {g}
  Stoppers = {x}
  EndTime = 1
  Horizon = 2
  NearEnd = 2
  MaxEventsScheduled = 4
  MaxEventsProcessed = 2
  MaxEventQueueSize = 2
  WallClockLimited = TRUE
  RealTime = TRUE
  MaxCounter = 5
  Patterns = {p1}
  Modes = {TRUE, FALSE}
  RunEnd = 5
  Window = 2
  BurstDuration = 1
  QuietDuration = 1
  Compaction = 2
  MaxQueue = 3
  MaxUpdates = 1
  Arrivals <- SmallArrivals
SPECIFICATION PartsSpec
INVARIANTS
  EndGuarded
  QueueNearLimit
  ClockBehindGeneration
  
PROPERTIES
  
  EngineEnds
CHECK_DEADLOCK FALSE
