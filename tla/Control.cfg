SPECIFICATION ControlSpec
CONSTANTS
  Rate = 2
  TicksPerSecond = 3
  FailureThreshold = 2
  SuccessThreshold = 2
  OpenTicks = 3
  MaxInFlight = 3
  Window = 4
  Backoffs <- SmallBackoffs
  MaxBackoffMs = 60
  MaxExponent = 5
  IntBits = 16
  MaxAttempts = 10
  Loads <- SmallLoads
  TargetUtil = 70
  ScaleStep = 2
  MinReplicas = 1
  MaxReplicas = 4
INVARIANTS
  LimitsKept
PROPERTIES
  PoliciesHonest
  
  ControlProgress
CHECK_DEADLOCK FALSE
