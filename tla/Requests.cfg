\* One trace of a few requests, with timeouts, one retry and up to two failures.
SPECIFICATION Spec
CONSTANTS
  Scenarios <- SmallScenarios
  Ingress = "in"
  Cached = {"b"}
  LocalTimeout = 3
  MaxTraceDepth = 2
  MaxAsyncHops = 1
  MaxRetries = 1
  Backoff = 1
  Waits = {2}
  Durations = {1, 4}
  MaxKeep = 1
  MaxFaults = 2
INVARIANTS
  CallsAccounted
  RequestsSettle
  CountedOnce
PROPERTIES
  LateAnswersIgnored
CHECK_DEADLOCK FALSE
