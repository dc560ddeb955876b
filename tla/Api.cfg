CONSTANTS
  MaxGens = 2
  MaxSteps = 2
  MaxSamples = 2
  MaxEntries = 2
  MaxRetries = 3
  MaxListed = 5
  Limit = 2
  SameTime = FALSE
SPECIFICATION ApiSpec
INVARIANTS
  StreamFaithful
  
  CallbackIsOneReport
  
PROPERTIES
  StreamEnds
CHECK_DEADLOCK FALSE
