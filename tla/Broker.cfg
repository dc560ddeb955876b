\* Queues and topics: one group, one partition, two consumers, three messages.
SPECIFICATION Spec
CONSTANTS
  Subscribers <- OneGroup
  Partitions = 1
  Capacity = 1
  MaxConcurrency = 2
  MaxRedeliveries = 1
  Scenarios <- SmallScenarios
  Retention = 4
  Delays = {0}
  Waits = {3}
  Durations = {2, 3}
  MaxPublish = 3
INVARIANTS
  
  
  WakeUpsArmed

  
CHECK_DEADLOCK FALSE
