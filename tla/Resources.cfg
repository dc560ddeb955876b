\* Two to four requests, two hosts and services, and two or three calls of the controller between their steps.
SPECIFICATION MeasuredSpec
CONSTANTS
  Scenarios <- SmallScenarios
  Keys = {1, 2, 3, 4}
  Demands = {2}
  MemoryMB = 2
  DrainTimeout = 1
  Headroom = 0
  Arrivals <- SmallArrivals
  MaxTime = 5
  MaxHosts = 3
  MaxReplicas = 3
  SeriesKeys <- SmallSeries
  ValuesOf <- SmallValues
  MaxSeriesPoints = 2
  ReservoirSize = 2
  MaxSeries = 3
  MaxPoints = 5
  MaxRecords = 6
  MeasuredServices = {"a", "b"}
  Inventory <- SmallInventory
INVARIANTS
  PlacementSound
  BookkeepingExact
  
  MetricsFaithful
PROPERTIES
  ServedWhereDue
CHECK_DEADLOCK FALSE
