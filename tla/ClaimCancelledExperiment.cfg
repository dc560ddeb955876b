SPECIFICATION FairSpec
CONSTANTS
  Workers = {1, 2}
  Climber = 1
  Searcher = 1
  MaxConcurrentCandidates = 1
  MaxParallelRuns = 2
  MaxFailedCandidates = 2
  MaxFaults = 2
  Nil = Nil
  MaxIterations = 3
  MaxEvaluations = 4
  MaxSimulations = 16
  TopCandidates = 4
  Kinds = {"climb"}
  Measured <- MCMeasured
  InitialConfig <- MCBaseline
  GenerateNeighbors <- MCNeighbors
  Score <- MCScore
  Convergence <- MCConvergence
  Baseline <- MCBaseline
  BatchSpec <- MCSpec
  Hash <- MCHash
  Batch <- MCParallel
  Secondary <- MCSecondary
  E <- MCExplorer
PROPERTY CancelledExperimentReturns
