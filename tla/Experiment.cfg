SPECIFICATION FairSpec
CONSTANTS
  Workers = {1, 2}
  Climber = 1
  Searcher = 1
  MaxConcurrentCandidates = 1
  MaxParallelRuns = 2
  MaxFailedCandidates = 1
  MaxFaults = 2
  Nil = Nil
  MaxIterations = 3
  MaxEvaluations = 4
  MaxSimulations = 16
  TopCandidates = 2
  Kinds = {"climb", "batch", "parallel"}
  Measured <- MCMeasured
  InitialConfig <- MCBaseline
  GenerateNeighbors <- MCNeighbors
  Score <- MCScore
  Convergence <- MCConvergence
  Baseline <- MCBaseline
  BatchSpec <- MCSpec
  Hash <- MCHash
  Batch <- MCParallel
  Secondary <- MCSecondary
  E <- MCExplorer
INVARIANTS
  CandidatesWatched
  SearchBounded
  SearchSound
PROPERTIES
  ExperimentReturns
