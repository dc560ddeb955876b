-------------------------- MODULE ExperimentClaims --------------------------
(***************************************************************************)
(* What the tests say of a cancelled experiment, stated over Experiment.   *)
(* The code does not keep it; README.md describes the behaviour that       *)
(* refutes it.                                                             *)
(***************************************************************************)
EXTENDS MCExperiment

\* optimization_loop_test.go: an optimization that is cancelled ends.  The adapter may wait
\* for the write lock while the orchestrator, which holds the read lock, asks for it again.
CancelledExperimentReturns == ctx # "live" ~> adapter.pc = "returned"
=============================================================================
