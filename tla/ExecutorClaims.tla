--------------------------- MODULE ExecutorClaims ---------------------------
(***************************************************************************)
(* What the documentation of simd says of a leased run, stated over        *)
(* RunExecutor.  The code does not keep it; README.md describes the        *)
(* behaviour that refutes it.                                              *)
(***************************************************************************)
EXTENDS RunExecutor

\* proto/simulation/v1/simulation.proto:366: a run whose lease is not renewed
\* completes.  When the engine fails while the controller signals the expiry,
\* the worker takes no reason, then finds its context cancelled and leaves the
\* run RUNNING.
LeaseExpiryEndsRun ==
  \A r \in LeasedRuns : lease[r] = "expired" ~> Status(r) # "RUNNING"
=============================================================================
