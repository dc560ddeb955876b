----------------------------- MODULE Evaluation -----------------------------
(***************************************************************************)
(* One candidate evaluation of the optimization orchestrator:              *)
(* internal/improvement/orchestrator.go, evaluateConfigurationMetrics.     *)
(*                                                                         *)
(* An evaluation takes a candidate token, creates a run in the run store,  *)
(* starts it through the executor and polls its status until the run is    *)
(* terminal, its deadline passes or the experiment's context is done.      *)
(* Several evaluations may be in progress; the candidate runs end by       *)
(* themselves (modules RunStore and RunExecutor say how).                  *)
(***************************************************************************)
EXTENDS Integers, Sequences, FiniteSets

CONSTANTS
  Workers,                  \* the goroutines that evaluate
  MaxConcurrentCandidates,  \* capacity of candidateSem
  MaxFailedCandidates,      \* safety.MaxFailedCandidates
  Measured(_),              \* the metrics a simulation of a configuration may yield
  Nil,                      \* no configuration, no metrics
  MaxFaults                 \* bound on failing, late and evicted candidates

ASSUME EvaluationConstants ==
  IsFiniteSet(Workers) /\ MaxConcurrentCandidates \in Nat /\ MaxFailedCandidates \in Nat

VARIABLES
  ctx,      \* the experiment's context: live, canceled (the run was stopped), deadline
  failed,   \* failedCandidates
  tokens,   \* tokens taken from candidateSem
  runs,     \* the candidate runs: what the store and activeRuns say of each
  evals,    \* the evaluation each worker is in
  faults    \* faults so far

evalVars == <<ctx, failed, tokens, runs, evals, faults>>

None == 0
Terminal == {"completed", "failed", "limit", "stopped"}
Outcomes == {"none", "succeeded", "failed", "timed_out", "cancelled", "limit_exceeded"}
Idle == [pc |-> "idle", config |-> Nil, run |-> None, err |-> "", metrics |-> Nil]

EvalInit ==
  /\ ctx = "live" /\ failed = 0 /\ tokens = 0 /\ runs = <<>>
  /\ evals = [w \in Workers |-> Idle]
  /\ faults = 0

Fault == faults < MaxFaults /\ faults' = faults + 1

\* evaluateConfigurationMetrics is called.
Called(w, c) == [evals EXCEPT ![w] = [Idle EXCEPT !.pc = "gate", !.config = c]]

\* The call returns an error or metrics; Released is its deferred <-candidateSem.
Returned(w, err, m) == [evals EXCEPT ![w].pc = "returned", ![w].err = err, ![w].metrics = m]
Released == tokens - 1

\* activeRuns[runID]: the run context after the evaluation gave up on the run.
Abandoned(r, outcome) == [r EXCEPT !.status = "failed", !.outcome = outcome]

\* The limit itself is let through.
ChecksFailuresLate(w) ==
  /\ evals[w].pc = "gate"
  /\ evals' = IF failed > MaxFailedCandidates
              THEN Returned(w, "max_failed", Nil)
              ELSE [evals EXCEPT ![w].pc = "sem"]
  /\ UNCHANGED <<ctx, failed, tokens, runs, faults>>

ChecksFailures(w) ==
  /\ evals[w].pc = "gate"
  /\ evals' = IF failed >= MaxFailedCandidates
              THEN Returned(w, "max_failed", Nil)
              ELSE [evals EXCEPT ![w].pc = "sem"]
  /\ UNCHANGED <<ctx, failed, tokens, runs, faults>>

\* The select on ctx.Done() and the semaphore: either case may win when both are ready.
GivesUp(w) ==
  /\ evals[w].pc = "sem" /\ ctx # "live"
  /\ evals' = Returned(w, ctx, Nil)
  /\ UNCHANGED <<ctx, failed, tokens, runs, faults>>

\* The run is created in the store and entered in activeRuns.
Creates(w) ==
  /\ evals[w].pc = "sem" /\ tokens < MaxConcurrentCandidates
  /\ tokens' = tokens + 1
  /\ runs' = Append(runs, [config |-> evals[w].config, store |-> "pending",
                           metrics |-> Nil, status |-> "pending", outcome |-> "none"])
  /\ evals' = [evals EXCEPT ![w].pc = "start", ![w].run = Len(runs) + 1]
  /\ UNCHANGED <<ctx, failed, faults>>

\* executor.Start refuses the run (a server limit) and has marked it failed.
StartFails(w) ==
  /\ evals[w].pc = "start"
  /\ Fault
  /\ runs' = [runs EXCEPT ![evals[w].run] =
                [Abandoned(@, "failed") EXCEPT !.store = "failed"]]
  /\ failed' = failed + 1 /\ tokens' = Released
  /\ evals' = Returned(w, "start", Nil)
  /\ UNCHANGED <<ctx>>

\* executor.Start; a run that CancelActiveRuns stopped while pending is refused.
Starts(w) ==
  /\ evals[w].pc = "start"
  /\ IF runs[evals[w].run].store = "pending"
     THEN /\ runs' = [runs EXCEPT ![evals[w].run].store = "running",
                                  ![evals[w].run].status = "running"]
          /\ evals' = [evals EXCEPT ![w].pc = "poll"]
          /\ UNCHANGED <<failed, tokens>>
     ELSE /\ runs' = [runs EXCEPT ![evals[w].run] = Abandoned(@, "failed")]
          /\ evals' = Returned(w, "start", Nil)
          /\ failed' = failed + 1 /\ tokens' = Released
  /\ UNCHANGED <<ctx, faults>>

\* The run is not stopped.
TimesOutOnly(w) ==
  /\ evals[w].pc = "poll"
  /\ IF ctx = "live" THEN Fault ELSE faults' = faults
  /\ runs' = [runs EXCEPT ![evals[w].run] =
                Abandoned(@, IF ctx = "canceled" THEN "cancelled" ELSE "timed_out")]
  /\ failed' = failed + 1 /\ tokens' = Released
  /\ evals' = Returned(w, IF ctx = "live" THEN "deadline" ELSE ctx, Nil)
  /\ UNCHANGED <<ctx>>

\* completionCtx is done, by the candidate's own deadline or with the experiment's context:
\* the candidate is stopped, whatever it has reached.
TimesOut(w) ==
  LET r == runs[evals[w].run] IN
  /\ evals[w].pc = "poll"
  /\ IF ctx = "live" THEN Fault ELSE faults' = faults
  /\ runs' = [runs EXCEPT ![evals[w].run] =
                [Abandoned(r, IF ctx = "canceled" THEN "cancelled" ELSE "timed_out")
                   EXCEPT !.store = IF r.store = "running" THEN "stopped" ELSE r.store]]
  /\ failed' = failed + 1 /\ tokens' = Released
  /\ evals' = Returned(w, IF ctx = "live" THEN "deadline" ELSE ctx, Nil)
  /\ UNCHANGED <<ctx>>

\* A poll that finds the run in a terminal state, or gone.
Polls(w) ==
  LET r == runs[evals[w].run] IN
  /\ evals[w].pc = "poll"
  /\ r.store \in Terminal \cup {"evicted"}
  /\ IF r.store = "completed"
     THEN /\ runs' = [runs EXCEPT ![evals[w].run] =
                        [r EXCEPT !.status = "completed", !.outcome = "succeeded"]]
          /\ evals' = Returned(w, "", r.metrics)
          /\ failed' = failed
     ELSE IF r.store = "evicted"
     THEN /\ runs' = [runs EXCEPT ![evals[w].run].status = "failed"]
          /\ evals' = Returned(w, "missing", Nil)
          /\ failed' = failed
     ELSE /\ runs' = [runs EXCEPT ![evals[w].run] =
                        Abandoned(r, IF r.store = "limit" THEN "limit_exceeded" ELSE "failed")]
          /\ evals' = Returned(w, "failed", Nil)
          /\ failed' = failed + 1
  /\ tokens' = Released
  /\ UNCHANGED <<ctx, faults>>

Evaluates(w) ==
  \/ ChecksFailures(w) \/ GivesUp(w) \/ Creates(w) \/ StartFails(w)
  \/ Starts(w) \/ TimesOut(w) \/ Polls(w)

\* A simulation completes with metrics.
RunCompletes(i) ==
  /\ runs[i].store = "running"
  /\ \E m \in Measured(runs[i].config) :
       runs' = [runs EXCEPT ![i].store = "completed", ![i].metrics = m]
  /\ UNCHANGED <<ctx, failed, tokens, evals, faults>>

\* A simulation fails, or exceeds a server limit.
RunFails(i) ==
  /\ runs[i].store = "running"
  /\ Fault
  /\ \E s \in {"failed", "limit"} : runs' = [runs EXCEPT ![i].store = s]
  /\ UNCHANGED <<ctx, failed, tokens, evals>>

\* The store's retention removes a terminal run (module RunStore); once its evaluation has
\* returned nobody asks the store for it again.
RunEvicted(i) ==
  /\ runs[i].store \in Terminal
  /\ \E w \in Workers : evals[w].run = i /\ evals[w].pc = "poll"
  /\ Fault
  /\ runs' = [runs EXCEPT ![i].store = "evicted"]
  /\ UNCHANGED <<ctx, failed, tokens, evals>>

RunSteps(i) == RunCompletes(i) \/ RunFails(i) \/ RunEvicted(i)

\* The experiment is stopped, or its wall clock budget runs out.
ContextDone ==
  /\ ctx = "live"
  /\ ctx' \in {"canceled", "deadline"}
  /\ UNCHANGED <<failed, tokens, runs, evals, faults>>

----------------------------------------------------------------------------
\* Properties.

\* A candidate token is held exactly while a run of the candidate is the evaluator's to
\* watch, on every way out of evaluateConfigurationMetrics.
TokensExact ==
  tokens = Cardinality({w \in Workers : evals[w].pc \in {"start", "poll"}})

\* No candidate simulation outlives its evaluation: one that may still run has an
\* evaluator that polls it, so a cancelled or timed-out experiment leaves nothing running.
NoOrphans == \A i \in DOMAIN runs :
  runs[i].store \in {"pending", "running"} =>
    \E w \in Workers : evals[w].run = i /\ evals[w].pc \in {"start", "poll"}
=============================================================================
