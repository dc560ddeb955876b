----------------------------- MODULE Experiment -----------------------------
(***************************************************************************)
(* An optimization experiment as the daemon runs it: the adapter of        *)
(* cmd/simd/main.go starts the orchestrator in a goroutine, waits for its  *)
(* result or for the context, and cancels the candidate runs in the second *)
(* case.  kind says which search the orchestrator runs: the hill climb,    *)
(* the batch beam search, or EvaluateConfigurationsParallel, which only    *)
(* library callers use, followed by the choice of one candidate.           *)
(*                                                                         *)
(* o.mu is a sync.RWMutex: a reader that comes after a waiting writer      *)
(* waits for it, even when it holds the lock already.                      *)
(***************************************************************************)
EXTENDS HillClimb, BeamSearch, Explorer

CONSTANTS
  Kinds,            \* the kinds of experiment to look at
  TopCandidates,    \* getTopCandidatesN: 0 means all
  MaxParallelRuns,  \* o.maxParallelRuns
  Batch,            \* the configurations of a parallel evaluation, one per worker
  Secondary(_, _)   \* the score of a configuration under the second objective

ASSUME ExperimentConstants ==
  /\ Kinds \subseteq {"climb", "batch", "parallel"}
  /\ Climber \in Workers /\ Searcher \in Workers
  /\ MaxParallelRuns \in Nat \ {0} /\ MaxEvaluations \in Nat /\ MaxSimulations \in Nat
  /\ BatchSpec.reevaluations \in Nat

VARIABLES
  kind,      \* climb, batch or parallel
  readers,   \* read locks held on o.mu
  waiting,   \* a writer waits for o.mu
  permits,   \* taken from the semaphore of EvaluateConfigurationsParallel
  results,   \* its candidates: for each worker one, once it is there
  orch,      \* the orchestrator's goroutine and what it sends
  adapter    \* the adapter's goroutine: where it is and what it returns

lockVars == <<readers, waiting>>
parVars == <<permits, results>>
searchVars == <<climb, beam>>
vars == <<evalVars, searchVars, lockVars, parVars, kind, orch, adapter>>

NoCandidate == [state |-> "none", evaluated |-> FALSE, score |-> 0, other |-> <<0>>, run |-> None]

Init ==
  /\ EvalInit /\ ClimbInit /\ BeamInit
  /\ kind \in Kinds
  /\ readers = 0 /\ waiting = FALSE /\ permits = 0
  /\ results = [w \in Workers |-> NoCandidate]
  /\ orch = [pc |-> "search", collected |-> <<>>, best |-> None, candidates |-> <<>>,
             score |-> 0, err |-> ""]
  /\ adapter = [pc |-> "select", err |-> ""]

\* What the goroutine sends on done.
Sends(o, err) == [o EXCEPT !.pc = "sent", !.err = err]

\* findRunContextForConfig, without a candidate store: some run of the configuration, in
\* the order of a Go map.
Matching(c) == {i \in DOMAIN runs : runs[i].config = c}

\* RunContext.Score; it stays zero unless the candidate succeeded.
RunScore(i) == IF runs[i].outcome = "succeeded" THEN Score(runs[i].config, runs[i].metrics) ELSE 0

\* buildTopCandidateRunIDs and trimTopBatchCandidates.
Distinct(ids) ==
  LET first == SelectSeq(Indices(ids), LAMBDA i : \A j \in 1..(i - 1) : ids[j] # ids[i])
  IN  [k \in 1..Len(first) |-> ids[first[k]]]
Topped(ids, best) ==
  LET top == SubSeq(Distinct(ids), 1, Least(Len(Distinct(ids)), TopCandidates))
  IN  IF best # None /\ best \notin Range(top) THEN Append(top, best) ELSE top
buildTopCandidateRunIDs(ids, best, sorted) ==
  IF TopCandidates = 0 \/ Len(ids) <= TopCandidates THEN Distinct(ids)
  ELSE Topped(IF sorted THEN ids
              ELSE SortSeq(ids, LAMBDA i, j : RunScore(i) < RunScore(j)), best)

----------------------------------------------------------------------------
\* The orchestrator's goroutine.

ClimbSearches ==
  /\ kind = "climb" /\ ClimbStep
  /\ UNCHANGED <<beam, lockVars, parVars, kind, orch, adapter>>

\* The first read lock of RunExperiment, held while the history is walked.
CollectionStarts ==
  /\ kind = "climb" /\ climb.pc = "ended" /\ orch.pc = "search"
  /\ IF climb.err # ""
     THEN orch' = Sends(orch, climb.err) /\ UNCHANGED readers
     ELSE ~waiting /\ readers' = readers + 1 /\ orch' = [orch EXCEPT !.pc = "collect"]
  /\ UNCHANGED <<evalVars, searchVars, waiting, parVars, kind, adapter>>

\* findRunContextForConfig takes the read lock once more for every step of the history.
CollectsRun ==
  /\ orch.pc = "collect" /\ Len(orch.collected) < Len(climb.history)
  /\ ~waiting
  /\ \E i \in Matching(climb.history[Len(orch.collected) + 1].config) :
       orch' = [orch EXCEPT !.collected = Append(@, i)]
  /\ UNCHANGED <<evalVars, searchVars, lockVars, parVars, kind, adapter>>

CollectionEnds ==
  /\ orch.pc = "collect" /\ Len(orch.collected) = Len(climb.history)
  /\ readers' = readers - 1
  /\ orch' = [orch EXCEPT !.pc = "best"]
  /\ UNCHANGED <<evalVars, searchVars, waiting, parVars, kind, adapter>>

\* The best run, looked up on its own; the goroutine then sends the result.
FindsBestRun ==
  /\ orch.pc = "best" /\ ~waiting
  /\ \E i \in Matching(climb.best) :
       orch' = Sends([orch EXCEPT !.best = i, !.score = climb.bestScore,
                                  !.candidates = buildTopCandidateRunIDs(orch.collected, i, FALSE)], "")
  /\ UNCHANGED <<evalVars, searchVars, lockVars, parVars, kind, adapter>>

BatchSearches ==
  /\ kind = "batch" /\ BeamStep
  /\ UNCHANGED <<climb, lockVars, parVars, kind, orch, adapter>>

\* RunBatchExperiment builds its result; it reads activeRuns once.
BatchEnds ==
  /\ kind = "batch" /\ beam.pc = "ended" /\ orch.pc = "search"
  /\ IF beam.err # "" THEN orch' = Sends(orch, beam.err)
     ELSE /\ ~waiting
          /\ \E ids \in {SortedBatchCandidateRunIDs(beam)}, best \in {Lookup(beam.best.config)} :
               orch' = Sends([orch EXCEPT !.collected = ids, !.best = best,
                                          !.score = beam.best.score.efficiency,
                                          !.candidates = buildTopCandidateRunIDs(ids, best, TRUE)], "")
  /\ UNCHANGED <<evalVars, searchVars, lockVars, parVars, kind, adapter>>

\* EvaluateConfigurationsParallel: a worker enters, and leaves with its candidate.
WorkerStarts(w) ==
  /\ kind = "parallel" /\ results[w].state = "none" /\ permits < MaxParallelRuns
  /\ permits' = permits + 1
  /\ results' = [results EXCEPT ![w].state = "evaluating"]
  /\ evals' = Called(w, Batch[w])
  /\ UNCHANGED <<ctx, failed, tokens, runs, faults, searchVars, lockVars, kind, orch, adapter>>

WorkerEnds(w) ==
  LET e == evals[w] IN
  /\ kind = "parallel" /\ results[w].state = "evaluating" /\ e.pc = "returned"
  /\ e.err = "" => ~waiting
  /\ permits' = permits - 1
  /\ results' = [results EXCEPT ![w] =
                   IF e.err # "" THEN [NoCandidate EXCEPT !.state = "done"]
                   ELSE [state |-> "done", evaluated |-> TRUE, score |-> Score(e.config, e.metrics),
                         other |-> <<Secondary(e.config, e.metrics)>>, run |-> e.run]]
  /\ evals' = [evals EXCEPT ![w] = Idle]
  /\ UNCHANGED <<ctx, failed, tokens, runs, faults, searchVars, lockVars, kind, orch, adapter>>

\* wg.Wait, and the caller's choice of one candidate.
AllWorkersEnd ==
  LET order == CHOOSE f \in [1..Cardinality(Workers) -> Workers] : IsInjective(f)
      cands == [k \in 1..Len(order) |-> results[order[k]]]
  IN
  /\ kind = "parallel" /\ orch.pc = "search"
  /\ \A w \in Workers : results[w].state = "done"
  /\ \E strategy \in {"best_score", "pareto_optimal", "balanced"} :
     \E k \in {SelectBest(strategy, cands, <<1>>)} :
       orch' = Sends([orch EXCEPT !.best = IF k = 0 THEN None ELSE Evaluated(cands)[k].run],
                     IF \E w \in Workers : ~results[w].evaluated THEN "partial" ELSE "")
  /\ UNCHANGED <<evalVars, searchVars, lockVars, parVars, kind, adapter>>

----------------------------------------------------------------------------
\* The adapter's goroutine, and the world.

AdapterReceives ==
  /\ adapter.pc \in {"select", "draining"} /\ orch.pc = "sent"
  /\ adapter' = [pc |-> "returned", err |-> IF adapter.pc = "draining" THEN ctx ELSE orch.err]
  /\ UNCHANGED <<evalVars, searchVars, lockVars, parVars, kind, orch>>

\* ctx.Done(): CancelActiveRuns asks for the write lock.
AdapterCancels ==
  /\ adapter.pc = "select" /\ ctx # "live"
  /\ adapter' = [adapter EXCEPT !.pc = "locking"]
  /\ waiting' = TRUE
  /\ UNCHANGED <<evalVars, searchVars, readers, parVars, kind, orch>>

\* CancelActiveRuns has it, and stops every run it knows of.
CancelActiveRuns ==
  /\ adapter.pc = "locking" /\ readers = 0
  /\ runs' = [i \in DOMAIN runs |->
                IF runs[i].store \in {"pending", "running"}
                THEN [runs[i] EXCEPT !.store = "stopped"] ELSE runs[i]]
  /\ waiting' = FALSE
  /\ adapter' = [adapter EXCEPT !.pc = "draining"]
  /\ UNCHANGED <<ctx, failed, tokens, evals, faults, searchVars, readers, parVars, kind, orch>>

others == <<searchVars, lockVars, parVars, kind, orch, adapter>>
EvaluationStep == (\E w \in Workers : Evaluates(w)) /\ UNCHANGED others
SimulationStep == (\E i \in DOMAIN runs : RunSteps(i)) /\ UNCHANGED others
SimulationEnds == (\E i \in DOMAIN runs : RunCompletes(i)) /\ UNCHANGED others
Interrupted == ContextDone /\ UNCHANGED others

Orchestrates ==
  \/ ClimbSearches \/ CollectionStarts \/ CollectsRun \/ CollectionEnds \/ FindsBestRun
  \/ BatchSearches \/ BatchEnds
  \/ (\E w \in Workers : WorkerStarts(w) \/ WorkerEnds(w)) \/ AllWorkersEnd
Adapts == AdapterReceives \/ AdapterCancels \/ CancelActiveRuns

\* The experiment is over.  An interrupted hill climb may be stuck for good (the claims in
\* ExperimentClaims); any other state without a step is a deadlock.
Rests ==
  /\ adapter.pc = "returned" \/ (kind = "climb" /\ ctx # "live")
  /\ UNCHANGED vars

Next == EvaluationStep \/ SimulationStep \/ Interrupted \/ Orchestrates \/ Adapts \/ Rests

Spec == Init /\ [][Next]_vars

\* The goroutines go on while one of them can, and a running simulation ends.  No step but
\* Rests leads back to an earlier state, so for a batch experiment, whose steps are too
\* large for ENABLED, the absence of deadlock says as much.
FairSpec ==
  Spec /\ WF_vars(kind # "batch" /\ (EvaluationStep \/ SimulationEnds \/ Orchestrates \/ Adapts))

----------------------------------------------------------------------------
\* Properties.

\* The orchestrator's bookkeeping stays within its bounds.
TypeOK ==
  /\ ctx \in {"live", "canceled", "deadline"}
  /\ failed \in Nat /\ tokens \in 0..MaxConcurrentCandidates
  /\ \A i \in DOMAIN runs :
       /\ runs[i].store \in Terminal \cup {"pending", "running", "evicted"}
       /\ runs[i].status \in {"pending", "running", "completed", "failed"}
       /\ runs[i].outcome \in Outcomes
  /\ readers \in 0..1 /\ waiting \in BOOLEAN /\ permits \in 0..MaxParallelRuns
  /\ orch.pc \in {"search", "collect", "best", "sent"}
  /\ adapter.pc \in {"select", "locking", "draining", "returned"}

\* Failures stop the experiment: beyond the limit only the evaluations that had passed
\* the check already can add to failedCandidates.
FailuresBounded ==
  failed <= MaxFailedCandidates - 1 + (IF kind = "parallel" THEN MaxParallelRuns ELSE 1)

\* Neither search runs more simulations than its cap allows.
BudgetKept ==
  /\ kind = "climb" /\ MaxEvaluations > 0 => Len(runs) <= MaxEvaluations
  /\ kind = "batch" /\ MaxSimulations > 0 => Len(runs) <= MaxSimulations

\* The hill climb never moves to a worse configuration, its best is the lowest score of
\* its history, and a run of that configuration did measure that score.
BestWasMeasured == kind = "climb" /\ climb.history # <<>> =>
  /\ \A i \in 2..Len(climb.history) : climb.history[i].score <= climb.history[i - 1].score
  /\ climb.bestScore = climb.history[Len(climb.history)].score
  /\ \E i \in Matching(climb.best) :
       /\ runs[i].outcome = "succeeded"
       /\ Score(climb.best, runs[i].metrics) = climb.bestScore

\* What the explorer proposes from any configuration the climb reached differs from it in
\* one setting, so that a better score can be put down to it, and stays within the bounds.
Changed(r, q) == {f \in DOMAIN r : r[f] # q[f]}
ChangedIn(s, t) == UNION {{<<i, f>> : f \in Changed(s[i], t[i])} : i \in DOMAIN s}
ProposalsAreSteps == kind = "climb" /\ climb.history # <<>> =>
  LET c == climb.history[Len(climb.history)].config IN \A d \in Range(ExplorerNeighbors(c)) :
    /\ Cardinality(ChangedIn(c.services, d.services)) + Cardinality(ChangedIn(c.workload, d.workload))
       + Cardinality(Changed(c.policies, d.policies)) = 1
    /\ \A i \in DOMAIN d.services : d.services[i].replicas \in E.minReplicas..E.maxReplicas
    /\ d.policies.target \in 10..90 /\ d.policies.step \in 1..5
    /\ d.policies.maxRetries \in 0..10 /\ d.policies.baseMs \in 1..1000

\* The beam search evaluates no configuration twice, keeps the best of everything it
\* scored (also of what the beam dropped), and recommends an infeasible configuration
\* only when it found no feasible one.
BestOverVisited == kind = "batch" =>
  /\ \A i, j \in DOMAIN beam.visited :
       beam.visited[i].config = beam.visited[j].config => i = j
  /\ \A s \in Range(beam.visited) :
       /\ ~Better(s, beam.best)
       /\ s.score.feasible => beam.best.score.feasible

\* Whatever the search proposes lies within the bounds and fits the hosts.
ProposalsAdmissible == kind = "batch" => \A i \in DOMAIN runs :
  \/ runs[i].config = Baseline
  \/ withinBatchBounds(BatchSpec, runs[i].config) /\ StaticCapacityOK(runs[i].config)

\* The best run of a batch experiment is a run that succeeded, and it is the first of the
\* candidate runs that are kept.
BatchBestFirst == kind = "batch" /\ orch.pc = "sent" /\ orch.err = "" =>
  /\ orch.best # None /\ runs[orch.best].outcome = "succeeded"
  /\ runs[orch.best].config = beam.best.config
  /\ Head(orch.candidates) = orch.best

\* Whatever strategy selects, no other evaluated candidate is better in both objectives.
SelectionNotBeaten == kind = "parallel" /\ orch.pc = "sent" /\ orch.best # None =>
  \A w, v \in Workers :
    results[w].evaluated /\ results[w].run = orch.best /\ results[v].evaluated =>
      ~(results[v].score < results[w].score /\ results[v].other[1] < results[w].other[1])

\* Once the adapter has returned, no evaluation is in progress and no simulation runs.
QuietAfterReturn == adapter.pc = "returned" =>
  /\ \A w \in Workers : evals[w].pc = "idle"
  /\ \A i \in DOMAIN runs : runs[i].store \notin {"pending", "running"}

\* An experiment that is left alone returns: no wait on a token, a permit, a poll or the
\* lock lasts forever.
ExperimentReturns == <>(adapter.pc = "returned" \/ ctx # "live" \/ kind = "batch")

\* Every simulation of an experiment is watched to its end and holds a token meanwhile.
CandidatesWatched == TypeOK /\ TokensExact /\ NoOrphans /\ QuietAfterReturn

\* However its candidates fail, an experiment stops at its limits.
SearchBounded == FailuresBounded /\ BudgetKept

\* What each search tries is admissible, and it reports the best of what it has measured.
SearchSound ==
  /\ ProposalsAreSteps /\ ProposalsAdmissible
  /\ BestWasMeasured /\ BestOverVisited /\ BatchBestFirst /\ SelectionNotBeaten
=============================================================================
