----------------------------- MODULE BeamSearch -----------------------------
(***************************************************************************)
(* The batch optimizer: RunBatchBeamSearch (batch_search.go) over the      *)
(* configurations of module BatchSpace, with the evaluations of            *)
(* orchestrator_batch.go and the registry of candidate_store.go, all of    *)
(* internal/improvement.                                                   *)
(*                                                                         *)
(* The search evaluates the baseline, then layer by layer the neighbours   *)
(* of the states it kept, and last the close neighbours of the best.       *)
(***************************************************************************)
EXTENDS Evaluation, BatchSpace

CONSTANTS
  Searcher,        \* the worker the search evaluates on
  Baseline,        \* the configuration of the run
  BatchSpec,       \* the parsed specification: bounds, steps, limits, widths
  Hash(_),         \* batchspec.ConfigHash
  MaxSimulations   \* maxEvaluations: simulations in all; 0 means no cap

VARIABLE beam      \* the local state of RunBatchBeamSearch and the candidate store's scores

NoState == [config |-> Baseline, metrics |-> Nil,
            score |-> [feasible |-> FALSE, violation |-> 0, efficiency |-> 0]]
Reevaluations == Larger(BatchSpec.reevaluations, 1)

BeamInit == beam =
  [pc |-> "idle", phase |-> "baseline", depth |-> 0, frontier |-> <<>>, at |-> 1,
   todo |-> <<>>, next |-> <<>>, visited |-> <<>>, count |-> 0, gathered |-> <<>>,
   best |-> NoState, exhausted |-> FALSE, err |-> ""]

Better(s, t) == CompareBatchScores(s.score, t.score, Hash(s.config), Hash(t.config))
SortedStates(states) == SortSeq(states, Better)
BeamEnds(b, err) == [b EXCEPT !.pc = "ended", !.err = err]

\* CandidateStore.Register and Lookup: the first run of a configuration.
Registered == {i \in DOMAIN runs : \A j \in 1..(i - 1) : runs[j].config # runs[i].config}
Lookup(c) == IF \E i \in Registered : runs[i].config = c
             THEN CHOOSE i \in Registered : runs[i].config = c ELSE None

\* SortedBatchCandidateRunIDs: registered runs whose configuration has a score.
SortedBatchCandidateRunIDs(b) ==
  LET states == SortedStates(b.visited)
  IN  [k \in 1..Len(states) |-> Lookup(states[k].config)]

\* finish: the neighbours of the best state by half steps.
Refines(b) ==
  IF ~BatchSpec.refine THEN BeamEnds(b, "")
  ELSE [b EXCEPT !.pc = "expand", !.phase = "refine",
                 !.todo = GenerateBatchNeighbors(RefinementSpec(BatchSpec), b.best.config,
                                                 b.best.metrics)]

\* The next state of the frontier, whose neighbours are evaluated in turn.
Expands(b) ==
  [b EXCEPT !.pc = "expand",
            !.todo = GenerateBatchNeighbors(BatchSpec, b.frontier[b.at].config,
                                            b.frontier[b.at].metrics)]

\* The best feasible and the best infeasible states of a layer.
Kept(layer) ==
  LET Cut(s, width, default) == SubSeq(s, 1, Least(Len(s), Filled(width, default)))
      feas == SelectSeq(layer, LAMBDA s : s.score.feasible)
      infeas == SelectSeq(layer, LAMBDA s : ~s.score.feasible)
  IN  Cut(SortedStates(feas), BatchSpec.beamWidth, 8)
      \o Cut(SortedStates(infeas), BatchSpec.infeasibleWidth, 4)

LayerEnds(b) ==
  IF b.next = <<>> \/ b.depth + 1 >= Larger(BatchSpec.maxDepth, 1) THEN Refines(b)
  ELSE Expands([b EXCEPT !.depth = @ + 1, !.frontier = Kept(b.next), !.next = <<>>, !.at = 1])

\* The neighbours of a state are done.
StateEnds(b) ==
  IF b.phase = "refine" THEN BeamEnds(b, "")
  ELSE IF b.at < Len(b.frontier) THEN Expands([b EXCEPT !.at = @ + 1])
  ELSE LayerEnds(b)

\* Is there budget left for another configuration?
WithinBudget(b) == MaxSimulations > 0 => b.count + Reevaluations <= MaxSimulations

\* tryEval of a configuration that was scored: it joins the layer; the best is kept.
Scored(b, c, m) ==
  LET s == [config |-> c, metrics |-> m,
            score |-> ComputeBatchScore(BatchSpec, Baseline, c, m)]
      d == [b EXCEPT !.count = @ + Reevaluations, !.visited = Append(@, s), !.gathered = <<>>,
                     !.best = IF b.visited = <<>> \/ Better(s, @) THEN s ELSE @]
  IN  CASE b.phase = "baseline" -> Expands([d EXCEPT !.phase = "beam", !.frontier = <<s>>])
        [] b.phase = "beam" -> [d EXCEPT !.pc = "expand", !.todo = Tail(@), !.next = Append(@, s)]
        [] b.phase = "refine" -> [d EXCEPT !.pc = "expand", !.todo = Tail(@)]

BeamStarts ==
  /\ beam.pc = "idle"
  /\ beam' = [beam EXCEPT !.pc = "expand", !.todo = <<Baseline>>]
  /\ UNCHANGED evalVars

\* tryEval before the evaluation: a configuration seen before is skipped; a done context
\* ends the search with an error, a spent budget ends it in order.
TriesEvaluation ==
  LET seen == {s.config : s \in Range(beam.visited)} IN
  /\ beam.pc = "expand" /\ beam.todo # <<>>
  /\ IF Head(beam.todo) \in seen
     THEN beam' = [beam EXCEPT !.todo = Tail(@)] /\ evals' = evals
     ELSE IF ctx # "live"
     THEN beam' = BeamEnds(beam, ctx) /\ evals' = evals
     ELSE IF ~WithinBudget(beam)
     THEN /\ \E b \in {CASE beam.phase = "baseline" -> BeamEnds(beam, "budget")
                         [] beam.phase = "beam" -> Refines([beam EXCEPT !.exhausted = TRUE])
                         [] beam.phase = "refine" -> BeamEnds([beam EXCEPT !.exhausted = TRUE], "")} :
               beam' = b
          /\ evals' = evals
     ELSE /\ beam' = [beam EXCEPT !.pc = "evaluating"]
          /\ evals' = Called(Searcher, Head(beam.todo))
  /\ UNCHANGED <<ctx, failed, tokens, runs, faults>>

\* One simulation of the configuration is back.  An error of any of them ends the search.
EvaluationReturns ==
  LET e == evals[Searcher]
      ms == Append(beam.gathered, e.metrics)
  IN
  /\ beam.pc = "evaluating" /\ e.pc = "returned"
  /\ IF e.err # ""
     THEN beam' = BeamEnds(beam, e.err) /\ evals' = [evals EXCEPT ![Searcher] = Idle]
     ELSE IF Len(ms) < Reevaluations
     THEN beam' = [beam EXCEPT !.gathered = ms] /\ evals' = Called(Searcher, e.config)
     ELSE /\ \E b \in {Scored(beam, e.config, AggregateRunMetrics(ms))} : beam' = b
          /\ evals' = [evals EXCEPT ![Searcher] = Idle]
  /\ UNCHANGED <<ctx, failed, tokens, runs, faults>>

NeighborsDone ==
  /\ beam.pc = "expand" /\ beam.todo = <<>>
  /\ \E b \in {StateEnds(beam)} : beam' = b
  /\ UNCHANGED evalVars

BeamStep == BeamStarts \/ TriesEvaluation \/ EvaluationReturns \/ NeighborsDone
=============================================================================
