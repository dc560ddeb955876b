------------------------- MODULE ExperimentProofs -------------------------
(***************************************************************************)
(* The experiment of module Experiment, for any configurations, explorer,  *)
(* objective, metrics and limits: every simulation is watched to its end   *)
(* and holds a token meanwhile, and however candidates fail an experiment  *)
(* stops at its limits.                                                    *)
(*                                                                         *)
(* What the searches propose and how they score it is left unspecified;    *)
(* the invariant is about who evaluates when, and about the counts.        *)
(***************************************************************************)
EXTENDS Experiment, EvaluationProofs

\* The goroutines of the adapter and of the orchestrator, and the lock between them.
OrchShape(o) == DOMAIN o = {"pc", "collected", "best", "candidates", "score", "err"}
Control ==
  /\ kind \in Kinds /\ waiting \in BOOLEAN
  /\ OrchShape(orch) /\ orch.pc \in {"search", "collect", "best", "sent"}
  /\ readers = (IF orch.pc = "collect" THEN 1 ELSE 0)
  /\ DOMAIN adapter = {"pc", "err"}
  /\ adapter.pc \in {"select", "locking", "draining", "returned"}
  /\ adapter.pc = "returned" => orch.pc = "sent"

\* A goroutine that collects a result has a search that is over.
SearchOver == orch.pc # "search" =>
  /\ kind = "climb" => climb.pc = "ended"
  /\ kind = "batch" => beam.pc = "ended"
  /\ kind = "parallel" => \A w \in Workers : results[w].state = "done"

\* The hill climb evaluates while it waits for an answer, and counts what it evaluates.
ClimbShape(c) ==
  /\ DOMAIN c = {"pc", "iteration", "config", "score", "best", "bestScore", "history", "todo",
                 "neighbor", "neighborScore", "evaluations", "err", "converged"}
  /\ c.evaluations \in Nat
ClimbOK == kind = "climb" =>
  /\ ClimbShape(climb)
  /\ \A w \in Workers : evals[w].pc # "idle" => w = Climber /\ climb.pc \in {"initial", "evaluating"}
  /\ climb.pc = "idle" => Len(runs) = 0
  /\ climb.pc \in {"idle", "initial"} => climb.evaluations = 0
  /\ climb.pc \in {"neighbors", "evaluating"} => climb.evaluations >= 1
  /\ \/ Len(runs) + Ahead(Climber) <= 1
     \/ Len(runs) + Ahead(Climber) <= climb.evaluations
  /\ MaxEvaluations > 0 => climb.evaluations <= MaxEvaluations

\* The beam search evaluates while it waits for an answer; it counts a configuration when
\* all of its simulations are back, and asks for the budget before the first of them.
BeamShape(b) ==
  /\ DOMAIN b = {"pc", "phase", "depth", "frontier", "at", "todo", "next", "visited", "count",
                 "gathered", "best", "exhausted", "err"}
  /\ b.pc \in {"idle", "expand", "evaluating", "ended"} /\ b.phase \in {"baseline", "beam", "refine"}
  /\ b.count \in Nat /\ IsSequence(b.gathered)
BeamOK == kind = "batch" =>
  /\ BeamShape(beam)
  /\ \A w \in Workers : evals[w].pc # "idle" => w = Searcher /\ beam.pc = "evaluating"
  /\ beam.pc \in {"idle", "expand"} =>
       /\ Len(beam.gathered) = 0 /\ Len(runs) <= beam.count
       /\ MaxSimulations > 0 => beam.count <= MaxSimulations
  /\ beam.pc = "evaluating" =>
       /\ Len(runs) + Ahead(Searcher) <= beam.count + Len(beam.gathered) + 1
       /\ Len(beam.gathered) + 1 <= Reevaluations
       /\ MaxSimulations > 0 => beam.count + Reevaluations <= MaxSimulations
  /\ beam.pc = "ended" => (MaxSimulations > 0 => Len(runs) <= MaxSimulations)

\* A worker evaluates with a permit.
Evaluating == {w \in Workers : results[w].state = "evaluating"}
ResultShape(r) == DOMAIN r = {"state", "evaluated", "score", "other", "run"}
WorkersOK ==
  /\ results = [w \in Workers |-> results[w]] /\ \A w \in Workers : ResultShape(results[w])
  /\ permits = Cardinality(Evaluating) /\ permits <= MaxParallelRuns
  /\ kind = "parallel" => \A w \in Workers : evals[w].pc # "idle" => w \in Evaluating

\* At most so many evaluations are in progress.
Cap == IF kind = "parallel" THEN MaxParallelRuns ELSE 1

\* An evaluation that has passed the check may still add one failure.
FailuresOK == failed + Cardinality(Passed) <= MaxFailedCandidates - 1 + Cap

ExperimentOK ==
  EvalOK /\ Control /\ SearchOver /\ ClimbOK /\ BeamOK /\ WorkersOK /\ FailuresOK

-----------------------------------------------------------------------------
(* The counts.                                                             *)

\* The number of evaluations in progress that have passed the check, and one more that is
\* about to, are within the cap.
LEMMA RoomForOne ==
  ASSUME ExperimentOK, NEW w \in Workers, evals[w].pc # "idle", w \notin Passed
  PROVE  Cardinality(Passed) \in Nat /\ Cardinality(Passed) + 1 <= Cap
  <1>1. Passed \subseteq Workers /\ IsFiniteSet(Passed) /\ Cardinality(Passed) \in Nat
    BY EvaluationConstants, FS_Subset, FS_CardinalityType DEF Passed
  <1>2. Cardinality(Passed \cup {w}) = Cardinality(Passed) + 1
    BY <1>1, FS_AddElement
  <1>3. \A v \in Passed \cup {w} : v \in Workers /\ evals[v].pc # "idle"
    BY DEF Passed
  <1>4. kind \in {"climb", "batch", "parallel"}
    BY ExperimentConstants DEF ExperimentOK, Control
  <1>5. PICK S : /\ Passed \cup {w} \subseteq S /\ IsFiniteSet(S) /\ Cardinality(S) <= Cap
                 /\ Cardinality(S) \in Nat
    <2>1. CASE kind = "parallel"
      <3>1. Passed \cup {w} \subseteq Evaluating /\ Evaluating \subseteq Workers
        BY <1>3, <2>1 DEF ExperimentOK, WorkersOK, Evaluating
      <3>2. IsFiniteSet(Evaluating) /\ Cardinality(Evaluating) \in Nat
        BY <3>1, EvaluationConstants, FS_Subset, FS_CardinalityType
      <3>3. Cardinality(Evaluating) <= Cap
        BY <2>1 DEF ExperimentOK, WorkersOK, Cap
      <3> QED BY <3>1, <3>2, <3>3
    <2>2. CASE kind # "parallel"
      <3>1. \E x : Passed \cup {w} \subseteq {x}
        <4>1. CASE kind = "climb"
          <5>1. Passed \cup {w} \subseteq {Climber}
            BY <1>3, <4>1 DEF ExperimentOK, ClimbOK
          <5> QED BY <5>1
        <4>2. CASE kind = "batch"
          <5>1. Passed \cup {w} \subseteq {Searcher}
            BY <1>3, <4>2 DEF ExperimentOK, BeamOK
          <5> QED BY <5>1
        <4> QED BY <1>4, <2>2, <4>1, <4>2
      <3>2. \A x : IsFiniteSet({x}) /\ Cardinality({x}) = 1
        BY FS_Singleton
      <3>3. Cap = 1
        BY <2>2 DEF Cap
      <3>4. PICK x : Passed \cup {w} \subseteq {x}
        BY <3>1
      <3>5. IsFiniteSet({x}) /\ Cardinality({x}) = 1
        BY <3>2, Zenon
      <3>6. Cardinality({x}) <= Cap /\ Cardinality({x}) \in Nat
        BY <3>3, <3>5
      <3> QED BY <3>4, <3>5, <3>6, Zenon
    <2> QED BY <2>1, <2>2
  <1>6. Cardinality(Passed \cup {w}) <= Cardinality(S)
    BY <1>5, FS_Subset
  <1>7. Cap \in Nat
    BY ExperimentConstants DEF Cap
  <1> QED BY <1>1, <1>2, <1>5, <1>6, <1>7

\* A step that leaves the searches and the evaluations alone.
LEMMA SearchKept ==
  ASSUME ExperimentOK, EvalOK', UNCHANGED <<evals, failed, climb, beam, permits, results, kind>>,
         Len(runs') = Len(runs)
  PROVE  ClimbOK' /\ BeamOK' /\ WorkersOK' /\ FailuresOK'
  <1>1. Ahead(Climber)' = Ahead(Climber) /\ Ahead(Searcher)' = Ahead(Searcher)
    BY DEF Ahead
  <1>2. ClimbOK'
    BY <1>1 DEF ExperimentOK, ClimbOK
  <1>3. BeamOK'
    BY <1>1 DEF ExperimentOK, BeamOK
  <1>4. WorkersOK'
    <2>1. Evaluating' = Evaluating
      BY DEF Evaluating
    <2> QED BY <2>1 DEF ExperimentOK, WorkersOK
  <1>5. FailuresOK'
    <2>1. Passed' = Passed /\ Cap' = Cap
      BY DEF Passed, Cap
    <2> QED BY <2>1 DEF ExperimentOK, FailuresOK
  <1> QED BY <1>2, <1>3, <1>4, <1>5

\* A step of an evaluation.
LEMMA EvaluationKeeps ==
  ASSUME ExperimentOK, EvaluationStep
  PROVE  ExperimentOK'
  <1>1. PICK w \in Workers : Evaluates(w)
    BY DEF EvaluationStep
  <1>2. /\ UNCHANGED <<climb, beam, readers, waiting, permits, results>>
        /\ UNCHANGED <<kind, orch, adapter>>
    BY DEF EvaluationStep, others, searchVars, lockVars, parVars
  <1>3. EvalOK' /\ Stepped(w)
    BY <1>1, EvaluationSteps DEF ExperimentOK
  <1>4. \A v \in Workers : evals'[v].pc # "idle" => evals[v].pc # "idle"
    BY <1>3 DEF Stepped, Moves
  <1>5. \A v \in Workers : v # w => Ahead(v)' = Ahead(v)
    BY <1>3 DEF Stepped, Moves, Ahead
  <1>6. \A v \in Workers : Ahead(v) \in {0, 1} /\ Ahead(v)' \in {0, 1}
    BY DEF Ahead
  <1>7. /\ Len(runs) \in Nat /\ Len(runs') \in Nat
        /\ Len(runs') + Ahead(w)' <= Len(runs) + Ahead(w)
    BY <1>3, EvaluationFacts DEF Stepped, ExperimentOK
  <1>8. Control' /\ SearchOver'
    BY <1>2 DEF ExperimentOK, Control, SearchOver
  <1>9. ClimbOK'
    <2> SUFFICES ASSUME kind = "climb" PROVE ClimbOK'
      BY <1>2 DEF ClimbOK
    <2>1. w = Climber /\ climb.pc \in {"initial", "evaluating"} /\ climb.evaluations \in Nat
      BY <1>3 DEF Stepped, ExperimentOK, ClimbOK, ClimbShape
    <2>2. \/ Len(runs') + Ahead(Climber)' <= 1
          \/ Len(runs') + Ahead(Climber)' <= climb.evaluations
      <3>1. \A a, b, c \in Int : a <= b /\ b <= c => a <= c
        OBVIOUS
      <3>2. Len(runs) + Ahead(w) \in Int /\ Len(runs') + Ahead(w)' \in Int /\ 1 \in Int
        BY <1>6, <1>7
      <3>3. Len(runs) + Ahead(w) <= 1 \/ Len(runs) + Ahead(w) <= climb.evaluations
        BY <2>1 DEF ExperimentOK, ClimbOK
      <3>4. climb.evaluations \in Int
        BY <2>1
      <3> QED BY <1>7, <2>1, <3>1, <3>2, <3>3, <3>4, Zenon
    <2> QED BY <1>2, <1>4, <2>1, <2>2 DEF ExperimentOK, ClimbOK
  <1>10. BeamOK'
    <2> SUFFICES ASSUME kind = "batch" PROVE BeamOK'
      BY <1>2 DEF BeamOK
    <2>1. w = Searcher /\ beam.pc = "evaluating" /\ BeamShape(beam)
      BY <1>3 DEF Stepped, ExperimentOK, BeamOK
    <2>2. Len(runs') + Ahead(Searcher)' <= beam.count + Len(beam.gathered) + 1
      <3>1. Len(runs) + Ahead(w) <= beam.count + Len(beam.gathered) + 1
        BY <2>1 DEF ExperimentOK, BeamOK
      <3>2. beam.count + Len(beam.gathered) + 1 \in Int
        BY <2>1 DEF BeamShape, IsSequence
      <3>3. Len(runs) + Ahead(w) \in Int /\ Len(runs') + Ahead(w)' \in Int
        BY <1>6, <1>7
      <3>4. \A a, b, c \in Int : a <= b /\ b <= c => a <= c
        OBVIOUS
      <3> QED BY <1>7, <2>1, <3>1, <3>2, <3>3, <3>4, Zenon
    <2> QED BY <1>2, <1>4, <2>1, <2>2 DEF ExperimentOK, BeamOK
  <1>11. WorkersOK'
    <2>1. Evaluating' = Evaluating
      BY <1>2 DEF Evaluating
    <2> QED BY <1>2, <1>4, <2>1 DEF ExperimentOK, WorkersOK
  <1>12. FailuresOK'
    <2>1. /\ Cap' = Cap /\ Cap \in Nat /\ failed \in Nat /\ failed' \in Nat
          /\ Cardinality(Passed) \in Nat /\ Cardinality(Passed') \in Nat
      <3>1. Cap' = Cap /\ Cap \in Nat
        BY <1>2, ExperimentConstants DEF Cap
      <3>2. failed \in Nat /\ Cardinality(Passed) \in Nat
        BY EvaluationFacts DEF ExperimentOK
      <3>3. failed' \in Nat
        BY <1>3 DEF EvalOK, Shapes
      <3>4. Cardinality(Passed') \in Nat
        BY <1>3, CountsMove DEF Stepped
      <3> QED BY <3>1, <3>2, <3>3, <3>4
    <2>2. failed + Cardinality(Passed) <= MaxFailedCandidates - 1 + Cap
      BY DEF ExperimentOK, FailuresOK
    <2>3. CASE failed' + Cardinality(Passed') <= failed + Cardinality(Passed)
      BY <2>1, <2>2, <2>3, EvaluationConstants DEF FailuresOK
    <2>4. CASE /\ failed' = failed /\ failed < MaxFailedCandidates
               /\ w \notin Passed /\ Cardinality(Passed') = Cardinality(Passed) + 1
      <3>1. Cardinality(Passed) + 1 <= Cap
        BY <1>3, <2>4, RoomForOne DEF Stepped
      <3> QED BY <2>1, <2>4, <3>1, EvaluationConstants DEF FailuresOK
    <2> QED BY <1>3, <2>3, <2>4 DEF Stepped
  <1> QED BY <1>3, <1>8, <1>9, <1>10, <1>11, <1>12 DEF ExperimentOK

\* The simulations, the context, and CancelActiveRuns leave the searches alone.
LEMMA WorldKeeps ==
  ASSUME ExperimentOK, SimulationStep \/ Interrupted \/ CancelActiveRuns
  PROVE  ExperimentOK'
  <1>1. /\ EvalOK' /\ UNCHANGED <<evals, failed>> /\ Len(runs') = Len(runs)
        /\ UNCHANGED <<climb, beam, permits, results, kind, orch, readers>>
        /\ waiting' \in BOOLEAN /\ DOMAIN adapter' = {"pc", "err"}
        /\ adapter'.pc \in {"select", "locking", "draining", "returned"}
        /\ adapter'.pc = "returned" => adapter.pc = "returned"
    <2>1. EvalOK /\ Control
      BY DEF ExperimentOK
    <2>2. CASE SimulationStep
      <3>1. PICK i \in DOMAIN runs : RunSteps(i)
        BY <2>2 DEF SimulationStep
      <3>2. UNCHANGED <<climb, beam, readers, waiting, permits, results, kind, orch, adapter>>
        BY <2>2 DEF SimulationStep, others, searchVars, lockVars, parVars
      <3> QED BY <2>1, <3>1, <3>2, SimulationSteps DEF Control
    <2>3. CASE Interrupted
      <3>1. UNCHANGED <<climb, beam, readers, waiting, permits, results, kind, orch, adapter>>
        BY <2>3 DEF Interrupted, others, searchVars, lockVars, parVars
      <3> QED BY <2>1, <2>3, <3>1, ContextStep DEF Control, Interrupted
    <2>4. CASE CancelActiveRuns
      <3> DEFINE stopped(i) == IF runs[i].store \in {"pending", "running"}
                               THEN [runs[i] EXCEPT !.store = "stopped"] ELSE runs[i]
      <3>1. /\ runs' = [i \in DOMAIN runs |-> stopped(i)]
            /\ UNCHANGED <<ctx, failed, tokens, evals, climb, beam, readers, permits, results>>
            /\ UNCHANGED <<kind, orch>> /\ waiting' = FALSE
            /\ adapter' = [adapter EXCEPT !.pc = "draining"]
        BY <2>4 DEF CancelActiveRuns, searchVars, parVars
      <3>2. /\ Len(runs) \in Nat /\ DOMAIN runs = 1..Len(runs)
            /\ \A i \in 1..Len(runs) : RunShape(runs[i])
        BY <2>1, EvaluationFacts
      <3>3. \A i \in 1..Len(runs) :
              /\ RunShape(stopped(i))
              /\ \/ stopped(i).store = runs[i].store
                 \/ /\ runs[i].store \in {"pending", "running"}
                    /\ stopped(i).store = "stopped"
        BY <3>2 DEF RunShape, Stores, Terminal
      <3> HIDE DEF stopped
      <3>4. /\ IsSequence(runs') /\ Len(runs') = Len(runs)
            /\ \A i \in 1..Len(runs) : runs'[i] = stopped(i)
        BY <3>1, <3>2 DEF IsSequence
      <3>5. EvalOK'
        BY <2>1, <3>1, <3>3, <3>4, StoresMove
      <3> QED BY <2>1, <3>1, <3>4, <3>5 DEF Control
    <2> QED BY <2>2, <2>3, <2>4
  <1>2. Control' /\ SearchOver'
    BY <1>1 DEF ExperimentOK, Control, SearchOver
  <1>3. ClimbOK' /\ BeamOK' /\ WorkersOK' /\ FailuresOK'
    BY <1>1, SearchKept
  <1> QED BY <1>1, <1>2, <1>3 DEF ExperimentOK

\* The adapter receives, or starts to cancel.
LEMMA AdapterKeeps ==
  ASSUME ExperimentOK, AdapterReceives \/ AdapterCancels
  PROVE  ExperimentOK'
  <1>1. /\ UNCHANGED <<ctx, failed, tokens, runs, evals, climb, beam, permits, results, kind>>
        /\ UNCHANGED <<orch, readers>>
    BY DEF AdapterReceives, AdapterCancels, evalVars, searchVars, lockVars, parVars
  <1>2. EvalOK'
    <2>1. Shapes' /\ RunsWatched' /\ Watching' = Watching
      BY <1>1 DEF ExperimentOK, EvalOK, Shapes, RunsWatched, Watching, Watches
    <2> QED BY <1>1, <2>1 DEF ExperimentOK, EvalOK
  <1>3. Control' /\ SearchOver'
    <2>1. /\ waiting' \in BOOLEAN /\ DOMAIN adapter' = {"pc", "err"}
          /\ adapter'.pc \in {"locking", "returned"}
          /\ adapter'.pc = "returned" => orch.pc = "sent"
      <3>1. Control
        BY DEF ExperimentOK
      <3>2. CASE AdapterReceives
        <4>1. waiting' = waiting /\ orch.pc = "sent"
          BY <3>2 DEF AdapterReceives, lockVars
        <4>2. DOMAIN adapter' = {"pc", "err"} /\ adapter'.pc = "returned"
          BY <3>2 DEF AdapterReceives
        <4> QED BY <3>1, <4>1, <4>2 DEF Control
      <3>3. CASE AdapterCancels
        <4>1. waiting' = TRUE /\ adapter' = [adapter EXCEPT !.pc = "locking"]
          BY <3>3 DEF AdapterCancels
        <4> QED BY <3>1, <4>1 DEF Control
      <3> QED BY <3>2, <3>3
    <2> QED BY <1>1, <2>1 DEF ExperimentOK, Control, SearchOver
  <1>4. ClimbOK' /\ BeamOK' /\ WorkersOK' /\ FailuresOK'
    BY <1>1, <1>2, SearchKept
  <1> QED BY <1>2, <1>3, <1>4 DEF ExperimentOK

\* What the goroutine sends.
LEMMA SendsShape ==
  ASSUME NEW o, OrchShape(o), NEW err
  PROVE  OrchShape(Sends(o, err)) /\ Sends(o, err).pc = "sent"
  BY DEF OrchShape, Sends

\* The result is put together: no search goes on, and the read lock is held while the
\* history is walked.
LEMMA CollectionKeeps ==
  ASSUME ExperimentOK,
         \/ CollectionStarts \/ CollectsRun \/ CollectionEnds
         \/ FindsBestRun \/ BatchEnds \/ AllWorkersEnd
  PROVE  ExperimentOK'
  <1>0. EvalOK /\ Control /\ SearchOver
    BY DEF ExperimentOK
  <1>1. /\ UNCHANGED <<ctx, failed, tokens, runs, evals, climb, beam, permits, results, kind>>
        /\ UNCHANGED <<adapter, waiting>>
    BY DEF CollectionStarts, CollectsRun, CollectionEnds, FindsBestRun, BatchEnds, AllWorkersEnd,
           evalVars, searchVars, lockVars, parVars
  <1>2. EvalOK'
    <2>1. Shapes' /\ RunsWatched' /\ Watching' = Watching
      BY <1>0, <1>1 DEF EvalOK, Shapes, RunsWatched, Watching, Watches
    <2> QED BY <1>0, <1>1, <2>1 DEF EvalOK
  <1>3. /\ orch.pc # "sent" /\ OrchShape(orch') /\ orch'.pc \in {"collect", "best", "sent"}
        /\ readers' = (IF orch'.pc = "collect" THEN 1 ELSE 0)
        /\ SearchOver'
    <2>0. OrchShape(orch)
      BY <1>0 DEF Control
    <2>1. CASE CollectionStarts
      <3>1. orch.pc = "search" /\ kind = "climb" /\ climb.pc = "ended" /\ readers = 0
        BY <1>0, <2>1 DEF CollectionStarts, Control
      <3>2. CASE orch' = Sends(orch, climb.err) /\ readers' = readers
        <4>1. OrchShape(orch') /\ orch'.pc = "sent"
          BY <2>0, <3>2, SendsShape
        <4> QED BY <1>1, <3>1, <3>2, <4>1 DEF SearchOver
      <3>3. CASE readers' = readers + 1 /\ orch' = [orch EXCEPT !.pc = "collect"]
        <4>1. OrchShape(orch') /\ orch'.pc = "collect" /\ readers' = 1
          BY <2>0, <3>1, <3>3 DEF OrchShape
        <4> QED BY <1>1, <3>1, <4>1 DEF SearchOver
      <3> QED BY <2>1, <3>2, <3>3 DEF CollectionStarts
    <2>2. CASE CollectsRun
      <3>1. /\ orch.pc = "collect" /\ readers' = readers /\ readers = 1
            /\ \E i : orch' = [orch EXCEPT !.collected = Append(@, i)]
        BY <1>0, <2>2 DEF CollectsRun, lockVars, Control
      <3>2. OrchShape(orch') /\ orch'.pc = "collect"
        BY <2>0, <3>1 DEF OrchShape
      <3> QED BY <1>0, <1>1, <3>1, <3>2 DEF SearchOver
    <2>3. CASE CollectionEnds
      <3>1. /\ orch.pc = "collect" /\ readers = 1 /\ readers' = readers - 1
            /\ orch' = [orch EXCEPT !.pc = "best"]
        BY <1>0, <2>3 DEF CollectionEnds, Control
      <3>2. OrchShape(orch') /\ orch'.pc = "best" /\ readers' = 0
        BY <2>0, <3>1 DEF OrchShape
      <3> QED BY <1>0, <1>1, <3>1, <3>2 DEF SearchOver
    <2>4. CASE FindsBestRun
      <3>1. orch.pc = "best" /\ readers' = readers /\ readers = 0
        BY <1>0, <2>4 DEF FindsBestRun, lockVars, Control
      <3>2. PICK x, y, z :
              orch' = Sends([orch EXCEPT !.best = x, !.score = y, !.candidates = z], "")
        BY <2>4 DEF FindsBestRun
      <3> DEFINE o == [orch EXCEPT !.best = x, !.score = y, !.candidates = z]
      <3>3. OrchShape(o) /\ orch' = Sends(o, "")
        BY <2>0, <3>2 DEF OrchShape
      <3> HIDE DEF o
      <3>4. OrchShape(orch') /\ orch'.pc = "sent"
        BY <3>3, SendsShape
      <3> QED BY <1>0, <1>1, <3>1, <3>4 DEF SearchOver
    <2>5. CASE BatchEnds
      <3>1. orch.pc = "search" /\ kind = "batch" /\ beam.pc = "ended" /\ readers' = readers /\ readers = 0
        BY <1>0, <2>5 DEF BatchEnds, lockVars, Control
      <3>4. OrchShape(orch') /\ orch'.pc = "sent"
        <4>1. CASE beam.err # ""
          <5>1. orch' = Sends(orch, beam.err)
            BY <2>5, <4>1 DEF BatchEnds
          <5> QED BY <2>0, <5>1, SendsShape
        <4>2. CASE beam.err = ""
          <5>1. PICK ids, best :
                  orch' = Sends([orch EXCEPT !.collected = ids, !.best = best,
                                             !.score = beam.best.score.efficiency,
                                             !.candidates = buildTopCandidateRunIDs(ids, best, TRUE)], "")
            BY <2>5, <4>2 DEF BatchEnds
          <5> DEFINE o == [orch EXCEPT !.collected = ids, !.best = best,
                                       !.score = beam.best.score.efficiency,
                                       !.candidates = buildTopCandidateRunIDs(ids, best, TRUE)]
          <5>2. OrchShape(o) /\ orch' = Sends(o, "")
            BY <2>0, <5>1 DEF OrchShape
          <5> HIDE DEF o
          <5> QED BY <5>2, SendsShape
        <4> QED BY <4>1, <4>2
      <3> QED BY <1>1, <3>1, <3>4 DEF SearchOver
    <2>6. CASE AllWorkersEnd
      <3>1. /\ orch.pc = "search" /\ kind = "parallel" /\ readers' = readers /\ readers = 0
            /\ \A w \in Workers : results[w].state = "done"
        BY <1>0, <2>6 DEF AllWorkersEnd, lockVars, Control
      <3>2. \E x, e : orch' = Sends([orch EXCEPT !.best = x], e)
        BY <2>6 DEF AllWorkersEnd
      <3>3. \A x : OrchShape([orch EXCEPT !.best = x])
        BY <2>0 DEF OrchShape
      <3>4. OrchShape(orch') /\ orch'.pc = "sent"
        BY <3>2, <3>3, SendsShape
      <3> QED BY <1>1, <3>1, <3>4 DEF SearchOver
    <2> QED BY <2>1, <2>2, <2>3, <2>4, <2>5, <2>6
  <1>4. Control'
    BY <1>0, <1>1, <1>3 DEF Control
  <1>5. ClimbOK' /\ BeamOK' /\ WorkersOK' /\ FailuresOK'
    BY <1>1, <1>2, SearchKept
  <1> QED BY <1>2, <1>3, <1>4, <1>5 DEF ExperimentOK

-----------------------------------------------------------------------------
(* The hill climb.                                                         *)

\* Neither the end of the climb nor a new iteration changes the count of evaluations.
LEMMA EndsShape ==
  ASSUME NEW c, ClimbShape(c), NEW err, NEW conv
  PROVE  /\ ClimbShape(Ends(c, err, conv)) /\ Ends(c, err, conv).pc = "ended"
         /\ Ends(c, err, conv).evaluations = c.evaluations
  BY DEF ClimbShape, Ends

\* As above, for NextIteration.
LEMMA NextIterationShape ==
  ASSUME NEW c, ClimbShape(c)
  PROVE  /\ ClimbShape(NextIteration(c)) /\ NextIteration(c).pc \in {"neighbors", "ended"}
         /\ NextIteration(c).evaluations = c.evaluations
  <1> DEFINE todo == GenerateNeighbors(c.config)
             d == [c EXCEPT !.iteration = @ + 1, !.todo = todo]
             f == [d EXCEPT !.pc = "neighbors", !.neighbor = todo[1], !.neighborScore = Worst]
  <1>1. \/ \E e, v : NextIteration(c) = Ends(c, e, v)
        \/ \E e, v : NextIteration(c) = Ends(d, e, v)
        \/ NextIteration(c) = f
    BY Zenon DEF NextIteration
  <1>2. ClimbShape(d) /\ d.evaluations = c.evaluations
    BY DEF ClimbShape
  <1> HIDE DEF d
  <1>3. ClimbShape(f) /\ f.evaluations = d.evaluations /\ f.pc = "neighbors"
    BY <1>2 DEF ClimbShape
  <1> HIDE DEF f, todo
  <1> QED BY <1>1, <1>2, <1>3, EndsShape

\* As above, for the decision at the end of an iteration.
LEMMA DecidesShape ==
  ASSUME NEW c, ClimbShape(c)
  PROVE  /\ ClimbShape(Decides(c)) /\ Decides(c).pc \in {"neighbors", "ended"}
         /\ Decides(c).evaluations = c.evaluations
  <1> DEFINE e == [c EXCEPT !.config = c.neighbor, !.score = c.neighborScore,
                   !.best = IF c.neighborScore < c.bestScore THEN c.neighbor ELSE @,
                   !.bestScore = IF c.neighborScore < @ THEN c.neighborScore ELSE @,
                   !.history = Append(@, Step(c, c.neighbor, c.neighborScore))]
             d == [c EXCEPT !.history = Append(@, Step(c, c.config, c.score))]
  <1>1. \/ Decides(c) \in {NextIteration(e), NextIteration(d)}
        \/ \E err, v : Decides(c) = Ends(d, err, v)
    BY Zenon DEF Decides
  <1>2. ClimbShape(e) /\ e.evaluations = c.evaluations
    BY DEF ClimbShape
  <1>3. ClimbShape(d) /\ d.evaluations = c.evaluations
    BY DEF ClimbShape
  <1> HIDE DEF d, e
  <1> QED BY <1>1, <1>2, <1>3, EndsShape, NextIterationShape

\* A step of the climb, as far as the invariant tells: it calls, takes an answer, or
\* leaves its evaluation alone; the count goes up before a call, within the cap.
ClimbMoves ==
  /\ ClimbShape(climb')
  /\ \/ /\ climb.pc = "idle" /\ climb'.pc = "initial" /\ evals' = Called(Climber, InitialConfig)
        /\ climb'.evaluations = climb.evaluations
     \/ /\ climb.pc = "initial" /\ climb'.pc \in {"neighbors", "ended"} /\ TakesAnswer
        /\ Answered /\ (climb'.evaluations = 1 \/ climb'.evaluations = climb.evaluations)
        /\ climb'.pc = "neighbors" => climb'.evaluations = 1
     \/ /\ climb.pc = "evaluating" /\ climb'.pc \in {"neighbors", "ended"} /\ TakesAnswer
        /\ Answered /\ climb'.evaluations = climb.evaluations
     \/ /\ climb.pc = "neighbors" /\ climb'.pc = "evaluating"
        /\ climb'.evaluations = climb.evaluations + 1
        /\ MaxEvaluations > 0 => climb.evaluations < MaxEvaluations
        /\ \E c : evals' = Called(Climber, c)
     \/ /\ climb.pc = "neighbors" /\ climb'.pc \in {"neighbors", "ended"} /\ evals' = evals
        /\ climb'.evaluations = climb.evaluations

\* Every step of Optimize is such a step.
LEMMA ClimbStepMoves ==
  ASSUME ClimbShape(climb), ClimbStep
  PROVE  ClimbMoves /\ UNCHANGED <<ctx, failed, tokens, runs>>
  <1>1. CASE ClimbStarts
    <2>1. climb.pc = "idle" /\ climb' = [climb EXCEPT !.pc = "initial"]
      BY <1>1 DEF ClimbStarts
    <2>2. /\ ClimbShape(climb') /\ climb'.pc = "initial"
          /\ climb'.evaluations = climb.evaluations
      BY <2>1 DEF ClimbShape
    <2> QED BY <1>1, <2>1, <2>2 DEF ClimbStarts, ClimbMoves
  <1>2. CASE InitialAnswered
    <2> DEFINE c == [climb EXCEPT !.score = Answer, !.bestScore = Answer, !.evaluations = 1,
                                  !.history = <<Step(climb, InitialConfig, Answer)>>]
    <2>1. climb' = Ends(climb, evals[Climber].err, FALSE) \/ climb' = NextIteration(c)
      BY <1>2, Zenon DEF InitialAnswered
    <2>2. ClimbShape(c) /\ c.evaluations = 1
      BY DEF ClimbShape
    <2> HIDE DEF c
    <2>3. /\ ClimbShape(climb') /\ climb'.pc \in {"neighbors", "ended"}
          /\ \/ climb'.evaluations = 1
             \/ climb'.pc = "ended" /\ climb'.evaluations = climb.evaluations
      <3>1. \A err, v : /\ ClimbShape(Ends(climb, err, v)) /\ Ends(climb, err, v).pc = "ended"
                        /\ Ends(climb, err, v).evaluations = climb.evaluations
        BY EndsShape
      <3>2. /\ ClimbShape(NextIteration(c)) /\ NextIteration(c).pc \in {"neighbors", "ended"}
            /\ NextIteration(c).evaluations = 1
        BY <2>2, NextIterationShape
      <3> QED BY <2>1, <3>1, <3>2
    <2> QED BY <1>2, <2>3 DEF InitialAnswered, ClimbMoves
  <1>3. CASE EvaluatesNeighbor
    <2>1. climb.pc = "neighbors" /\ UNCHANGED <<ctx, failed, tokens, runs>>
      BY <1>3 DEF EvaluatesNeighbor
    <2>2. CASE MaxEvaluations > 0 /\ climb.evaluations >= MaxEvaluations
      <3>1. climb' = Ends(climb, "", FALSE) /\ evals' = evals
        BY <1>3, <2>2 DEF EvaluatesNeighbor
      <3> QED BY <2>1, <3>1, EndsShape DEF ClimbMoves
    <2>3. CASE ~(MaxEvaluations > 0 /\ climb.evaluations >= MaxEvaluations)
      <3>1. /\ climb' = [climb EXCEPT !.pc = "evaluating", !.evaluations = @ + 1]
            /\ evals' = Called(Climber, Head(climb.todo))
        BY <1>3, <2>3 DEF EvaluatesNeighbor
      <3>2. /\ ClimbShape(climb') /\ climb'.pc = "evaluating"
            /\ climb'.evaluations = climb.evaluations + 1
        BY <3>1 DEF ClimbShape
      <3>3. MaxEvaluations > 0 => climb.evaluations < MaxEvaluations
        BY <2>3, ExperimentConstants DEF ClimbShape
      <3> QED BY <2>1, <3>1, <3>2, <3>3 DEF ClimbMoves
    <2> QED BY <2>2, <2>3
  <1>4. CASE NeighborAnswered
    <2> DEFINE c == [climb EXCEPT !.pc = "neighbors", !.todo = Tail(@)]
               f == [c EXCEPT !.neighbor = evals[Climber].config, !.neighborScore = Answer]
    <2>1. climb' \in {Ends(climb, "canceled", FALSE), c, f}
      BY <1>4 DEF NeighborAnswered
    <2>2. ClimbShape(c) /\ c.pc = "neighbors" /\ c.evaluations = climb.evaluations
      BY DEF ClimbShape
    <2> HIDE DEF c
    <2>3. ClimbShape(f) /\ f.pc = "neighbors" /\ f.evaluations = climb.evaluations
      BY <2>2 DEF ClimbShape
    <2> HIDE DEF f
    <2>4. /\ ClimbShape(climb') /\ climb'.pc \in {"neighbors", "ended"}
          /\ climb'.evaluations = climb.evaluations
      <3>1. \A err, v : /\ ClimbShape(Ends(climb, err, v)) /\ Ends(climb, err, v).pc = "ended"
                        /\ Ends(climb, err, v).evaluations = climb.evaluations
        BY EndsShape
      <3> QED BY <2>1, <2>2, <2>3, <3>1
    <2> QED BY <1>4, <2>4 DEF NeighborAnswered, ClimbMoves
  <1>5. CASE IterationEnds
    <2>1. climb.pc = "neighbors" /\ climb' = Decides(climb)
      BY <1>5 DEF IterationEnds
    <2> QED BY <1>5, <2>1, DecidesShape DEF IterationEnds, evalVars, ClimbMoves
  <1> QED BY <1>1, <1>2, <1>3, <1>4, <1>5 DEF ClimbStep

\* A search that starts an evaluation, takes its answer or leaves it alone: what it does
\* not touch keeps the invariant.
LEMMA CallKeeps ==
  ASSUME ExperimentOK, NEW w \in Workers,
         UNCHANGED <<ctx, failed, tokens, runs, kind, permits, results>>, kind # "parallel",
         \/ evals' = evals
         \/ evals[w].pc \in {"idle", "returned"} /\ \E c : evals' = Called(w, c)
         \/ evals[w].pc \in {"idle", "returned"} /\ evals' = [evals EXCEPT ![w] = Idle]
  PROVE  /\ EvalOK' /\ WorkersOK' /\ FailuresOK'
         /\ \A v \in Workers : v # w => evals'[v] = evals[v]
         /\ (\E c : evals' = Called(w, c)) => Ahead(w)' = 1
         /\ evals' = [evals EXCEPT ![w] = Idle] => evals'[w].pc = "idle" /\ Ahead(w)' = 0
  <1>0. EvalOK
    BY DEF ExperimentOK
  <1>1. /\ EvalOK' /\ Cardinality(Passed') = Cardinality(Passed)
        /\ \A v \in Workers : v # w => evals'[v] = evals[v]
    <2>1. CASE evals' = evals
      <3>1. Shapes' /\ RunsWatched'
        BY <1>0, <2>1 DEF EvalOK, Shapes, RunsWatched, Watches
      <3>2. Watching' = Watching /\ Passed' = Passed
        BY <2>1 DEF Watching, Passed
      <3> QED BY <1>0, <2>1, <3>1, <3>2 DEF EvalOK
    <2>2. CASE /\ evals[w].pc \in {"idle", "returned"}
               /\ (\E c : evals' = Called(w, c)) \/ evals' = [evals EXCEPT ![w] = Idle]
      BY <1>0, <2>2, CallerSteps DEF Moves
    <2> QED BY <2>1, <2>2
  <1>2. Shapes
    BY <1>0 DEF EvalOK
  <1>3. (\E c : evals' = Called(w, c)) => Ahead(w)' = 1
    BY <1>2, CalledMoves DEF Ahead
  <1>4. evals' = [evals EXCEPT ![w] = Idle] => evals'[w].pc = "idle" /\ Ahead(w)' = 0
    BY <1>2, TakenMoves DEF Ahead
  <1>5. WorkersOK'
    <2>1. Evaluating' = Evaluating
      BY DEF Evaluating
    <2> QED BY <2>1 DEF ExperimentOK, WorkersOK
  <1>6. FailuresOK'
    <2>1. Cap' = Cap
      BY DEF Cap
    <2> QED BY <1>1, <2>1 DEF ExperimentOK, FailuresOK
  <1> QED BY <1>1, <1>3, <1>4, <1>5, <1>6

\* The hill climb keeps the invariant.
LEMMA ClimbKeeps ==
  ASSUME ExperimentOK, ClimbSearches
  PROVE  ExperimentOK'
  <1>1. /\ kind = "climb" /\ UNCHANGED <<beam, readers, waiting, permits, results>>
        /\ UNCHANGED <<kind, orch, adapter>>
    BY DEF ClimbSearches, lockVars, parVars
  <1>2. ClimbMoves /\ UNCHANGED <<ctx, failed, tokens, runs>>
    BY <1>1, ClimbStepMoves DEF ClimbSearches, ExperimentOK, ClimbOK
  <1>3. Climber \in Workers /\ MaxEvaluations \in Nat
    BY ExperimentConstants
  <1>4. /\ climb.evaluations \in Nat /\ Len(runs) \in Nat /\ Ahead(Climber) \in {0, 1}
        /\ \A w \in Workers : evals[w].pc # "idle" =>
             w = Climber /\ climb.pc \in {"initial", "evaluating"}
    BY <1>1, EvaluationFacts DEF ExperimentOK, ClimbOK, ClimbShape, Ahead
  <1>5. climb.pc \in {"idle", "neighbors"} => evals[Climber].pc = "idle"
    BY <1>3, <1>4
  <1>6. /\ EvalOK' /\ WorkersOK' /\ FailuresOK'
        /\ \A v \in Workers : v # Climber => evals'[v] = evals[v]
        /\ (\E c : evals' = Called(Climber, c)) => Ahead(Climber)' = 1
        /\ evals' = [evals EXCEPT ![Climber] = Idle] =>
             evals'[Climber].pc = "idle" /\ Ahead(Climber)' = 0
    <2>1. kind # "parallel" /\ UNCHANGED <<ctx, failed, tokens, runs, kind, permits, results>>
      BY <1>1, <1>2
    <2>2. \/ evals' = evals
          \/ evals[Climber].pc \in {"idle", "returned"} /\ \E c : evals' = Called(Climber, c)
          \/ evals[Climber].pc \in {"idle", "returned"} /\ evals' = [evals EXCEPT ![Climber] = Idle]
      BY <1>2, <1>5 DEF ClimbMoves, Answered, TakesAnswer
    <2> QED BY <1>3, <2>1, <2>2, CallKeeps
  <1>7. Control' /\ SearchOver'
    BY <1>1, <1>2 DEF ExperimentOK, Control, SearchOver, ClimbMoves
  <1>8. BeamOK'
    BY <1>1 DEF BeamOK
  <1>9. ClimbOK'
    <2>1. ClimbShape(climb')
      BY <1>2 DEF ClimbMoves
    <2>2. \A v \in Workers : v # Climber => evals'[v].pc = "idle"
      BY <1>4, <1>6
    <2>3. Len(runs') = Len(runs)
      BY <1>2
    <2>4. \/ Len(runs) + Ahead(Climber) <= 1
          \/ Len(runs) + Ahead(Climber) <= climb.evaluations
      BY <1>1 DEF ExperimentOK, ClimbOK
    <2>5. MaxEvaluations > 0 => climb.evaluations <= MaxEvaluations
      BY <1>1 DEF ExperimentOK, ClimbOK
    <2>6. /\ climb.pc = "idle" => Len(runs) = 0
          /\ climb.pc \in {"idle", "initial"} => climb.evaluations = 0
          /\ climb.pc \in {"neighbors", "evaluating"} => climb.evaluations >= 1
      BY <1>1 DEF ExperimentOK, ClimbOK
    <2>7. CASE /\ climb.pc = "idle" /\ climb'.pc = "initial" /\ \E c : evals' = Called(Climber, c)
               /\ climb'.evaluations = climb.evaluations
      BY <1>3, <1>4, <1>6, <2>1, <2>2, <2>3, <2>5, <2>6, <2>7 DEF ClimbOK
    <2>8. CASE /\ climb.pc \in {"initial", "evaluating"} /\ climb'.pc \in {"neighbors", "ended"}
               /\ evals' = [evals EXCEPT ![Climber] = Idle]
               /\ \/ climb'.evaluations = climb.evaluations
                  \/ climb.pc = "initial" /\ climb'.evaluations = 1
               /\ climb'.pc = "neighbors" /\ climb.pc = "initial" => climb'.evaluations = 1
      <3>1. evals'[Climber].pc = "idle" /\ Ahead(Climber)' = 0
        BY <1>6, <2>8
      <3>2. /\ climb'.pc = "neighbors" => climb'.evaluations >= 1
            /\ MaxEvaluations > 0 => climb'.evaluations <= MaxEvaluations
        BY <1>3, <1>4, <2>5, <2>6, <2>8
      <3>3. Len(runs) <= 1 \/ Len(runs) <= climb'.evaluations
        BY <1>4, <2>4, <2>6, <2>8
      <3> QED BY <1>4, <2>1, <2>2, <2>3, <2>8, <3>1, <3>2, <3>3 DEF ClimbOK
    <2>9. CASE /\ climb.pc = "neighbors" /\ climb'.pc = "evaluating"
               /\ climb'.evaluations = climb.evaluations + 1
               /\ MaxEvaluations > 0 => climb.evaluations < MaxEvaluations
               /\ \E c : evals' = Called(Climber, c)
      BY <1>3, <1>4, <1>6, <2>1, <2>2, <2>3, <2>4, <2>6, <2>9 DEF ClimbOK
    <2>10. CASE /\ climb.pc = "neighbors" /\ climb'.pc \in {"neighbors", "ended"}
                /\ evals' = evals /\ climb'.evaluations = climb.evaluations
      <3>1. Ahead(Climber)' = Ahead(Climber) /\ evals'[Climber].pc = "idle"
        BY <1>5, <2>10 DEF Ahead
      <3> QED BY <1>3, <1>4, <2>1, <2>2, <2>3, <2>4, <2>5, <2>6, <2>10, <3>1 DEF ClimbOK
    <2> QED BY <1>2, <2>7, <2>8, <2>9, <2>10 DEF ClimbMoves, TakesAnswer
  <1> QED BY <1>6, <1>7, <1>8, <1>9 DEF ExperimentOK

-----------------------------------------------------------------------------
(* The beam search.                                                        *)

\* The same configurations counted, and the same simulations of the one in hand.
Continues(d, b) == BeamShape(d) /\ d.count = b.count /\ d.gathered = b.gathered

\* The end of the search.
LEMMA BeamEndsShape ==
  ASSUME NEW b, BeamShape(b), NEW err
  PROVE  Continues(BeamEnds(b, err), b) /\ BeamEnds(b, err).pc = "ended"
  BY DEF BeamShape, BeamEnds, Continues

\* The refinement of the best state, or the end without one.
LEMMA RefinesShape ==
  ASSUME NEW b, BeamShape(b)
  PROVE  Continues(Refines(b), b) /\ Refines(b).pc \in {"expand", "ended"}
  <1> DEFINE todo == GenerateBatchNeighbors(RefinementSpec(BatchSpec), b.best.config, b.best.metrics)
             d == [b EXCEPT !.pc = "expand", !.phase = "refine", !.todo = todo]
  <1>1. (\E e : Refines(b) = BeamEnds(b, e)) \/ Refines(b) = d
    BY Zenon DEF Refines
  <1> HIDE DEF todo
  <1>2. Continues(d, b) /\ d.pc = "expand"
    BY DEF BeamShape, Continues
  <1> HIDE DEF d
  <1> QED BY <1>1, <1>2, BeamEndsShape

\* The next state of the frontier.
LEMMA ExpandsShape ==
  ASSUME NEW b, BeamShape(b)
  PROVE  Continues(Expands(b), b) /\ Expands(b).pc = "expand"
  BY DEF BeamShape, Expands, Continues

\* The end of a layer.
LEMMA LayerEndsShape ==
  ASSUME NEW b, BeamShape(b)
  PROVE  Continues(LayerEnds(b), b) /\ LayerEnds(b).pc \in {"expand", "ended"}
  <1> DEFINE d == [b EXCEPT !.depth = @ + 1, !.frontier = Kept(b.next), !.next = <<>>, !.at = 1]
  <1>1. LayerEnds(b) \in {Refines(b), Expands(d)}
    BY Zenon DEF LayerEnds
  <1>2. Continues(d, b)
    BY DEF BeamShape, Continues
  <1> HIDE DEF d
  <1>3. Continues(Expands(d), d) /\ Expands(d).pc = "expand"
    BY <1>2, ExpandsShape DEF Continues
  <1> QED BY <1>1, <1>2, <1>3, RefinesShape DEF Continues

\* The neighbours of a state are done.
LEMMA StateEndsShape ==
  ASSUME NEW b, BeamShape(b)
  PROVE  Continues(StateEnds(b), b) /\ StateEnds(b).pc \in {"expand", "ended"}
  <1> DEFINE d == [b EXCEPT !.at = @ + 1]
  <1>1. \/ \E e : StateEnds(b) = BeamEnds(b, e)
        \/ StateEnds(b) = Expands(d)
        \/ StateEnds(b) = LayerEnds(b)
    BY Zenon DEF StateEnds
  <1>2. Continues(d, b)
    BY DEF BeamShape, Continues
  <1> HIDE DEF d
  <1>3. Continues(Expands(d), d) /\ Expands(d).pc = "expand"
    BY <1>2, ExpandsShape DEF Continues
  <1> QED BY <1>1, <1>2, <1>3, BeamEndsShape, LayerEndsShape DEF Continues

\* A configuration that was scored counts with all of its simulations.
LEMMA ScoredShape ==
  ASSUME NEW b, BeamShape(b), NEW c, NEW m
  PROVE  /\ BeamShape(Scored(b, c, m)) /\ Scored(b, c, m).pc = "expand"
         /\ Scored(b, c, m).count = b.count + Reevaluations
         /\ Len(Scored(b, c, m).gathered) = 0
  <1> DEFINE s == [config |-> c, metrics |-> m, score |-> ComputeBatchScore(BatchSpec, Baseline, c, m)]
             d == [b EXCEPT !.count = @ + Reevaluations, !.visited = Append(@, s), !.gathered = <<>>,
                            !.best = IF b.visited = <<>> \/ Better(s, @) THEN s ELSE @]
             e == [d EXCEPT !.phase = "beam", !.frontier = <<s>>]
             f == [d EXCEPT !.pc = "expand", !.todo = Tail(@), !.next = Append(@, s)]
             g == [d EXCEPT !.pc = "expand", !.todo = Tail(@)]
  <1>1. b.phase \in {"baseline", "beam", "refine"}
    BY DEF BeamShape
  <1>2. Scored(b, c, m) \in {Expands(e), f, g}
    BY <1>1 DEF Scored
  <1>3. Reevaluations \in Nat
    BY ExperimentConstants DEF Reevaluations, Larger
  <1>4. IsSequence(<<>>) /\ Len(<<>>) = 0
    BY DEF IsSequence
  <1>5. BeamShape(d) /\ d.count = b.count + Reevaluations /\ d.gathered = <<>>
    BY <1>3, <1>4 DEF BeamShape
  <1> HIDE DEF d
  <1>6. Continues(e, d) /\ Continues(f, d) /\ Continues(g, d) /\ f.pc = "expand" /\ g.pc = "expand"
    BY <1>5 DEF BeamShape, Continues
  <1> HIDE DEF e, f, g, s
  <1>7. Continues(Expands(e), e) /\ Expands(e).pc = "expand"
    BY <1>6, ExpandsShape DEF Continues
  <1> QED BY <1>2, <1>4, <1>5, <1>6, <1>7 DEF Continues

\* A step of the search, as far as the invariant tells.
BeamMoves ==
  /\ BeamShape(beam')
  /\ \/ /\ beam.pc \in {"idle", "expand"} /\ beam'.pc \in {"expand", "ended"}
        /\ evals' = evals /\ Continues(beam', beam)
     \/ /\ beam.pc = "expand" /\ beam'.pc = "evaluating" /\ WithinBudget(beam)
        /\ Continues(beam', beam) /\ \E c : evals' = Called(Searcher, c)
     \/ /\ beam.pc = "evaluating" /\ evals[Searcher].pc = "returned" /\ beam'.pc = "ended"
        /\ evals' = [evals EXCEPT ![Searcher] = Idle] /\ Continues(beam', beam)
     \/ /\ beam.pc = "evaluating" /\ evals[Searcher].pc = "returned" /\ beam'.pc = "evaluating"
        /\ beam'.count = beam.count /\ Len(beam'.gathered) = Len(beam.gathered) + 1
        /\ Len(beam'.gathered) < Reevaluations /\ \E c : evals' = Called(Searcher, c)
     \/ /\ beam.pc = "evaluating" /\ evals[Searcher].pc = "returned" /\ beam'.pc = "expand"
        /\ beam'.count = beam.count + Reevaluations /\ Len(beam'.gathered) = 0
        /\ evals' = [evals EXCEPT ![Searcher] = Idle]

\* Every step of RunBatchBeamSearch is such a step.
LEMMA BeamStepMoves ==
  ASSUME BeamShape(beam), BeamStep
  PROVE  BeamMoves /\ UNCHANGED <<ctx, failed, tokens, runs>>
  <1>1. CASE BeamStarts
    <2>1. beam.pc = "idle" /\ beam' = [beam EXCEPT !.pc = "expand", !.todo = <<Baseline>>]
      BY <1>1 DEF BeamStarts
    <2>2. Continues(beam', beam) /\ beam'.pc = "expand"
      BY <2>1 DEF BeamShape, Continues
    <2> QED BY <1>1, <2>1, <2>2 DEF BeamStarts, evalVars, BeamMoves, Continues
  <1>2. CASE TriesEvaluation
    <2> DEFINE d == [beam EXCEPT !.todo = Tail(@)]
               x == [beam EXCEPT !.exhausted = TRUE]
               f == [beam EXCEPT !.pc = "evaluating"]
    <2>1. beam.pc = "expand" /\ UNCHANGED <<ctx, failed, tokens, runs>>
      BY <1>2 DEF TriesEvaluation
    <2>2. /\ Continues(d, beam) /\ d.pc = beam.pc /\ Continues(x, beam)
          /\ Continues(f, beam) /\ f.pc = "evaluating"
      BY DEF BeamShape, Continues
    <2>3. beam.phase \in {"baseline", "beam", "refine"}
      BY DEF BeamShape
    <2>4. \/ evals' = evals /\ beam' = d
          \/ evals' = evals /\ \E e : beam' = BeamEnds(beam, e)
          \/ evals' = evals /\ \E e : beam' = BeamEnds(x, e)
          \/ evals' = evals /\ beam' = Refines(x)
          \/ beam' = f /\ WithinBudget(beam) /\ evals' = Called(Searcher, Head(beam.todo))
      <3> HIDE DEF d, f
      <3>1. CASE beam' = d /\ evals' = evals
        BY <3>1
      <3>2. CASE beam' = BeamEnds(beam, ctx) /\ evals' = evals
        BY <3>2, Zenon
      <3>3. CASE /\ evals' = evals
                 /\ \E b \in {CASE beam.phase = "baseline" -> BeamEnds(beam, "budget")
                              [] beam.phase = "beam" -> Refines(x)
                              [] beam.phase = "refine" -> BeamEnds(x, "")} : beam' = b
        <4> HIDE DEF x
        <4>1. CASE beam.phase = "baseline"
          <5>1. beam' = BeamEnds(beam, "budget")
            BY <3>3, <4>1, Zenon
          <5> QED BY <3>3, <5>1, Zenon
        <4>2. CASE beam.phase = "beam"
          <5>1. beam' = Refines(x)
            BY <3>3, <4>2, Zenon
          <5> QED BY <3>3, <5>1, Zenon
        <4>3. CASE beam.phase = "refine"
          <5>1. beam' = BeamEnds(x, "")
            BY <3>3, <4>3, Zenon
          <5> QED BY <3>3, <5>1, Zenon
        <4> QED BY <2>3, <4>1, <4>2, <4>3
      <3>4. CASE beam' = f /\ WithinBudget(beam) /\ evals' = Called(Searcher, Head(beam.todo))
        BY <3>4, Zenon
      <3>5. \/ beam' = d /\ evals' = evals
            \/ beam' = BeamEnds(beam, ctx) /\ evals' = evals
            \/ /\ evals' = evals
               /\ \E b \in {CASE beam.phase = "baseline" -> BeamEnds(beam, "budget")
                            [] beam.phase = "beam" -> Refines(x)
                            [] beam.phase = "refine" -> BeamEnds(x, "")} : beam' = b
            \/ beam' = f /\ WithinBudget(beam) /\ evals' = Called(Searcher, Head(beam.todo))
        BY <1>2, Zenon DEF TriesEvaluation, d, f
      <3> QED BY <3>1, <3>2, <3>3, <3>4, <3>5, Zenon
    <2> HIDE DEF d, f, x
    <2>5. /\ \A e : Continues(BeamEnds(beam, e), beam) /\ BeamEnds(beam, e).pc = "ended"
          /\ \A e : Continues(BeamEnds(x, e), x) /\ BeamEnds(x, e).pc = "ended"
          /\ Continues(Refines(x), x) /\ Refines(x).pc \in {"expand", "ended"}
      BY <2>2, BeamEndsShape, RefinesShape DEF Continues
    <2>6. \/ evals' = evals /\ Continues(beam', beam) /\ beam'.pc \in {"expand", "ended"}
          \/ /\ Continues(beam', beam) /\ beam'.pc = "evaluating" /\ WithinBudget(beam)
             /\ \E c : evals' = Called(Searcher, c)
      BY <2>1, <2>2, <2>4, <2>5 DEF Continues
    <2> QED BY <2>1, <2>6 DEF BeamMoves, Continues
  <1>3. CASE EvaluationReturns
    <2> DEFINE e == evals[Searcher]
               ms == Append(beam.gathered, e.metrics)
               d == [beam EXCEPT !.gathered = ms]
               m == AggregateRunMetrics(ms)
    <2>1. /\ beam.pc = "evaluating" /\ e.pc = "returned"
          /\ UNCHANGED <<ctx, failed, tokens, runs>>
      BY <1>3 DEF EvaluationReturns
    <2>2. IsSequence(ms) /\ Len(ms) = Len(beam.gathered) + 1
      BY SequenceAppend DEF BeamShape
    <2>3. \/ beam' = BeamEnds(beam, e.err) /\ evals' = [evals EXCEPT ![Searcher] = Idle]
          \/ Len(ms) < Reevaluations /\ beam' = d /\ evals' = Called(Searcher, e.config)
          \/ beam' = Scored(beam, e.config, m) /\ evals' = [evals EXCEPT ![Searcher] = Idle]
      BY <1>3, Zenon DEF EvaluationReturns
    <2> HIDE DEF ms, m
    <2>4. BeamShape(d) /\ d.pc = beam.pc /\ d.count = beam.count /\ d.gathered = ms
      BY <2>2 DEF BeamShape
    <2> HIDE DEF d
    <2>5. CASE beam' = BeamEnds(beam, e.err) /\ evals' = [evals EXCEPT ![Searcher] = Idle]
      BY <2>1, <2>5, BeamEndsShape DEF BeamMoves, Continues
    <2>6. CASE Len(ms) < Reevaluations /\ beam' = d /\ evals' = Called(Searcher, e.config)
      BY <2>1, <2>2, <2>4, <2>6 DEF BeamMoves
    <2>7. CASE beam' = Scored(beam, e.config, m) /\ evals' = [evals EXCEPT ![Searcher] = Idle]
      BY <2>1, <2>7, ScoredShape DEF BeamMoves
    <2> QED BY <2>3, <2>5, <2>6, <2>7
  <1>4. CASE NeighborsDone
    <2>1. beam.pc = "expand" /\ beam' = StateEnds(beam)
      BY <1>4 DEF NeighborsDone
    <2> QED BY <1>4, <2>1, StateEndsShape DEF NeighborsDone, evalVars, BeamMoves, Continues
  <1> QED BY <1>1, <1>2, <1>3, <1>4 DEF BeamStep

\* The beam search keeps the invariant.
LEMMA BeamKeeps ==
  ASSUME ExperimentOK, BatchSearches
  PROVE  ExperimentOK'
  <1>1. /\ kind = "batch" /\ UNCHANGED <<climb, readers, waiting, permits, results>>
        /\ UNCHANGED <<kind, orch, adapter>>
    BY DEF BatchSearches, lockVars, parVars
  <1>2. BeamMoves /\ UNCHANGED <<ctx, failed, tokens, runs>>
    BY <1>1, BeamStepMoves DEF BatchSearches, ExperimentOK, BeamOK
  <1>3. /\ Searcher \in Workers /\ MaxSimulations \in Nat /\ Reevaluations \in Nat
    BY ExperimentConstants DEF Reevaluations, Larger
  <1>4. /\ beam.count \in Nat /\ Len(beam.gathered) \in Nat /\ Len(runs) \in Nat
        /\ Ahead(Searcher) \in {0, 1}
        /\ \A w \in Workers : evals[w].pc # "idle" => w = Searcher /\ beam.pc = "evaluating"
    BY <1>1, EvaluationFacts DEF ExperimentOK, BeamOK, BeamShape, IsSequence, Ahead
  <1>5. beam.pc # "evaluating" => evals[Searcher].pc = "idle"
    BY <1>3, <1>4
  <1>6. /\ EvalOK' /\ WorkersOK' /\ FailuresOK'
        /\ \A v \in Workers : v # Searcher => evals'[v] = evals[v]
        /\ (\E c : evals' = Called(Searcher, c)) => Ahead(Searcher)' = 1
        /\ evals' = [evals EXCEPT ![Searcher] = Idle] =>
             evals'[Searcher].pc = "idle" /\ Ahead(Searcher)' = 0
    <2>1. kind # "parallel" /\ UNCHANGED <<ctx, failed, tokens, runs, kind, permits, results>>
      BY <1>1, <1>2
    <2>2. \/ evals' = evals
          \/ evals[Searcher].pc \in {"idle", "returned"} /\ \E c : evals' = Called(Searcher, c)
          \/ evals[Searcher].pc \in {"idle", "returned"} /\ evals' = [evals EXCEPT ![Searcher] = Idle]
      BY <1>2, <1>5 DEF BeamMoves
    <2> QED BY <1>3, <2>1, <2>2, CallKeeps
  <1>7. Control' /\ SearchOver'
    BY <1>1, <1>2 DEF ExperimentOK, Control, SearchOver, BeamMoves
  <1>8. ClimbOK'
    BY <1>1 DEF ClimbOK
  <1>9. BeamOK'
    <2>1. BeamShape(beam')
      BY <1>2 DEF BeamMoves
    <2>2. \A v \in Workers : v # Searcher => evals'[v].pc = "idle"
      BY <1>4, <1>6
    <2>3. Len(runs') = Len(runs)
      BY <1>2
    <2>4. beam.pc \in {"idle", "expand"} =>
            /\ Len(beam.gathered) = 0 /\ Len(runs) <= beam.count
            /\ MaxSimulations > 0 => beam.count <= MaxSimulations
      BY <1>1 DEF ExperimentOK, BeamOK
    <2>5. beam.pc = "evaluating" =>
            /\ Len(runs) + Ahead(Searcher) <= beam.count + Len(beam.gathered) + 1
            /\ Len(beam.gathered) + 1 <= Reevaluations
            /\ MaxSimulations > 0 => beam.count + Reevaluations <= MaxSimulations
      BY <1>1 DEF ExperimentOK, BeamOK
    <2>6. CASE /\ beam.pc \in {"idle", "expand"} /\ beam'.pc \in {"expand", "ended"}
               /\ evals' = evals /\ Continues(beam', beam)
      <3>1. evals'[Searcher].pc = "idle"
        BY <1>5, <2>6
      <3>2. /\ Len(beam'.gathered) = 0 /\ Len(runs') <= beam'.count
            /\ MaxSimulations > 0 => beam'.count <= MaxSimulations
        BY <2>3, <2>4, <2>6 DEF Continues
      <3>3. MaxSimulations > 0 => Len(runs') <= MaxSimulations
        BY <1>3, <1>4, <2>1, <2>3, <3>2 DEF BeamShape
      <3> QED BY <2>1, <2>2, <2>6, <3>1, <3>2, <3>3 DEF BeamOK
    <2>7. CASE /\ beam.pc = "expand" /\ beam'.pc = "evaluating" /\ WithinBudget(beam)
               /\ Continues(beam', beam) /\ \E c : evals' = Called(Searcher, c)
      <3>1. MaxSimulations > 0 => beam.count + Reevaluations <= MaxSimulations
        BY <2>7 DEF WithinBudget
      <3>2. 1 <= Reevaluations
        BY ExperimentConstants DEF Reevaluations, Larger
      <3>3. Ahead(Searcher)' = 1 /\ beam'.count = beam.count /\ Len(beam'.gathered) = 0
        BY <1>6, <2>4, <2>7 DEF Continues
      <3>4. /\ Len(runs') + Ahead(Searcher)' <= beam'.count + Len(beam'.gathered) + 1
            /\ Len(beam'.gathered) + 1 <= Reevaluations
        <4>1. \A l, c \in Nat : l <= c => l + 1 <= c + 0 + 1
          OBVIOUS
        <4>2. Len(runs) + 1 <= beam.count + 0 + 1
          BY <1>4, <2>4, <2>7, <4>1, Zenon
        <4>3. 0 + 1 <= Reevaluations
          BY <3>2
        <4> QED BY <2>3, <3>3, <4>2, <4>3
      <3> QED BY <2>1, <2>2, <2>7, <3>1, <3>3, <3>4 DEF BeamOK
    <2>8. CASE /\ beam.pc = "evaluating" /\ beam'.pc = "ended"
               /\ evals' = [evals EXCEPT ![Searcher] = Idle]
      <3>1. evals'[Searcher].pc = "idle"
        BY <1>6, <2>8
      <3>2. MaxSimulations > 0 => Len(runs) <= MaxSimulations
        BY <1>3, <1>4, <2>5, <2>8
      <3> QED BY <2>1, <2>2, <2>3, <2>8, <3>1, <3>2 DEF BeamOK
    <2>9. CASE /\ beam.pc = "evaluating" /\ beam'.pc = "evaluating"
               /\ evals[Searcher].pc = "returned"
               /\ beam'.count = beam.count /\ Len(beam'.gathered) = Len(beam.gathered) + 1
               /\ Len(beam'.gathered) < Reevaluations /\ \E c : evals' = Called(Searcher, c)
      <3>1. Ahead(Searcher) = 0 /\ Ahead(Searcher)' = 1
        BY <1>6, <2>9 DEF Ahead
      <3>2. Len(runs') + Ahead(Searcher)' <= beam'.count + Len(beam'.gathered) + 1
        <4>1. \A l, c, g \in Nat : l + 0 <= c + g + 1 => l + 1 <= c + (g + 1) + 1
          OBVIOUS
        <4>2. Len(runs) + 0 <= beam.count + Len(beam.gathered) + 1
          BY <2>5, <2>9, <3>1
        <4>3. Len(runs) + 1 <= beam.count + (Len(beam.gathered) + 1) + 1
          BY <1>4, <4>1, <4>2, Zenon
        <4> QED BY <2>3, <2>9, <3>1, <4>3
      <3>3. Len(beam'.gathered) + 1 <= Reevaluations
        BY <1>3, <1>4, <2>9
      <3> QED BY <1>3, <2>1, <2>2, <2>5, <2>9, <3>2, <3>3 DEF BeamOK
    <2>10. CASE /\ beam.pc = "evaluating" /\ beam'.pc = "expand"
                /\ beam'.count = beam.count + Reevaluations /\ Len(beam'.gathered) = 0
                /\ evals' = [evals EXCEPT ![Searcher] = Idle]
      <3>1. evals'[Searcher].pc = "idle"
        BY <1>6, <2>10
      <3>2. Len(runs) <= beam.count + Reevaluations
        BY <1>3, <1>4, <2>5, <2>10
      <3> QED BY <2>1, <2>2, <2>3, <2>5, <2>10, <3>1, <3>2 DEF BeamOK
    <2> QED BY <1>2, <2>6, <2>7, <2>8, <2>9, <2>10 DEF BeamMoves
  <1> QED BY <1>6, <1>7, <1>8, <1>9 DEF ExperimentOK

-----------------------------------------------------------------------------
(* The parallel evaluation.                                                *)

\* A worker enters with a permit, and leaves with its candidate.
LEMMA WorkersKeep ==
  ASSUME ExperimentOK, NEW w \in Workers, WorkerStarts(w) \/ WorkerEnds(w)
  PROVE  ExperimentOK'
  <1>0. EvalOK /\ WorkersOK
    BY DEF ExperimentOK
  <1>1. /\ kind = "parallel" /\ UNCHANGED <<climb, beam, readers, waiting>>
        /\ UNCHANGED <<kind, orch, adapter>> /\ UNCHANGED <<ctx, failed, tokens, runs>>
    BY DEF WorkerStarts, WorkerEnds, searchVars, lockVars
  <1>2. /\ results = [v \in Workers |-> results[v]] /\ \A v \in Workers : ResultShape(results[v])
        /\ permits = Cardinality(Evaluating) /\ permits <= MaxParallelRuns
        /\ MaxParallelRuns \in Nat
    BY <1>0, ExperimentConstants DEF WorkersOK
  <1>3. /\ evals[w].pc \in {"idle", "returned"} /\ results[w].state # "done"
        /\ results' = [v \in Workers |-> results'[v]] /\ ResultShape(results'[w])
        /\ \A v \in Workers : v # w => results'[v] = results[v]
        /\ \/ /\ results[w].state # "evaluating" /\ results'[w].state = "evaluating"
              /\ permits < MaxParallelRuns /\ permits' = permits + 1
              /\ \E c : evals' = Called(w, c)
           \/ /\ results[w].state = "evaluating" /\ results'[w].state # "evaluating"
              /\ permits' = permits - 1 /\ evals' = [evals EXCEPT ![w] = Idle]
    <2>1. CASE WorkerStarts(w)
      <3>1. /\ results[w].state = "none" /\ permits < MaxParallelRuns /\ permits' = permits + 1
            /\ results' = [results EXCEPT ![w].state = "evaluating"]
            /\ evals' = Called(w, Batch[w])
        BY <2>1 DEF WorkerStarts
      <3>2. evals[w].pc = "idle"
        BY <1>0, <1>1, <3>1 DEF WorkersOK, Evaluating
      <3>3. /\ results' = [v \in Workers |-> results'[v]] /\ ResultShape(results'[w])
            /\ \A v \in Workers : v # w => results'[v] = results[v]
            /\ results'[w].state = "evaluating"
        BY <1>2, <3>1 DEF ResultShape
      <3> QED BY <3>1, <3>2, <3>3
    <2>2. CASE WorkerEnds(w)
      <3> DEFINE e == evals[w]
                 failure == [NoCandidate EXCEPT !.state = "done"]
                 success == [state |-> "done", evaluated |-> TRUE, score |-> Score(e.config, e.metrics),
                             other |-> <<Secondary(e.config, e.metrics)>>, run |-> e.run]
                 r == IF e.err # "" THEN failure ELSE success
      <3>1. /\ results[w].state = "evaluating" /\ evals[w].pc = "returned"
            /\ permits' = permits - 1 /\ evals' = [evals EXCEPT ![w] = Idle]
            /\ results' = [results EXCEPT ![w] = r]
        BY <2>2, Zenon DEF WorkerEnds
      <3>2. ResultShape(r) /\ r.state = "done"
        <4>1. ResultShape(failure) /\ failure.state = "done"
          <5>1. DOMAIN NoCandidate = {"state", "evaluated", "score", "other", "run"}
            BY DEF NoCandidate
          <5> QED BY <5>1 DEF ResultShape
        <4>2. ResultShape(success) /\ success.state = "done"
          BY DEF ResultShape
        <4> HIDE DEF failure, success
        <4> QED BY <4>1, <4>2, Zenon
      <3> HIDE DEF r
      <3>3. /\ results' = [v \in Workers |-> results'[v]] /\ results'[w] = r
            /\ \A v \in Workers : v # w => results'[v] = results[v]
        BY <1>2, <3>1
      <3> QED BY <3>1, <3>2, <3>3
    <2> QED BY <2>1, <2>2
  <1>4. /\ EvalOK' /\ Moves(w) /\ Cardinality(Passed') = Cardinality(Passed)
        /\ evals' = [evals EXCEPT ![w] = Idle] => evals'[w].pc = "idle"
    BY <1>0, <1>1, <1>3, CallerSteps
  <1>5. WorkersOK'
    <2>1. Evaluating \in SUBSET Workers /\ Evaluating' \in SUBSET Workers
      BY DEF Evaluating
    <2>2. \A v \in Workers : v # w => (v \in Evaluating <=> v \in Evaluating')
      BY <1>3 DEF Evaluating
    <2>3. /\ Cardinality(Evaluating) \in Nat /\ Cardinality(Evaluating') \in Nat
          /\ w \notin Evaluating /\ w \in Evaluating' =>
               Cardinality(Evaluating') = Cardinality(Evaluating) + 1
          /\ w \in Evaluating /\ w \notin Evaluating' =>
               Cardinality(Evaluating') = Cardinality(Evaluating) - 1
      BY <2>1, <2>2, CountChanges
    <2>4. \A v \in Workers : ResultShape(results'[v])
      BY <1>2, <1>3
    <2>5. permits' = Cardinality(Evaluating') /\ permits' <= MaxParallelRuns
      <3>1. /\ w \in Evaluating <=> results[w].state = "evaluating"
            /\ w \in Evaluating' <=> results'[w].state = "evaluating"
        BY DEF Evaluating
      <3> QED BY <1>2, <1>3, <2>3, <3>1
    <2>6. \A v \in Workers : evals'[v].pc # "idle" => v \in Evaluating'
      BY <1>0, <1>1, <1>3, <1>4, <2>2 DEF WorkersOK, Moves, Evaluating
    <2> QED BY <1>3, <2>4, <2>5, <2>6 DEF WorkersOK
  <1>6. FailuresOK'
    <2>1. Cap' = Cap
      BY <1>1 DEF Cap
    <2> QED BY <1>1, <1>4, <2>1 DEF ExperimentOK, FailuresOK
  <1>7. Control' /\ SearchOver'
    BY <1>1, <1>3 DEF ExperimentOK, Control, SearchOver
  <1>8. ClimbOK' /\ BeamOK'
    BY <1>1 DEF ClimbOK, BeamOK
  <1> QED BY <1>4, <1>5, <1>6, <1>7, <1>8 DEF ExperimentOK

-----------------------------------------------------------------------------
(* The experiment.                                                         *)

\* It holds when an experiment starts.
LEMMA ExperimentInit == Init => ExperimentOK
  <1> SUFFICES ASSUME Init PROVE ExperimentOK
    OBVIOUS
  <1>1. /\ kind \in Kinds /\ readers = 0 /\ waiting = FALSE /\ permits = 0 /\ failed = 0
        /\ runs = <<>> /\ evals = [w \in Workers |-> Idle]
        /\ results = [w \in Workers |-> NoCandidate]
    BY DEF Init, EvalInit
  <1>2. EvalOK
    BY EvaluationInit DEF Init
  <1>3. \A w \in Workers : evals[w].pc = "idle"
    BY <1>1 DEF Idle
  <1>4. Len(runs) = 0 /\ Ahead(Climber) = 0 /\ Ahead(Searcher) = 0
    BY <1>1, <1>3, ExperimentConstants DEF Ahead
  <1>5. OrchShape(orch) /\ orch.pc = "search" /\ DOMAIN adapter = {"pc", "err"} /\ adapter.pc = "select"
    <2>1. PICK e : /\ orch = [pc |-> "search", collected |-> <<>>, best |-> None,
                              candidates |-> <<>>, score |-> 0, err |-> e]
                   /\ adapter = [pc |-> "select", err |-> e]
      BY Zenon DEF Init
    <2>2. OrchShape(orch) /\ orch.pc = "search"
      BY ONLY <2>1 DEF OrchShape
    <2>3. DOMAIN adapter = {"pc", "err"} /\ adapter.pc = "select"
      BY ONLY <2>1
    <2> QED BY <2>2, <2>3
  <1>6. Control /\ SearchOver
    BY <1>1, <1>5 DEF Control, SearchOver
  <1>7. ClimbOK
    <2>1. PICK e : climb =
            [pc |-> "idle", iteration |-> 0, config |-> InitialConfig, score |-> Worst,
             best |-> InitialConfig, bestScore |-> Worst, history |-> <<>>, todo |-> <<>>,
             neighbor |-> InitialConfig, neighborScore |-> Worst, evaluations |-> 0,
             err |-> e, converged |-> FALSE]
      BY Zenon DEF Init, ClimbInit
    <2>2. ClimbShape(climb) /\ climb.pc = "idle" /\ climb.evaluations = 0
      BY ONLY <2>1 DEF ClimbShape
    <2>3. Len(runs) + Ahead(Climber) <= 1 /\ (MaxEvaluations > 0 => 0 <= MaxEvaluations)
      BY <1>4, ExperimentConstants
    <2> QED BY <1>3, <1>4, <2>2, <2>3 DEF ClimbOK
  <1>8. BeamOK
    <2>1. PICK e : beam =
            [pc |-> "idle", phase |-> "baseline", depth |-> 0, frontier |-> <<>>, at |-> 1,
             todo |-> <<>>, next |-> <<>>, visited |-> <<>>, count |-> 0, gathered |-> <<>>,
             best |-> NoState, exhausted |-> FALSE, err |-> e]
      BY Zenon DEF Init, BeamInit
    <2>2. IsSequence(<<>>) /\ Len(<<>>) = 0
      BY DEF IsSequence
    <2>3. BeamShape(beam) /\ beam.pc = "idle" /\ beam.count = 0 /\ Len(beam.gathered) = 0
      BY ONLY <2>1, <2>2 DEF BeamShape
    <2>4. Len(runs) <= 0 /\ (MaxSimulations > 0 => 0 <= MaxSimulations)
      BY <1>4, ExperimentConstants
    <2> QED BY <1>3, <2>3, <2>4 DEF BeamOK
  <1>9. WorkersOK
    <2>1. \A w \in Workers : ResultShape(results[w]) /\ results[w].state = "none"
      BY <1>1 DEF ResultShape, NoCandidate
    <2>2. Evaluating = {}
      BY <2>1 DEF Evaluating
    <2>3. Cardinality(Evaluating) = 0
      BY <2>2, FS_EmptySet
    <2> QED BY <1>1, <1>3, <2>1, <2>3, ExperimentConstants DEF WorkersOK
  <1>10. FailuresOK
    <2>1. Passed = {}
      BY <1>3 DEF Passed
    <2>2. Cardinality(Passed) = 0
      BY <2>1, FS_EmptySet
    <2> QED BY <1>1, <2>2, EvaluationConstants, ExperimentConstants DEF FailuresOK, Cap
  <1> QED BY <1>2, <1>6, <1>7, <1>8, <1>9, <1>10 DEF ExperimentOK

\* Every step keeps it.
LEMMA ExperimentSteps ==
  ASSUME ExperimentOK, [Next]_vars
  PROVE  ExperimentOK'
  <1>1. CASE UNCHANGED vars
    <2>1. /\ UNCHANGED <<ctx, failed, tokens, runs, evals, climb, beam, permits, results, kind>>
          /\ UNCHANGED <<orch, readers, waiting, adapter>>
      BY <1>1 DEF vars, evalVars, searchVars, lockVars, parVars
    <2>2. EvalOK'
      <3>1. Shapes' /\ RunsWatched' /\ Watching' = Watching
        BY <2>1 DEF ExperimentOK, EvalOK, Shapes, RunsWatched, Watching, Watches
      <3> QED BY <2>1, <3>1 DEF ExperimentOK, EvalOK
    <2>3. Control' /\ SearchOver'
      BY <2>1 DEF ExperimentOK, Control, SearchOver
    <2>4. ClimbOK' /\ BeamOK' /\ WorkersOK' /\ FailuresOK'
      BY <2>1, <2>2, SearchKept
    <2> QED BY <2>2, <2>3, <2>4 DEF ExperimentOK
  <1>2. CASE EvaluationStep
    BY <1>2, EvaluationKeeps
  <1>3. CASE SimulationStep \/ Interrupted \/ CancelActiveRuns
    BY <1>3, WorldKeeps
  <1>4. CASE AdapterReceives \/ AdapterCancels
    BY <1>4, AdapterKeeps
  <1>5. CASE \/ CollectionStarts \/ CollectsRun \/ CollectionEnds
             \/ FindsBestRun \/ BatchEnds \/ AllWorkersEnd
    BY <1>5, CollectionKeeps
  <1>6. CASE ClimbSearches
    BY <1>6, ClimbKeeps
  <1>7. CASE BatchSearches
    BY <1>7, BeamKeeps
  <1>8. CASE \E w \in Workers : WorkerStarts(w) \/ WorkerEnds(w)
    BY <1>8, WorkersKeep
  <1> QED BY <1>1, <1>2, <1>3, <1>4, <1>5, <1>6, <1>7, <1>8, Zenon DEF Next, Orchestrates, Adapts, Rests

\* The inductive invariant of an experiment: who evaluates when, with which permit and
\* token, and how many runs and failures that can add up to.
THEOREM ExperimentInvariant == Spec => []ExperimentOK
  <1>1. Init => ExperimentOK
    BY ExperimentInit
  <1>2. ExperimentOK /\ [Next]_vars => ExperimentOK'
    BY ExperimentSteps
  <1> QED BY <1>1, <1>2, PTL DEF Spec

\* Every simulation of an experiment is watched to its end by one evaluation, which holds
\* a token of candidateSem meanwhile, and once the adapter has returned nothing runs.
THEOREM CandidatesStayWatched == Spec => []CandidatesWatched
  <1>1. ASSUME ExperimentOK PROVE CandidatesWatched
    <2>1. /\ TokensExact /\ NoOrphans /\ ctx \in {"live", "canceled", "deadline"} /\ failed \in Nat
          /\ tokens \in 0..MaxConcurrentCandidates /\ \A i \in DOMAIN runs : RunShape(runs[i])
      BY <1>1, EvaluationFacts DEF ExperimentOK
    <2>2. Control /\ WorkersOK /\ SearchOver
      BY <1>1 DEF ExperimentOK
    <2>3. permits \in 0..MaxParallelRuns
      <3>1. Evaluating \subseteq Workers /\ IsFiniteSet(Evaluating)
        BY EvaluationConstants, FS_Subset DEF Evaluating
      <3>2. Cardinality(Evaluating) \in Nat
        BY <3>1, FS_CardinalityType
      <3> QED BY <2>2, <3>2, ExperimentConstants DEF WorkersOK
    <2>4. readers \in 0..1
      BY <2>2 DEF Control
    <2>5. TypeOK
      BY <2>1, <2>2, <2>3, <2>4 DEF TypeOK, Control, RunShape, Stores, Statuses
    <2>6. QuietAfterReturn
      <3> SUFFICES ASSUME adapter.pc = "returned"
                   PROVE  /\ \A w \in Workers : evals[w].pc = "idle"
                          /\ \A i \in DOMAIN runs : runs[i].store \notin {"pending", "running"}
        BY DEF QuietAfterReturn
      <3>1. orch.pc # "search" /\ kind \in {"climb", "batch", "parallel"}
        BY <2>2, ExperimentConstants DEF Control
      <3>2. \A w \in Workers : evals[w].pc = "idle"
        <4>1. CASE kind = "climb"
          BY <1>1, <2>2, <3>1, <4>1 DEF SearchOver, ExperimentOK, ClimbOK
        <4>2. CASE kind = "batch"
          BY <1>1, <2>2, <3>1, <4>2 DEF SearchOver, ExperimentOK, BeamOK
        <4>3. CASE kind = "parallel"
          BY <2>2, <3>1, <4>3 DEF SearchOver, WorkersOK, Evaluating
        <4> QED BY <3>1, <4>1, <4>2, <4>3
      <3>3. \A i \in DOMAIN runs : runs[i].store \notin {"pending", "running"}
        BY <1>1, <3>2 DEF ExperimentOK, EvalOK, Shapes, IsSequence, RunsWatched, Watches
      <3> QED BY <3>2, <3>3
    <2> QED BY <2>1, <2>5, <2>6 DEF CandidatesWatched
  <1>2. ExperimentOK => CandidatesWatched
    BY <1>1
  <1> QED BY <1>2, ExperimentInvariant, PTL

\* However its candidates fail, an experiment stops at its limits: failedCandidates passes
\* its limit by no more than the evaluations that run at once, and neither search creates
\* more runs than its budget allows.
THEOREM SearchStaysBounded == Spec => []SearchBounded
  <1>1. ASSUME ExperimentOK PROVE SearchBounded
    <2>1. /\ failed \in Nat /\ Cardinality(Passed) \in Nat /\ Len(runs) \in Nat
      BY <1>1, EvaluationFacts DEF ExperimentOK
    <2>2. FailuresBounded
      BY <1>1, <2>1, EvaluationConstants, ExperimentConstants
         DEF ExperimentOK, FailuresOK, Cap, FailuresBounded
    <2>3. ASSUME kind = "climb", MaxEvaluations > 0 PROVE Len(runs) <= MaxEvaluations
      <3>1. /\ climb.evaluations \in Nat /\ climb.evaluations <= MaxEvaluations
            /\ \/ Len(runs) + Ahead(Climber) <= 1
               \/ Len(runs) + Ahead(Climber) <= climb.evaluations
        BY <1>1, <2>3 DEF ExperimentOK, ClimbOK, ClimbShape
      <3>2. Ahead(Climber) \in {0, 1}
        BY DEF Ahead
      <3> QED BY <2>1, <2>3, <3>1, <3>2, ExperimentConstants
    <2>4. ASSUME kind = "batch", MaxSimulations > 0 PROVE Len(runs) <= MaxSimulations
      <3>1. BeamOK /\ Ahead(Searcher) \in {0, 1} /\ Reevaluations \in Nat
        BY <1>1, ExperimentConstants DEF ExperimentOK, Ahead, Reevaluations, Larger
      <3>2. /\ beam.pc \in {"idle", "expand", "evaluating", "ended"}
            /\ beam.count \in Nat /\ Len(beam.gathered) \in Nat
        BY <2>4, <3>1 DEF BeamOK, BeamShape, IsSequence
      <3>3. CASE beam.pc \in {"idle", "expand"}
        BY <2>1, <2>4, <3>1, <3>2, <3>3, ExperimentConstants DEF BeamOK
      <3>4. CASE beam.pc = "evaluating"
        <4>1. /\ Len(runs) + Ahead(Searcher) <= beam.count + Len(beam.gathered) + 1
              /\ Len(beam.gathered) + 1 <= Reevaluations
              /\ beam.count + Reevaluations <= MaxSimulations
          BY <2>4, <3>1, <3>4 DEF BeamOK
        <4> QED BY <2>1, <3>1, <3>2, <4>1, ExperimentConstants
      <3>5. CASE beam.pc = "ended"
        BY <2>4, <3>1, <3>5 DEF BeamOK
      <3> QED BY <3>2, <3>3, <3>4, <3>5
    <2> QED BY <2>2, <2>3, <2>4 DEF SearchBounded, BudgetKept
  <1>2. ExperimentOK => SearchBounded
    BY <1>1
  <1> QED BY <1>2, ExperimentInvariant, PTL
=============================================================================
