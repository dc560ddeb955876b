----------------------------- MODULE HillClimb ------------------------------
(***************************************************************************)
(* The hill climb of internal/improvement/optimizer.go (Optimize), whose   *)
(* evaluations are those of module Evaluation by one worker.               *)
(*                                                                         *)
(* The explorer that proposes neighbours and the objective are interfaces  *)
(* of the code and constants here.                                         *)
(***************************************************************************)
EXTENDS Evaluation, Objectives

CONSTANTS
  Climber,             \* the worker the optimizer evaluates on
  InitialConfig,       \* the configuration of the run
  GenerateNeighbors(_),\* the explorer: the neighbours of a configuration, in order
  Score(_, _),         \* evaluateRunScore: of a configuration and its metrics
  Convergence,         \* ConvergenceConfig
  MaxIterations,       \* optimizer.maxIterations
  MaxEvaluations       \* optimizer.maxEvaluations; 0 means no cap

VARIABLE climb         \* the local state of Optimize and the optimizer's best

Worst == 1000 * HighPenalty   \* math.MaxFloat64

ClimbInit == climb =
  [pc |-> "idle", iteration |-> 0, config |-> InitialConfig, score |-> Worst,
   best |-> InitialConfig, bestScore |-> Worst, history |-> <<>>, todo |-> <<>>,
   neighbor |-> InitialConfig, neighborScore |-> Worst, evaluations |-> 0,
   err |-> "", converged |-> FALSE]

\* Waiting for the evaluation in progress.
Answered == evals[Climber].pc = "returned"
TakesAnswer == evals' = [evals EXCEPT ![Climber] = Idle]
Answer == Score(evals[Climber].config, evals[Climber].metrics)

Ends(c, err, conv) == [c EXCEPT !.pc = "ended", !.err = err, !.converged = conv]

\* for iteration := ...: the neighbours of the current configuration.
NextIteration(c) ==
  IF c.iteration >= MaxIterations THEN Ends(c, "", FALSE)
  ELSE LET todo == GenerateNeighbors(c.config)
           d == [c EXCEPT !.iteration = @ + 1, !.todo = todo]
       IN  IF todo = <<>> THEN Ends(d, "", TRUE)
           ELSE [d EXCEPT !.pc = "neighbors", !.neighbor = todo[1], !.neighborScore = Worst]

Step(c, conf, score) == [iteration |-> c.iteration, config |-> conf, score |-> score]

\* Every neighbour was evaluated: move to the best of them, or see whether to stop.
Decides(c) ==
  IF c.neighborScore < c.score
  THEN NextIteration(
         [c EXCEPT !.config = c.neighbor, !.score = c.neighborScore,
                   !.best = IF c.neighborScore < c.bestScore THEN c.neighbor ELSE @,
                   !.bestScore = IF c.neighborScore < @ THEN c.neighborScore ELSE @,
                   !.history = Append(@, Step(c, c.neighbor, c.neighborScore))])
  ELSE LET d == [c EXCEPT !.history = Append(@, Step(c, c.config, c.score))]
       IN  IF CheckConvergence(Convergence, [i \in 1..Len(d.history) |-> d.history[i].score])
           THEN Ends(d, "", TRUE) ELSE NextIteration(d)

\* Optimize is called: the initial configuration is evaluated first.
ClimbStarts ==
  /\ climb.pc = "idle"
  /\ climb' = [climb EXCEPT !.pc = "initial"]
  /\ evals' = Called(Climber, InitialConfig)
  /\ UNCHANGED <<ctx, failed, tokens, runs, faults>>

\* The initial configuration is tried again.
InitialAnsweredRetried ==
  /\ climb.pc = "initial" /\ Answered
  /\ \E d \in {IF evals[Climber].err # "" THEN climb
               ELSE NextIteration(
                      [climb EXCEPT !.score = Answer, !.bestScore = Answer, !.evaluations = 1,
                                    !.history = <<Step(climb, InitialConfig, Answer)>>])} :
       climb' = d
  /\ evals' = IF evals[Climber].err # "" THEN Called(Climber, InitialConfig)
              ELSE [evals EXCEPT ![Climber] = Idle]
  /\ UNCHANGED <<ctx, failed, tokens, runs, faults>>

\* Without a score for the initial configuration there is no search.
InitialAnswered ==
  /\ climb.pc = "initial" /\ Answered
  /\ \E d \in {IF evals[Climber].err # "" THEN Ends(climb, evals[Climber].err, FALSE)
               ELSE NextIteration(
                      [climb EXCEPT !.score = Answer, !.bestScore = Answer, !.evaluations = 1,
                                    !.history = <<Step(climb, InitialConfig, Answer)>>])} :
       climb' = d
  /\ TakesAnswer
  /\ UNCHANGED <<ctx, failed, tokens, runs, faults>>

\* The next neighbour, unless the cap on evaluations is reached: then the search is over
\* and what this iteration found so far is dropped.
EvaluatesNeighbor ==
  /\ climb.pc = "neighbors" /\ climb.todo # <<>>
  /\ IF MaxEvaluations > 0 /\ climb.evaluations >= MaxEvaluations
     THEN climb' = Ends(climb, "", FALSE) /\ evals' = evals
     ELSE /\ climb' = [climb EXCEPT !.pc = "evaluating", !.evaluations = @ + 1]
          /\ evals' = Called(Climber, Head(climb.todo))
  /\ UNCHANGED <<ctx, failed, tokens, runs, faults>>

\* A failed evaluation is skipped, unless the experiment was cancelled.
NeighborAnswered ==
  /\ climb.pc = "evaluating" /\ Answered
  /\ climb' = IF evals[Climber].err = "canceled" THEN Ends(climb, "canceled", FALSE)
              ELSE LET c == [climb EXCEPT !.pc = "neighbors", !.todo = Tail(@)]
                   IN  IF evals[Climber].err = "" /\ Answer < c.neighborScore
                       THEN [c EXCEPT !.neighbor = evals[Climber].config,
                                      !.neighborScore = Answer]
                       ELSE c
  /\ TakesAnswer
  /\ UNCHANGED <<ctx, failed, tokens, runs, faults>>

IterationEnds ==
  /\ climb.pc = "neighbors" /\ climb.todo = <<>>
  /\ \E d \in {Decides(climb)} : climb' = d
  /\ UNCHANGED evalVars

ClimbStep ==
  ClimbStarts \/ InitialAnswered \/ EvaluatesNeighbor \/ NeighborAnswered \/ IterationEnds
=============================================================================
