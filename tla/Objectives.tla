----------------------------- MODULE Objectives -----------------------------
(***************************************************************************)
(* What the optimizer minimizes (internal/improvement/objective.go,        *)
(* error_rate.go), when a hill climb counts as converged (convergence.go)  *)
(* and how one candidate is chosen of several (selection.go).              *)
(*                                                                         *)
(* Metrics are records of whole numbers: latencies in ms, rates in         *)
(* requests per second, utilizations and error rates in percent.           *)
(***************************************************************************)
EXTENDS Integers, Sequences, FiniteSets, FiniteSetsExt, Functions

HighPenalty == 1000000

Larger(a, b) == IF a > b THEN a ELSE b

\* UserVisibleErrorRate: failed ingress requests, else failed attempts.
UserVisibleErrorRate(m) ==
  IF m.ingress > 0 THEN (100 * m.ingressFailed) \div m.ingress
  ELSE IF m.total > 0 THEN (100 * m.failed) \div m.total
  ELSE 0

\* maxServiceUtilFromProto: services whose name starts with "client" do not count.
NonClient(m) == SelectSeq(m.services, LAMBDA s : ~s.client)
MaxUtil(m, kind) == FoldFunction(LAMBDA s, best : Larger(best, s[kind]), 0, NonClient(m))

\* Distance from the band, or the value itself when no valid band is set.
scoreForUtilBand(u, band) ==
  IF ~(0 <= band.low /\ band.low < band.high /\ band.high <= 100) THEN u
  ELSE IF u < band.low THEN band.low - u
  ELSE IF u > band.high THEN u - band.high ELSE 0

\* EvaluateInfrastructureCost: 0.4 cores + 0.3 GB + 0.3 replicas, in thousandths.
EvaluateInfrastructureCost(services) ==
  IF services = <<>> THEN HighPenalty
  ELSE FoldFunction(LAMBDA s, sum :
         sum + Larger(s.replicas, 1) *
           (4 * (IF s.cpu <= 0 THEN 100 ELSE s.cpu)
            + (300 * (IF s.mem <= 0 THEN 512 ELSE s.mem)) \div 1024 + 300),
         0, services)

\* ObjectiveFunction.Evaluate for the objective o; lower is better.
Evaluate(o, m) ==
  CASE o.name \in {"p95", "p99", "mean"} -> IF m[o.name] <= 0 THEN HighPenalty ELSE m[o.name]
    [] o.name = "throughput" -> IF m.throughput <= 0 THEN HighPenalty ELSE -m.throughput
    [] o.name = "error_rate" -> UserVisibleErrorRate(m)
    [] o.name \in {"cpu", "mem"} -> IF NonClient(m) = <<>> THEN HighPenalty
                                    ELSE scoreForUtilBand(MaxUtil(m, o.name), o.band)

----------------------------------------------------------------------------
\* Convergence strategies over the scores of the history, oldest first.

FirstLowest(h) == CHOOSE i \in DOMAIN h :
  \A j \in DOMAIN h : h[i] <= h[j] /\ (h[i] = h[j] => i <= j)

LastOf(h, n) == SubSeq(h, Len(h) - n + 1, Len(h))

NoImprovement(k, h) ==
  /\ Len(h) >= k.minIterations
  /\ Len(h) - FirstLowest(h) >= k.noImprovement

Plateau(k, h) ==
  /\ Len(h) >= k.minIterations /\ Len(h) >= k.plateau
  /\ LET recent == Range(LastOf(h, k.plateau))
     IN  Max(recent) - Min(recent) <= k.tolerance

\* Improvements of at most 1%, of the positive scores of the window.
Threshold(k, h) ==
  LET window == LastOf(h, IF Len(h) < k.noImprovement THEN Len(h) ELSE k.noImprovement)
      counted == {i \in 2..Len(window) : window[i - 1] > 0}
  IN  /\ Len(h) >= k.minIterations + 1
      /\ counted # {}
      /\ \A i \in counted : 100 * (window[i - 1] - window[i]) <= k.percent * window[i - 1]

\* CombinedStrategy: converged when any strategy says so.
CheckConvergence(k, h) == NoImprovement(k, h) \/ Plateau(k, h) \/ Threshold(k, h)

----------------------------------------------------------------------------
\* Selection among candidates [evaluated, score, other, weighted]: other are the scores
\* under the secondary objectives.

Evaluated(cands) == SelectSeq(cands, LAMBDA c : c.evaluated)

FirstBest(cands, Of(_)) == CHOOSE i \in DOMAIN cands :
  \A j \in DOMAIN cands : Of(cands[i]) <= Of(cands[j])
                          /\ (Of(cands[i]) = Of(cands[j]) => i <= j)

BestScore(cands) == FirstBest(cands, LAMBDA c : c.score)

\* As written, "better" is <=, so a candidate dominates its equals.
dominates(a, b) == a.score <= b.score /\ \A i \in DOMAIN a.other : a.other[i] <= b.other[i]

findParetoOptimal(cands) == {i \in DOMAIN cands :
  \A j \in DOMAIN cands \ {i} : ~dominates(cands[j], cands[i])}

ParetoOptimal(cands) ==
  LET optimal == findParetoOptimal(cands)
  IN  IF optimal = {} THEN BestScore(cands)
      ELSE CHOOSE i \in optimal : \A j \in optimal :
             cands[i].score <= cands[j].score /\ (cands[i].score = cands[j].score => i <= j)

calculateWeightedScore(c, weights) ==
  c.score + SumFunction([i \in 1..Len(weights) |-> weights[i] * c.other[i]])

Balanced(cands, weights) == FirstBest(cands, LAMBDA c : calculateWeightedScore(c, weights))

\* SelectBest of a strategy; 0 when no candidate was evaluated.
SelectBest(strategy, cands, weights) ==
  LET ev == Evaluated(cands) IN
  IF ev = <<>> THEN 0
  ELSE CASE strategy = "best_score" -> BestScore(ev)
         [] strategy = "pareto_optimal" -> ParetoOptimal(ev)
         [] strategy = "balanced" -> Balanced(ev, weights)
=============================================================================
