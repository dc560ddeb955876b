------------------------------ MODULE Explorer ------------------------------
(***************************************************************************)
(* The neighbours a hill climb looks at: DefaultExplorer of                *)
(* internal/improvement/exploration.go, over the configurations of module  *)
(* BatchSpace.  An explorer e is a record of its bounds and step sizes, in *)
(* percent; it has no upper bound on CPU, memory or arrival rates.         *)
(***************************************************************************)
EXTENDS BatchSpace

CONSTANT E   \* the explorer

Raised(v, step) == (v * (100 + step)) \div 100
Lowered(v, step, floor) == Larger(floor, (v * (100 - step)) \div 100)

\* The variants of a record in which field f has the values of the sequence vs.
With(r, f, vs) == [n \in 1..Len(vs) |-> [r EXCEPT ![f] = vs[n]]]
If(cond, v) == IF cond THEN <<v>> ELSE <<>>

exploreReplicas(s) ==
  With(s, "replicas",
       If(s.replicas < E.maxReplicas /\ s.replicas + E.replicaStep <= E.maxReplicas,
          s.replicas + E.replicaStep)
       \o If(s.replicas > E.minReplicas /\ s.replicas - E.replicaStep >= E.minReplicas,
             s.replicas - E.replicaStep))

exploreResources(s) ==
  LET cpu == IF s.cpu = 0 THEN DefaultCPU ELSE s.cpu
      mem == IF s.mem = 0 THEN DefaultMem ELSE s.mem
  IN  With(s, "cpu", <<Raised(cpu, E.resourceStep)>> \o If(cpu > 10, Lowered(cpu, E.resourceStep, 10)))
      \o With(s, "mem", <<Raised(mem, E.resourceStep)>> \o If(mem > 64, Lowered(mem, E.resourceStep, 64)))

explorePolicies(p) ==
  (IF p.autoscaling # "on" THEN <<>>
   ELSE With(p, "target", If(p.target > 10, Larger(10, p.target - E.policyStep))
                          \o If(p.target < 90, Least(90, p.target + E.policyStep)))
        \o With(p, "step", If(p.step > 1, p.step - 1) \o If(p.step < 5, p.step + 1)))
  \o (IF ~p.retries THEN <<>>
      ELSE With(p, "maxRetries", If(p.maxRetries > 0, p.maxRetries - 1)
                                 \o If(p.maxRetries < 10, p.maxRetries + 1))
           \o With(p, "baseMs", If(p.baseMs > 1, p.baseMs - 1) \o If(p.baseMs < 1000, p.baseMs + 1)))

exploreWorkload(w) ==
  With(w, "rate", <<Raised(w.rate, E.workloadStep)>>
                  \o If(w.rate > 10, Lowered(w.rate, E.workloadStep, 10)))
  \o (IF w.kind # "normal" \/ w.stddev <= 0 THEN <<>>
      ELSE With(w, "stddev", <<Raised(w.stddev, E.workloadStep)>>
                             \o If(w.stddev > 1, Lowered(w.stddev, E.workloadStep, 1))))
  \o (IF w.kind # "bursty" \/ w.burst <= 0 THEN <<>>
      ELSE With(w, "burst", <<Raised(w.burst, E.workloadStep)>>
                            \o If(w.burst > 10, Lowered(w.burst, E.workloadStep, 10))))

\* DefaultExplorer.GenerateNeighbors: replicas, resources, policies, workload.
ExplorerNeighbors(c) ==
  LET Services(Variants(_)) ==
        LET ss == Replacing(c.services, Indices(c.services),
                            [i \in DOMAIN c.services |-> Variants(c.services[i])])
        IN  [n \in 1..Len(ss) |-> [c EXCEPT !.services = ss[n]]]
      ps == explorePolicies(c.policies)
      ws == Replacing(c.workload, Indices(c.workload),
                      [i \in DOMAIN c.workload |-> exploreWorkload(c.workload[i])])
  IN  Services(exploreReplicas) \o Services(exploreResources)
      \o [n \in 1..Len(ps) |-> [c EXCEPT !.policies = ps[n]]]
      \o [n \in 1..Len(ws) |-> [c EXCEPT !.workload = ws[n]]]
=============================================================================
