----------------------------- MODULE BatchSpace -----------------------------
(*****************************************************************************)
(* The configurations the batch optimizer moves between, and how it ranks    *)
(* them: internal/improvement/batch_neighbors.go, batch_score.go,            *)
(* batch_metrics_agg.go and internal/batchspec/spec.go.                      *)
(*                                                                           *)
(* A configuration has                                                       *)
(*   services  [replicas, cpu, mem, queue, subs, consumer, and what its      *)
(*             scaling policy allows: horizontal, verticalCPU, verticalMem]: *)
(*             queue and subs hold the concurrency [conc, min, max] of its   *)
(*             queue and of its topic's subscribers, consumer says that one  *)
(*             of those of any service delivers to this service;             *)
(*   hosts     [cores, mem];                                                 *)
(*   workload  [rate, kind, stddev, burst] for each arrival process;         *)
(*   policies  [autoscaling, target, step, retries, maxRetries, baseMs].     *)
(* CPU and rates are in hundredths, service memory in MB, host memory in GB, *)
(* ratios in percent and scores in hundredths, so that scoreEps, 1e-9 in the *)
(* code, is equality here.                                                   *)
(*****************************************************************************)
EXTENDS Integers, Sequences, FiniteSets, Folds, TLC, Objectives

Least(a, b) == IF a < b THEN a ELSE b
Sum(s) == SumFunction(s)
Concat(ss) == MapThenFoldSet(LAMBDA s, t : s \o t, <<>>, LAMBDA k : ss[k], Min, DOMAIN ss)
Filled(v, default) == IF v <= 0 THEN default ELSE v
DefaultCPU == 100
DefaultMem == 512
DefaultHostGB == 16

CpuOf(s) == Filled(s.replicas, 1) * Filled(s.cpu, DefaultCPU)
MemOf(s) == Filled(s.replicas, 1) * Filled(s.mem, DefaultMem)
Over(seq, Of(_)) == Sum([i \in 1..Len(seq) |-> Of(seq[i])])

\* StaticCapacityOK: the services fit the hosts taken together, with 0.1% to spare.
StaticCapacityOK(c) ==
  LET cores == Over(c.hosts, LAMBDA h : 100 * h.cores)
      mb == Over(c.hosts, LAMBDA h : 1024 * Filled(h.mem, DefaultHostGB))
  IN  /\ c.services # <<>>
      /\ cores > 0 => 1000 * Over(c.services, CpuOf) <= 1001 * cores
      /\ mb > 0 => 1000 * Over(c.services, MemOf) <= 1001 * mb

InBounds(v, b) == b.min <= v /\ v <= b.max
Admits(q) == (q.conc > 0 /\ q.min > 0 => q.conc >= q.min)
             /\ (q.conc > 0 /\ q.max > 0 => q.conc <= q.max)

withinBatchBounds(spec, c) ==
  /\ InBounds(Len(c.hosts), spec.hosts)
  /\ \A i \in DOMAIN c.services : LET s == c.services[i] IN
       /\ InBounds(s.replicas, spec.replicas)
       /\ InBounds(s.cpu, spec.cpu) /\ InBounds(s.mem, spec.mem)
       /\ \A q \in Range(s.queue \o s.subs) : Admits(q)
  /\ \A i \in DOMAIN c.hosts :
       /\ InBounds(c.hosts[i].cores, spec.hostCores)
       /\ InBounds(Filled(c.hosts[i].mem, DefaultHostGB), spec.hostMem)

\* Is the measured configuration over a limit, by more than a small margin?
Limits == <<"p95", "p99", "error_rate", "queueDepth", "topicBacklog", "topicLag", "queueAge",
            "topicAge", "queueDrop", "topicDrop", "queueDlq", "topicDlq", "crossZone",
            "topologyLatency">>
BrokerLimits == {"queueDepth", "topicBacklog", "topicLag", "queueAge", "topicAge",
                 "queueDrop", "topicDrop", "queueDlq", "topicDlq"}
Throughput(m) == IF m.ingressThroughput <= 0 THEN m.throughput ELSE m.ingressThroughput
neighborStress(spec, m) ==
  \/ spec.max.p95 > 0 /\ 1000 * m.p95 > 1005 * spec.max.p95
  \/ NonClient(m) # <<>> /\ MaxUtil(m, "cpu") > spec.band.cpu.high
  \/ spec.minThroughput > 0 /\ 100 * Throughput(m) < 95 * spec.minThroughput
  \/ \E l \in BrokerLimits \cap DOMAIN spec.max :
       spec.max[l] > 0 /\ 100 * m[l] > 101 * spec.max[l]

\* Change of capacity from c to d, in 1/25600 of the code's unit.
capacityDelta(c, d) ==
  LET Cap(s) == 1280000 * s.replicas + 512 * s.cpu + 100 * s.mem
  IN  Over(d.services, Cap) - Over(c.services, Cap)
      + 2048000 * (Len(d.hosts) - Len(c.hosts))

----------------------------------------------------------------------------
\* The scaling actions: each yields at most one variant of a service, queue or host.

Up(v, step, max) == Least(v + step, max)
Down(v, step, min) == Larger(v - step, min)

\* config.ServiceAllowsBatchScalingAction
Allows(s, act) ==
  IF act \in {"SERVICE_SCALE_OUT", "SERVICE_SCALE_IN"} THEN s.horizontal
  ELSE IF act \in {"SERVICE_SCALE_UP_CPU", "SERVICE_SCALE_DOWN_CPU"} THEN s.verticalCPU
  ELSE s.verticalMem

ServiceVariant(spec, act, s) ==
  IF ~Allows(s, act) THEN <<>>
  ELSE CASE act = "SERVICE_SCALE_OUT" ->
              IF s.replicas >= spec.replicas.max THEN <<>>
              ELSE <<[s EXCEPT !.replicas = Up(@, spec.replicaStep, spec.replicas.max)]>>
         [] act = "SERVICE_SCALE_IN" ->
              IF s.replicas - spec.replicaStep < spec.replicas.min THEN <<>>
              ELSE <<[s EXCEPT !.replicas = @ - spec.replicaStep]>>
         [] act = "SERVICE_SCALE_UP_CPU" ->
              <<[s EXCEPT !.cpu = Least((Filled(@, DefaultCPU) * (100 + spec.cpuRatio)) \div 100,
                                        spec.cpu.max)]>>
         [] act = "SERVICE_SCALE_DOWN_CPU" ->
              <<[s EXCEPT !.cpu = Larger((Filled(@, DefaultCPU) * (100 - spec.cpuRatio)) \div 100,
                                         spec.cpu.min)]>>
         [] act = "SERVICE_SCALE_UP_MEMORY" ->
              <<[s EXCEPT !.mem = Least((Filled(@, DefaultMem) * (100 + spec.memRatio)) \div 100,
                                        spec.mem.max)]>>
         [] act = "SERVICE_SCALE_DOWN_MEMORY" ->
              <<[s EXCEPT !.mem = Larger((Filled(@, DefaultMem) * (100 - spec.memRatio)) \div 100,
                                         spec.mem.min)]>>

\* Consumer concurrency of a queue or of a subscriber, one step up or down.
Wider(spec, q) ==
  LET max == IF q.max > 0 THEN q.max ELSE IF spec.replicas.max < 1 THEN 64 ELSE spec.replicas.max
  IN  IF Filled(q.conc, 1) >= max THEN <<>>
      ELSE <<[q EXCEPT !.conc = Up(Filled(@, 1), spec.replicaStep, max)]>>
Narrower(spec, q) ==
  IF Filled(q.conc, 1) <= Filled(q.min, 1) THEN <<>>
  ELSE <<[q EXCEPT !.conc = Down(Filled(@, 1), spec.replicaStep, Filled(q.min, 1))]>>

HostVariant(spec, act, h) ==
  CASE act = "HOST_SCALE_UP_CPU" -> [h EXCEPT !.cores = Up(@, spec.hostCoreStep, spec.hostCores.max)]
    [] act = "HOST_SCALE_DOWN_CPU" -> [h EXCEPT !.cores = Down(@, spec.hostCoreStep, spec.hostCores.min)]
    [] act = "HOST_SCALE_UP_MEMORY" -> [h EXCEPT !.mem = Up(@, spec.hostMemStep, spec.hostMem.max)]
    [] act = "HOST_SCALE_DOWN_MEMORY" -> [h EXCEPT !.mem = Down(@, spec.hostMemStep, spec.hostMem.min)]

\* A sequence with one variant of one element in place, for each variant of each element:
\* variants[i] are those of the i-th one.
Replacing(seq, order, variants) ==
  Concat([k \in 1..Len(order) |->
    LET v == variants[order[k]]
    IN  [n \in 1..Len(v) |-> [seq EXCEPT ![order[k]] = v[n]]]])

Indices(seq) == [i \in 1..Len(seq) |-> i]

\* Under stress the services that consumers run on come first and alone, the most
\* pressed one first.
ScaleIndices(spec, c, m) ==
  LET pressed == SortSeq(SelectSeq(Indices(c.services), LAMBDA i : c.services[i].consumer),
                         LAMBDA i, j : m.pressure[i] > m.pressure[j]
                                       \/ (m.pressure[i] = m.pressure[j] /\ i < j))
  IN  IF neighborStress(spec, m) /\ pressed # <<>> THEN pressed ELSE Indices(c.services)

ScalesUp == {"SERVICE_SCALE_OUT", "SERVICE_SCALE_UP_CPU", "SERVICE_SCALE_UP_MEMORY"}
ServiceActions == ScalesUp \cup
  {"SERVICE_SCALE_IN", "SERVICE_SCALE_DOWN_CPU", "SERVICE_SCALE_DOWN_MEMORY"}
HostActions == {"HOST_SCALE_UP_CPU", "HOST_SCALE_DOWN_CPU",
                "HOST_SCALE_UP_MEMORY", "HOST_SCALE_DOWN_MEMORY"}

\* The configurations one action leads to, before the checks of add.
ActionVariants(spec, act, c, m) ==
  LET services(ss) == [n \in 1..Len(ss) |-> [c EXCEPT !.services = ss[n]]]
      hosts(hh) == [n \in 1..Len(hh) |-> [c EXCEPT !.hosts = hh[n]]]
      Every(seq, V(_)) == Replacing(seq, Indices(seq), [i \in DOMAIN seq |-> V(seq[i])])
      Each(V(_)) == services(Every(c.services, V))
      Queues(V(_)) == Each(LAMBDA s : LET qs == Every(s.queue, V)
                                      IN  [n \in 1..Len(qs) |-> [s EXCEPT !.queue = qs[n]]])
      Subs(V(_)) == Each(LAMBDA s : LET qs == Every(s.subs, V)
                                    IN  [n \in 1..Len(qs) |-> [s EXCEPT !.subs = qs[n]]])
  IN CASE act \in ServiceActions ->
            services(Replacing(c.services,
                               IF act \in ScalesUp THEN ScaleIndices(spec, c, m)
                               ELSE Indices(c.services),
                               [i \in DOMAIN c.services |->
                                  ServiceVariant(spec, act, c.services[i])]))
       [] act = "HOST_SCALE_OUT" ->
            IF c.hosts = <<>> \/ Len(c.hosts) >= spec.hosts.max THEN <<>>
            ELSE <<[c EXCEPT !.hosts = Append(@, @[1])]>>
       [] act = "HOST_SCALE_IN" ->
            IF Len(c.hosts) <= spec.hosts.min THEN <<>> ELSE <<[c EXCEPT !.hosts = SubSeq(@, 1, Len(@) - 1)]>>
       [] act \in HostActions ->
            hosts(Every(c.hosts, LAMBDA h : <<HostVariant(spec, act, h)>>))
       [] act = "QUEUE_SCALE_UP_CONCURRENCY" -> Queues(LAMBDA q : Wider(spec, q))
       [] act = "QUEUE_SCALE_DOWN_CONCURRENCY" -> Queues(LAMBDA q : Narrower(spec, q))
       [] act = "TOPIC_SUBSCRIBER_SCALE_UP_CONCURRENCY" -> Subs(LAMBDA q : Wider(spec, q))
       [] act = "TOPIC_SUBSCRIBER_SCALE_DOWN_CONCURRENCY" -> Subs(LAMBDA q : Narrower(spec, q))

\* Workload and policies, unless frozen: rates 10% up and down, autoscaling switched.
FreeVariants(spec, c) ==
  (IF spec.freezeWorkload THEN <<>>
   ELSE LET Rates(w) == <<[w EXCEPT !.rate = Larger(1, (@ * 110) \div 100)],
                          [w EXCEPT !.rate = Larger(1, (@ * 90) \div 100)]>>
            ws == Replacing(c.workload, Indices(c.workload),
                            [i \in DOMAIN c.workload |-> Rates(c.workload[i])])
        IN  [n \in 1..Len(ws) |-> [c EXCEPT !.workload = ws[n]]])
  \o (IF spec.freezePolicies \/ c.policies.autoscaling = "none" THEN <<>>
      ELSE <<[c EXCEPT !.policies.autoscaling = IF @ = "on" THEN "off" ELSE "on"]>>)

\* GenerateBatchNeighbors: admissible variants, most capacity first under stress and
\* last otherwise, at most maxNeighbors of them.
GenerateBatchNeighbors(spec, c, m) ==
  LET all == Concat([k \in 1..Len(spec.actions) |->
                           ActionVariants(spec, spec.actions[k], c, m)])
             \o FreeVariants(spec, c)
      ok == SelectSeq(all, LAMBDA d : StaticCapacityOK(d) /\ withinBatchBounds(spec, d))
      stress == neighborStress(spec, m)
      Before(i, j) == LET a == capacityDelta(c, ok[i])
                          b == capacityDelta(c, ok[j])
                      IN  (IF stress THEN a > b ELSE a < b) \/ (a = b /\ i < j)
      order == SortSeq(Indices(ok), Before)
  IN  [k \in 1..Least(Len(ok), Filled(spec.maxNeighbors, 24)) |-> ok[order[k]]]

----------------------------------------------------------------------------
\* Scores.

\* Relative excess in percent, rounded up so that only what is within the limit is 0.
Ceiling(a, b) == (a + b - 1) \div b
Excess(v, max) == IF max <= 0 \/ v <= max THEN 0 ELSE Ceiling(100 * (v - max), max)
Shortfall(v, min) == IF min <= 0 \/ v >= min THEN 0
                     ELSE IF v <= 0 THEN HighPenalty ELSE Ceiling(100 * (min - v), v)

bandPenalty(u, b) == IF u < b.low THEN b.low - u ELSE IF u > b.high THEN u - b.high ELSE 0

\* 0.7 of the maximum and 0.3 of the mean, in tenths.
Mean(us) == IF us = <<>> THEN 0 ELSE Sum(us) \div Len(us)
balanceTerm(us, b) ==
  IF us = <<>> THEN 0
  ELSE (7 * bandPenalty(Max(Range(us)), b) + 3 * bandPenalty(Mean(us), b)) \div 10

ComputeInfraCostWeighted(c, w) ==
  w.cpu * Over(c.services, CpuOf) + (100 * w.mem * Over(c.services, MemOf)) \div 1024
  + 100 * (w.replicas * Over(c.services, LAMBDA s : Filled(s.replicas, 1))
           + w.hosts * Len(c.hosts) + w.hostCores * Over(c.hosts, LAMBDA h : h.cores)
           + w.hostMem * Over(c.hosts, LAMBDA h : Filled(h.mem, DefaultHostGB)))

\* Distance from the baseline, relative to it, in percent.
Distance(a, b, floor) == (100 * (IF a < b THEN b - a ELSE a - b)) \div Larger(floor, b)
ComputeChurn(base, c) ==
  Sum([i \in 1..Least(Len(base.services), Len(c.services)) |->
         Distance(c.services[i].replicas, base.services[i].replicas, 1)
         + Distance(c.services[i].cpu, base.services[i].cpu, 25)
         + Distance(c.services[i].mem, base.services[i].mem, 128)])
  + Distance(Len(c.hosts), Len(base.hosts), 1)

Utilizations(seq, kind) == [i \in 1..Len(seq) |-> seq[i][kind]]

\* ComputeBatchScore: how far the limits are exceeded, and what the configuration costs.
ComputeBatchScore(spec, base, c, m) ==
  LET services == NonClient(m)
      hosts == IF m.hosts = <<>> THEN services ELSE m.hosts
      violation ==
        Over(SelectSeq(Limits, LAMBDA l : l \in DOMAIN spec.max),
             LAMBDA l : spec.penalty[l] *
               Excess(IF l = "error_rate" THEN UserVisibleErrorRate(m) ELSE m[l], spec.max[l]))
        + spec.penalty.throughput * Shortfall(Throughput(m), spec.minThroughput)
        + spec.penalty.locality * Shortfall(m.locality, spec.minLocality)
      efficiency ==
        ComputeInfraCostWeighted(c, spec.cost)
        + spec.penalty.cpu * balanceTerm(Utilizations(services, "cpu"), spec.band.cpu)
        + spec.penalty.mem * balanceTerm(Utilizations(services, "mem"), spec.band.mem)
        + spec.penalty.hostCPU * balanceTerm(Utilizations(hosts, "cpu"), spec.band.hostCPU)
        + spec.penalty.hostMem * balanceTerm(Utilizations(hosts, "mem"), spec.band.hostMem)
        + spec.penalty.locality * Larger(0, 100 - m.locality)
        + spec.penalty.crossZone * m.crossZone
        + spec.penalty.topologyLatency * 100 * m.topologyLatency
        + (spec.cost.churn * ComputeChurn(base, c)) \div 10   \* the weight in tenths
  IN  [feasible |-> violation = 0, violation |-> violation, efficiency |-> efficiency]

\* The cheaper one, whatever it exceeds.
CompareBatchScoresByCost(a, b, ha, hb) ==
  IF a.efficiency # b.efficiency THEN a.efficiency < b.efficiency
  ELSE IF a.violation # b.violation THEN a.violation < b.violation
  ELSE ha < hb

\* CompareBatchScores: is (a, ha) better than (b, hb)?
CompareBatchScores(a, b, ha, hb) ==
  IF a.feasible # b.feasible THEN a.feasible
  ELSE IF a.violation # b.violation THEN a.violation < b.violation
  ELSE IF a.efficiency # b.efficiency THEN a.efficiency < b.efficiency
  ELSE ha < hb

\* AggregateRunMetrics of the evaluations of one configuration: counts and rates are
\* averaged, percentiles and peaks are the worst seen, locality is the lowest.
Averaged == {"total", "failed", "ingress", "ingressFailed", "throughput",
             "ingressThroughput", "queueDepth", "topicBacklog", "topicLag",
             "queueDrop", "topicDrop", "queueDlq", "topicDlq"}
Field(ms, f) == [i \in 1..Len(ms) |-> ms[i][f]]
MeanMetrics(ss) ==
  [i \in 1..Len(ss[1]) |->
     [ss[1][i] EXCEPT !.cpu = Sum([k \in 1..Len(ss) |-> ss[k][i].cpu]) \div Len(ss),
                      !.mem = Sum([k \in 1..Len(ss) |-> ss[k][i].mem]) \div Len(ss)]]
\* The mean latency is weighted with the successful requests of each evaluation, if any.
MeanLatency(ms) ==
  LET served == [i \in 1..Len(ms) |-> ms[i].total - ms[i].failed]
  IN  IF Sum(served) = 0 THEN Mean(Field(ms, "mean"))
      ELSE Sum([i \in 1..Len(ms) |-> ms[i].mean * served[i]]) \div Sum(served)
AggregateRunMetrics(ms) ==
  IF Len(ms) = 1 THEN ms[1]
  ELSE [f \in DOMAIN ms[1] |->
          IF f \in {"services", "hosts"} THEN MeanMetrics(Field(ms, f))
          ELSE IF f = "pressure"
          THEN [i \in 1..Len(ms[1].pressure) |-> Mean([k \in 1..Len(ms) |-> ms[k].pressure[i]])]
          ELSE IF f = "mean" THEN MeanLatency(ms)
          ELSE IF f \in Averaged THEN Mean(Field(ms, f))
          ELSE IF f = "locality" THEN Min(Range(Field(ms, f)))
          ELSE Max(Range(Field(ms, f)))]

\* RefinementSpec: half the steps for the polish around the best configuration.
Halved(v) == Larger(1, v \div 2)
RefinementSpec(spec) ==
  [spec EXCEPT !.replicaStep = Halved(@), !.cpuRatio = Halved(@), !.memRatio = Halved(@),
               !.hostCoreStep = Halved(@), !.hostMemStep = Halved(@),
               !.maxNeighbors = Larger(8, IF @ > 8 THEN @ \div 2 ELSE @)]
=============================================================================
