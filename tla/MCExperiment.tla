---------------------------- MODULE MCExperiment ----------------------------
\* A small instance of Experiment: one service that is too small for its load, on a host that is
\* too small for a second replica.
EXTENDS Experiment, TLC

MCService == [replicas |-> 1, cpu |-> 100, mem |-> 512, consumer |-> TRUE,
              queue |-> <<[conc |-> 1, min |-> 1, max |-> 2]>>,
              subs |-> <<[conc |-> 2, min |-> 1, max |-> 2]>>,
              horizontal |-> TRUE, verticalCPU |-> TRUE, verticalMem |-> FALSE]
MCBaseline ==
  [services |-> <<MCService>>, hosts |-> <<[cores |-> 1, mem |-> 2]>>,
   workload |-> <<[rate |-> 1000, kind |-> "bursty", stddev |-> 0, burst |-> 2000]>>,
   policies |-> [autoscaling |-> "on", target |-> 87, step |-> 5, retries |-> TRUE,
                 maxRetries |-> 10, baseMs |-> 1000]]

\* batchScalingActionEnumOrder
AllActions ==
  <<"SERVICE_SCALE_OUT", "SERVICE_SCALE_IN", "SERVICE_SCALE_UP_CPU", "SERVICE_SCALE_DOWN_CPU",
    "SERVICE_SCALE_UP_MEMORY", "SERVICE_SCALE_DOWN_MEMORY", "HOST_SCALE_OUT", "HOST_SCALE_IN",
    "HOST_SCALE_UP_CPU", "HOST_SCALE_DOWN_CPU", "HOST_SCALE_UP_MEMORY", "HOST_SCALE_DOWN_MEMORY",
    "QUEUE_SCALE_UP_CONCURRENCY", "QUEUE_SCALE_DOWN_CONCURRENCY",
    "TOPIC_SUBSCRIBER_SCALE_UP_CONCURRENCY", "TOPIC_SUBSCRIBER_SCALE_DOWN_CONCURRENCY">>

Band(low, high) == [low |-> low, high |-> high]
Bound(min, max) == [min |-> min, max |-> max]
Limited == BrokerLimits \cup {"p95", "p99", "error_rate", "crossZone", "topologyLatency"}
MCSpec ==
  [actions |-> AllActions, freezeWorkload |-> FALSE, freezePolicies |-> FALSE,
   hosts |-> Bound(1, 2), replicas |-> Bound(1, 2), cpu |-> Bound(90, 200),
   mem |-> Bound(128, 1024), hostCores |-> Bound(1, 4), hostMem |-> Bound(2, 4),
   replicaStep |-> 1, cpuRatio |-> 10, memRatio |-> 10, hostCoreStep |-> 1, hostMemStep |-> 1,
   max |-> [l \in Limited |-> IF l = "p95" THEN 100 ELSE 0],
   minThroughput |-> 0, minLocality |-> 0,
   band |-> [cpu |-> Band(45, 70), mem |-> Band(45, 75), hostCPU |-> Band(40, 75),
             hostMem |-> Band(40, 80)],
   cost |-> [cpu |-> 1, mem |-> 1, replicas |-> 1, hosts |-> 1, hostCores |-> 1, hostMem |-> 1,
             churn |-> 5],
   penalty |-> [l \in Limited \cup {"throughput", "locality", "cpu", "mem", "hostCPU", "hostMem"}
                  |-> 1],
   maxNeighbors |-> 2, reevaluations |-> 2, refine |-> TRUE, beamWidth |-> 1,
   infeasibleWidth |-> 1, maxDepth |-> 2]

\* What a simulation measures: twice the baseline's capacity is enough.  Only the baseline's
\* figures vary from one simulation to the next.
Sample(p95, util) ==
  [l \in BrokerLimits |-> 0] @@
  [p95 |-> p95, p99 |-> 2 * p95, mean |-> p95 \div 2, throughput |-> 10, ingressThroughput |-> 0,
   ingress |-> 100, ingressFailed |-> 0, total |-> 100, failed |-> 0,
   services |-> <<[client |-> FALSE, cpu |-> util, mem |-> 50]>>, hosts |-> <<>>,
   pressure |-> <<util>>, locality |-> 100, crossZone |-> 0, topologyLatency |-> 0]
Load(c) == c.services[1].replicas * c.services[1].cpu
MCMeasured(c) ==
  IF Load(c) >= 200 THEN {Sample(60, 50)}
  ELSE IF c = MCBaseline THEN {Sample(150, 90), Sample(120, 80)}
  ELSE {Sample(250 - Load(c), 90)}

\* ConfigHash of the configurations met here.
MCHash(c) ==
  c.services[1].replicas + 10 * c.services[1].cpu + 10000 * Len(c.hosts)
  + 100000 * Over(c.hosts, LAMBDA h : h.cores + 10 * h.mem)
  + 100000000 * (c.services[1].queue[1].conc + 4 * c.services[1].subs[1].conc)
  + c.workload[1].rate + (IF c.policies.autoscaling = "on" THEN 0 ELSE 7)

\* The explorer of the hill climb proposes replicas only.
MCNeighbors(c) ==
  SelectSeq(ExplorerNeighbors(c),
            LAMBDA d : d = [c EXCEPT !.services[1].replicas = d.services[1].replicas])
MCExplorer == [maxReplicas |-> 3, minReplicas |-> 1, replicaStep |-> 1, resourceStep |-> 10,
               policyStep |-> 5, workloadStep |-> 10]
MCScore(c, m) == Evaluate([name |-> "p95"], m)
MCSecondary(c, m) == EvaluateInfrastructureCost(c.services)
MCConvergence == [minIterations |-> 2, noImprovement |-> 2, plateau |-> 3, tolerance |-> 0,
                  percent |-> 1]
\* The first one costs more than the second, and may measure more or less.
MCParallel == [w \in Workers |->
  IF w = 1 THEN [MCBaseline EXCEPT !.services[1].mem = 4096] ELSE MCBaseline]
=============================================================================
