----------------------------- MODULE MCResources -----------------------------
(***************************************************************************)
(* Small instances of Resources, the hosts and instances of a run, and of  *)
(* RunMetrics, what is measured of a run, for TLC.  The two share no       *)
(* state: a behaviour exercises one, and the other stays as it began.      *)
(***************************************************************************)
EXTENDS Resources, RunMetrics

Policy(strategy) == [strategy |-> strategy, weights |-> <<>>, sticky |-> TRUE, locality |-> FALSE]
Service(n, policy) == [replicas |-> n, cores |-> 1, mem |-> 1, zones |-> {}, anti |-> {}, policy |-> policy]
TwoHosts == <<[cores |-> 2, mem |-> 2, zone |-> "x"], [cores |-> 1, mem |-> 2, zone |-> "y"]>>
Base == [hosts |-> TwoHosts, services |-> <<Service(2, Policy("round_robin"))>>, db |-> 0,
         timeout |-> 0, key |-> -1, zone |-> "", calls |-> 2, requests |-> 2]

SmallArrivals == {<<0, 0, 1, 3>>, <<0, 1, 1, 2>>}

\* Round robin beside a second service; a pool of connections and an endpoint deadline; weights
\* and a wanted zone; the other strategies, with placement rules; and four requests for one instance.
SmallScenarios ==
  {[Base EXCEPT !.services = <<Service(1, Policy("round_robin")), Service(1, Policy("random"))>>],
   [Base EXCEPT !.db = 1, !.timeout = 3, !.calls = 3, !.services = <<Service(2, Policy("least_connections"))>>],
   [Base EXCEPT !.zone = "x", !.services =
      <<Service(3, [Policy("weighted_round_robin") EXCEPT !.weights = (0 :> 0 @@ 1 :> 25 @@ 2 :> 4),
                                                          !.locality = TRUE])>>],
   [Base EXCEPT !.services = <<[Service(1, Policy("sticky")) EXCEPT !.zones = {"y"}],
                               [Service(1, Policy("least_queue")) EXCEPT !.anti = {1}]>>],
   [Base EXCEPT !.requests = 4, !.calls = 1, !.services = <<Service(1, Policy("round_robin"))>>],
   [Base EXCEPT !.key = 3, !.services = <<Service(2, Policy("sticky"))>>]}

-----------------------------------------------------------------------------
Series(m, s, e, o, d) == [metric |-> m, service |-> s, endpoint |-> e, origin |-> o, detail |-> d]

SmallSeries ==
  {Series("request_count", "a", "x", "ingress", "first"),
   Series("request_count", "a", "y", "downstream", "retry"),
   Series("request_count", "b", "x", "", "first"),
   Series("request_error_count", "a", "x", "", "timeout"),
   Series("request_latency_ms", "a", "x", "", ""),
   Series("request_latency_ms", "a", "y", "", ""),
   Series("cpu_utilization", "a", "", "", "i1")}

SmallValues(k) ==
  CASE k.metric = "request_latency_ms" -> {1, 3}
    [] k.metric = "cpu_utilization" -> {0, 2}
    [] OTHER -> {1}

SmallInventory == [s \in {"a", "b"} |-> IF s = "a" THEN {"i1", "i2"} ELSE {}]

-----------------------------------------------------------------------------
VARIABLE part

\* One initial state of the resources, beside the metrics.
AtRest == sc.requests = 4 /\ req[2].at = 0

MeasuredInit ==
  /\ Init /\ CollectorInit
  /\ part \in {"resources", "metrics"}
  /\ part = "metrics" => AtRest

MeasuredNext ==
  /\ UNCHANGED part
  /\ \/ part = "resources" /\ Next /\ UNCHANGED collectorVars
     \/ part = "metrics" /\ MetricsNext /\ UNCHANGED vars

MeasuredSpec == MeasuredInit /\ [][MeasuredNext]_<<part, vars, collectorVars>>
=============================================================================
