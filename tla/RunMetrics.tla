----------------------------- MODULE RunMetrics -----------------------------
(***************************************************************************)
(* The figures of a run that are made out of its collector                 *)
(* (internal/metrics/helpers.go, ConvertToRunMetrics), and what they and   *)
(* the collector promise to the clients that read them during a run.       *)
(***************************************************************************)
EXTENDS Collector

CONSTANTS
  MeasuredServices,  \* the services of the scenario
  Inventory          \* the instances the resource manager lists for each service

Of(m) == {k \in SeriesKeys : k.metric = m}
OfService(m, s) == {k \in Of(m) : k.service = s}

-----------------------------------------------------------------------------
(* Counters.                                                               *)

TotalRequests == SumOver(Of("request_count"))
FailedRequests == SumOver(Of("request_error_count"))

\* Only the series that say so are ingress.
IngressRequestsLabelled == SumOver({k \in Of("request_count") : k.origin = "ingress"})

\* splitRequestCountByOrigin: a series without an origin counts as ingress.
IngressRequests == SumOver({k \in Of("request_count") : k.origin # "downstream"})
InternalRequests == SumOver({k \in Of("request_count") : k.origin = "downstream"})

RetryAttempts == SumOver({k \in Of("request_count") : k.detail = "retry"})
TimeoutErrors == SumOver({k \in Of("request_error_count") : k.detail = "timeout"})

\* RequestCount and ErrorCount of a service: the samples are counted when they sum to 0.
ServiceCount(m, s) ==
  LET sum == SumOver(OfService(m, s))
  IN IF sum = 0 THEN CountOver(OfService(m, s)) ELSE sum

\* AttachEndpointRequestStats: one row per endpoint that has a request.
EndpointStats ==
  LET at(m, e) == {k \in Of(m) : k.service = e[1] /\ k.endpoint = e[2]}
      seen == {<<k.service, k.endpoint>> : k \in Existing(Of("request_count"))}
  IN [e \in seen |-> [requests |-> SumOver(at("request_count", e)),
                      errors |-> SumOver(at("request_error_count", e))]]

-----------------------------------------------------------------------------
(* Gauges: the numerator and the denominator of a mean.                    *)

GaugeOf(m, s, i) == {k \in OfService(m, s) : k.detail = i}
LatestOver(S) == FoldSet(LAMBDA k, acc : LastValue(k) + acc, 0, S)

\* meanLatestGaugePerInstanceWithInventory: an instance without a sample counts as 0.
meanLatestGaugePerInstanceWithInventory(m, s) ==
  <<LatestOver(UNION {GaugeOf(m, s, i) : i \in Inventory[s]}), Cardinality(Inventory[s])>>

\* meanLatestGaugePerInstance: the instances that have a sample.
meanLatestGaugePerInstance(m, s) ==
  <<LatestOver(OfService(m, s)), Cardinality(Existing(OfService(m, s)))>>

ServiceGauge(m, s) ==
  IF Inventory[s] # {}
  THEN meanLatestGaugePerInstanceWithInventory(m, s)
  ELSE meanLatestGaugePerInstance(m, s)

-----------------------------------------------------------------------------
\* ConvertToRunMetrics reads the aggregates of one metric after the other.
Converts == \E k \in SeriesKeys : Existing(Of(k.metric)) # {} /\ Aggregates(Of(k.metric))

MetricsNext == CollectorNext \/ Converts

-----------------------------------------------------------------------------
(* Properties.                                                             *)

SumSeq(s) == FoldLeft(+, 0, s)
Least(s) == CHOOSE v \in ToSet(s) : \A w \in ToSet(s) : v <= w
Greatest(s) == CHOOSE v \in ToSet(s) : \A w \in ToSet(s) : v >= w
Newest(s, n) == SubSeq(s, Len(s) - n + 1, Len(s))

\* However a timeline was thinned out, the aggregates of a series are those of all
\* the values recorded under it, and the totals count what was recorded: a run at its
\* limits loses whole records and never part of one.
AggregatesExact ==
  /\ \A k \in SeriesKeys :
       LET s == series[k] IN
       /\ s.exists <=> recorded[k] # <<>>
       /\ s.count = Len(recorded[k]) /\ s.sum = SumSeq(recorded[k])
       /\ s.exists => s.min = Least(recorded[k]) /\ s.max = Greatest(recorded[k])
  /\ totalPoints = CountOver(SeriesKeys)
  /\ totalSeries = Cardinality(Existing(SeriesKeys))
  /\ MaxSeries > 0 => totalSeries <= MaxSeries
  /\ MaxPoints > 0 => totalPoints <= MaxPoints

\* A retained timeline is in order, within its bound, and begins and ends with the
\* first and the last value recorded, which the gauges and the event stream read; this
\* needs an even MaxSeriesPoints, as the default is.
TimelineKeepsEnds ==
  \A k \in SeriesKeys :
    LET ps == series[k].points IN
    series[k].exists =>
      /\ Len(ps) <= MaxSeriesPoints
      /\ \A i \in 1..(Len(ps) - 1) : ps[i].n < ps[i + 1].n
      /\ \A i \in 1..Len(ps) : ps[i].value = recorded[k][ps[i].n]
      /\ Head(ps).n = 1 /\ Last(ps).n = Len(recorded[k])

\* Once a reservoir has been overwritten for the length of it, it holds the newest values,
\* each once: the slots are visited in turn because the multiplier is odd and the size a
\* power of two.  It is a window over the end of the run and no sample of all of it.
ReservoirIsWindow ==
  \A k \in SeriesKeys : series[k].seenValues >= 2 * ReservoirSize =>
    SortSeq(series[k].reservoir, <) = SortSeq(Newest(recorded[k], ReservoirSize), <)

\* Percentiles that are taken from a series without being computed again are those of
\* the values it holds now.
PercentilesCurrent ==
  \A k \in SeriesKeys : ~series[k].dirtyPct /\ series[k].exists =>
                    series[k].pct = Percentiles(series[k].reservoir)

\* In whichever order a map of series is merged, count and sum are the totals, and the
\* percentiles are ordered and between the least and the greatest value.
MergedInRange ==
  \A m \in {k.metric : k \in SeriesKeys} : Existing(Of(m)) # {} =>
    \A a \in Merged(Of(m)) :
      /\ a.count = CountOver(Of(m)) /\ a.sum = SumOver(Of(m))
      /\ 400 * a.min <= a.pct[1] /\ a.pct[1] <= a.pct[2]
      /\ a.pct[2] <= a.pct[3] /\ a.pct[3] <= 400 * a.max

\* Every request is counted once by origin, once by service and once by endpoint.
RequestsConserved ==
  /\ IngressRequests + InternalRequests = TotalRequests
  /\ FoldSet(LAMBDA s, acc : ServiceCount("request_count", s) + acc, 0, MeasuredServices) = TotalRequests
  /\ FoldSet(LAMBDA e, acc : EndpointStats[e].requests + acc, 0, DOMAIN EndpointStats) = TotalRequests
  /\ RetryAttempts <= TotalRequests /\ TimeoutErrors <= FailedRequests

\* The utilization of a service is the mean, over all its instances, of the last value
\* recorded for each, idle instances being 0.
GaugeIsLatestMean ==
  \A s \in MeasuredServices : Inventory[s] # {} =>
    LET last(k) == IF recorded[k] = <<>> THEN 0 ELSE Last(recorded[k])
        listed == {k \in OfService("cpu_utilization", s) : k.detail \in Inventory[s]}
    IN ServiceGauge("cpu_utilization", s) =
         <<FoldSet(LAMBDA k, acc : last(k) + acc, 0, listed), Cardinality(Inventory[s])>>

\* What a series keeps stands for everything that was recorded under it.
SeriesFaithful ==
  AggregatesExact /\ TimelineKeepsEnds /\ ReservoirIsWindow /\ PercentilesCurrent

\* What ConvertToRunMetrics reports agrees with what was recorded.
MetricsFaithful == MergedInRange /\ RequestsConserved /\ GaugeIsLatestMean
=============================================================================
