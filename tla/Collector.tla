----------------------------- MODULE Collector -----------------------------
(***************************************************************************)
(* The metrics collector of a run (internal/metrics/collector.go): bounded *)
(* series of points, streaming aggregates, and percentiles that are        *)
(* computed from a bounded reservoir when they are asked for.              *)
(*                                                                         *)
(* Every method holds c.mu for its whole body, so each one is one step.    *)
(* A series is named by its key: the metric and those labels the readers   *)
(* tell apart.  A point keeps its number in place of its timestamp.        *)
(* Percentiles are in units of 1/400, so that interpolating between two    *)
(* hundredths and halving twice stay exact.                                *)
(***************************************************************************)
EXTENDS Integers, Sequences, FiniteSets, SequencesExt

CONSTANTS
  SeriesKeys,       \* metric and labels of the series a run may record
  ValuesOf(_),      \* the values recorded under a key
  MaxSeriesPoints,  \* points retained per series
  ReservoirSize,    \* values retained per series for the percentiles
  MaxSeries,        \* 0: unlimited
  MaxPoints,        \* SetMaxPoints; 0: unlimited
  MaxRecords        \* bound on the calls of Record

ASSUME CollectorConstants ==
  /\ MaxSeriesPoints \in Nat \ {0}
  /\ ReservoirSize \in Nat \ {0}
  /\ MaxSeries \in Nat
  /\ MaxPoints \in Nat

VARIABLES
  series,       \* c.series
  totalPoints,
  totalSeries,
  onLimit,      \* the limits reported to the callbacks, in order
  recorded      \* every value Record accepted, per key

collectorVars == <<series, totalPoints, totalSeries, onLimit, recorded>>

newMetricSeries ==
  [exists |-> FALSE, points |-> <<>>, reservoir |-> <<>>, seenValues |-> 0,
   count |-> 0, sum |-> 0, min |-> 0, max |-> 0, pct |-> <<0, 0, 0>>, dirtyPct |-> FALSE]

CollectorInit ==
  /\ series = [k \in SeriesKeys |-> newMetricSeries]
  /\ totalPoints = 0
  /\ totalSeries = 0
  /\ onLimit = <<>>
  /\ recorded = [k \in SeriesKeys |-> <<>>]

-----------------------------------------------------------------------------
(* metricSeries.                                                           *)

\* The even points of the timeline are the ones that stay.
addPointKeepingEven(points, p) ==
  LET all == Append(points, p)
  IN IF Len(all) > MaxSeriesPoints
     THEN [i \in 1..(Len(all) \div 2) |-> all[2 * i]]
     ELSE all

\* Every other point goes when there is one too many.
addPoint(points, p) ==
  LET all == Append(points, p)
  IN IF Len(all) > MaxSeriesPoints
     THEN [i \in 1..((Len(all) + 1) \div 2) |-> all[2 * i - 1]]
     ELSE all

\* The slot of the reservoir that the seen-th value overwrites.
Slot(seen) == (((seen % ReservoirSize) * (1103515245 % ReservoirSize)) % ReservoirSize) + 1

addValue(s, v) ==
  LET seen == s.seenValues + 1
  IN [s EXCEPT
        !.seenValues = seen,
        !.min = IF s.count = 0 \/ v < s.min THEN v ELSE s.min,
        !.max = IF s.count = 0 \/ v > s.max THEN v ELSE s.max,
        !.count = @ + 1,
        !.sum = @ + v,
        !.reservoir = IF Len(@) < ReservoirSize THEN Append(@, v) ELSE [@ EXCEPT ![Slot(seen)] = v],
        !.dirtyPct = TRUE]

\* The p-th percentile of a sorted sequence, p in hundredths.
calculatePercentile(sorted, p) ==
  LET index == p * (Len(sorted) - 1)
      lower == index \div 100
      weight == index % 100
  IN CASE sorted = <<>> -> 0
       [] sorted # <<>> /\ lower + 1 >= Len(sorted) -> 400 * sorted[Len(sorted)]
       [] OTHER -> 4 * (sorted[lower + 1] * (100 - weight) + sorted[lower + 2] * weight)

Percentiles(reservoir) ==
  LET vals == SortSeq(reservoir, <)
  IN <<calculatePercentile(vals, 50), calculatePercentile(vals, 95), calculatePercentile(vals, 99)>>

\* updatePercentiles, which aggregationCopy calls when values have come since.
updatePercentiles(s) ==
  IF s.dirtyPct THEN [s EXCEPT !.pct = Percentiles(s.reservoir), !.dirtyPct = FALSE] ELSE s

-----------------------------------------------------------------------------
(* Record and the reads.                                                   *)

Accepts(k) ==
  /\ MaxPoints > 0 => totalPoints < MaxPoints
  /\ series[k].exists \/ (MaxSeries > 0 => totalSeries < MaxSeries)

Record(k, v) ==
  /\ Accepts(k)
  /\ series' = [series EXCEPT ![k] =
                  [addValue(@, v) EXCEPT !.exists = TRUE,
                     !.points = addPoint(@, [n |-> Len(recorded[k]) + 1, value |-> v])]]
  /\ totalPoints' = totalPoints + 1
  /\ totalSeries' = totalSeries + (IF series[k].exists THEN 0 ELSE 1)
  /\ recorded' = [recorded EXCEPT ![k] = Append(@, v)]
  /\ UNCHANGED onLimit

\* A dropped record calls onLimit, which the executor has bound to "max_metric_points",
\* and, for a series too many, onLimitWithName after it.
RecordDropped(k) ==
  /\ ~Accepts(k)
  /\ onLimit' = onLimit \o (IF MaxPoints > 0 /\ totalPoints >= MaxPoints
                            THEN <<"max_metric_points">>
                            ELSE <<"max_metric_points", "max_metric_series">>)
  /\ UNCHANGED <<series, totalPoints, totalSeries, recorded>>

\* A read of aggregates brings the percentiles of the series it reads up to date.
Aggregates(S) ==
  /\ series' = [k \in SeriesKeys |-> IF k \in S THEN updatePercentiles(series[k]) ELSE series[k]]
  /\ UNCHANGED <<totalPoints, totalSeries, onLimit, recorded>>

aggregationCopy(k) ==
  LET s == updatePercentiles(series[k])
  IN [count |-> s.count, sum |-> s.sum, min |-> s.min, max |-> s.max, pct |-> s.pct]

\* Percentiles are averaged pair by pair, whatever the counts.
mergeAggregations(dst, src) ==
  [count |-> dst.count + src.count, sum |-> dst.sum + src.sum,
   min |-> IF src.min < dst.min THEN src.min ELSE dst.min,
   max |-> IF src.max > dst.max THEN src.max ELSE dst.max,
   pct |-> [i \in 1..3 |-> (dst.pct[i] + src.pct[i]) \div 2]]

Existing(S) == {k \in S : series[k].exists}

\* What a merge over the series S may give: the map is visited in any order.
Merged(S) ==
  {FoldLeft(mergeAggregations, aggregationCopy(order[1]),
            [i \in 1..(Len(order) - 1) |-> aggregationCopy(order[i + 1])]) :
     order \in SetToSeqs(Existing(S))}

SumOver(S) == FoldSet(LAMBDA k, acc : series[k].sum + acc, 0, S)
CountOver(S) == FoldSet(LAMBDA k, acc : series[k].count + acc, 0, S)

\* GetLastValue, and 0 for a series that has no point.
LastValue(k) == IF series[k].points = <<>> THEN 0 ELSE Last(series[k].points).value

CollectorNext ==
  /\ totalPoints + Len(onLimit) < MaxRecords
  /\ \E k \in SeriesKeys : RecordDropped(k) \/ \E v \in ValuesOf(k) : Record(k, v)
=============================================================================
