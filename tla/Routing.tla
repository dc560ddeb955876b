------------------------------- MODULE Routing -------------------------------
(***************************************************************************)
(* How the resource manager picks an instance for a request                *)
(* (internal/resource/routing.go), as functions of the routable instances  *)
(* of a service, in their cached order, of the service's policy and of the *)
(* manager's two cursors.                                                  *)
(*                                                                         *)
(* A policy is [strategy, weights, sticky, locality]: weights maps         *)
(* instances to ten-thousandths; sticky and locality say whether the       *)
(* policy names a metadata key.  A request is [key, zone]: what its        *)
(* metadata holds under these keys, -1 and "" when absent.                 *)
(***************************************************************************)
EXTENDS Integers, Sequences, SequencesExt, FiniteSetsExt

WheelScale == 1000
DefaultWeight == 10000

\* The index of the first of the least values.
FirstLeast(values) ==
  CHOOSE i \in DOMAIN values :
    /\ \A j \in DOMAIN values : values[i] <= values[j]
    /\ \A j \in 1 .. i - 1 : values[j] > values[i]

\* weightedWheelSlots: a weight in slots of the wheel, rounded, at least one if positive.
weightedWheelSlots(w) ==
  IF w <= 0 THEN 0 ELSE Max({1, (w * WheelScale + 5000) \div 10000})

\* The wanted zone is ignored.
ignoreLocalityPreference(list, pol, r, zones) == list

\* applyLocalityPreferenceLocked: the instances in the wanted zone, if there are any.
applyLocalityPreference(list, pol, r, zones) ==
  LET near == SelectSeq(list, LAMBDA i : zones[i] = r.zone)
  IN IF ~pol.locality \/ r.zone = "" \/ near = <<>> THEN list ELSE near

\* selectRoundRobinLocked: the cursor is shared by every subset of the service's instances.
selectRoundRobin(list, cursors) ==
  LET idx == IF cursors.rr >= Len(list) THEN 0 ELSE cursors.rr
  IN {[pick |-> list[idx + 1], cursors |-> [cursors EXCEPT !.rr = (idx + 1) % Len(list)]]}

SlotsOf(pol, i) ==
  weightedWheelSlots(IF i \in DOMAIN pol.weights THEN pol.weights[i] ELSE DefaultWeight)

\* The slots of the first n instances of list.
Cumulative(list, pol, n) == FoldLeft(LAMBDA a, i : a + SlotsOf(pol, i), 0, SubSeq(list, 1, n))

selectWeighted(list, pol, cursors) ==
  LET total == Cumulative(list, pol, Len(list))
      cursor == cursors.wheel % total
      at == CHOOSE n \in DOMAIN list : /\ cursor < Cumulative(list, pol, n)
                                       /\ cursor >= Cumulative(list, pol, n - 1)
  IN IF total <= 0 THEN selectRoundRobin(list, cursors)
     ELSE {[pick |-> list[at], cursors |-> [cursors EXCEPT !.wheel = (cursor + 1) % total]]}

\* SelectInstanceForRequest: the instances that may be picked, each with the cursors it leaves.
\* A random pick, and the least used CPU of a sliding window, may be any instance.
SelectInstanceForRequest(all, pol, r, cursors, zones, load, queued) ==
  LET list == applyLocalityPreference(all, pol, r, zones)
      Over(f) == [i \in DOMAIN list |-> f[list[i]]]
      Pick(i) == {[pick |-> list[i], cursors |-> cursors]}
  IN CASE pol.strategy = "round_robin" -> selectRoundRobin(list, cursors)
       [] pol.strategy = "least_connections" -> Pick(FirstLeast(Over(load)))
       [] pol.strategy = "least_queue" -> Pick(FirstLeast(Over(queued)))
       [] pol.strategy = "weighted_round_robin" -> selectWeighted(list, pol, cursors)
       [] pol.strategy = "sticky" /\ (~pol.sticky \/ r.key < 0) -> selectRoundRobin(list, cursors)
       [] pol.strategy = "sticky" /\ pol.sticky /\ r.key >= 0 -> Pick((r.key % Len(list)) + 1)
       [] pol.strategy \in {"random", "least_cpu"} -> UNION {Pick(i) : i \in DOMAIN list}

\* SelectInstanceForService indexes the cached list without checking the cursor against it.
RoundRobinInRange(list, cursors) == list # <<>> => cursors.rr < Len(list)
=============================================================================
