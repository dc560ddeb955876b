--------------------------- MODULE MessageChannel ---------------------------
(***************************************************************************)
(* What a broker promises about the copies of messages it keeps, one copy  *)
(* per queue or per consumer group of a topic: a copy is in one place at a *)
(* time, it is handed out a bounded number of times and to a bounded       *)
(* number of consumers, and once it has left it does not come back.        *)
(***************************************************************************)
EXTENDS Integers, FiniteSets

CONSTANTS
  Shards,          \* the backlogs
  Ids,             \* the messages
  MaxConcurrency,  \* consumers of a backlog at a time
  MaxRedeliveries  \* how often a copy is handed out again

VARIABLE copy      \* [place, tries] of each copy

Nowhere == [place |-> "none", tries |-> 0]
Gone == [place |-> "gone", tries |-> 0]
Held(k) == {i \in Ids : copy[k][i].place = "out"}

Init == copy = [k \in Shards |-> [i \in Ids |-> Nowhere]]

\* The moves of one copy: published or refused; handed out; given back;
\* evicted, expired, consumed, dead-lettered or lost.
Move(a, b) ==
  \/ a.place = "none" /\ b \in {[place |-> "queued", tries |-> 0], Gone}
  \/ /\ a.place = "queued" /\ a.tries <= MaxRedeliveries
     /\ b = [place |-> "out", tries |-> a.tries + 1]
  \/ a.place = "out" /\ b = [place |-> "queued", tries |-> a.tries]
  \/ a.place \in {"queued", "out"} /\ b = Gone

\* One handler may move several copies.
Next ==
  /\ \A k \in Shards, i \in Ids :
       copy'[k][i] = copy[k][i] \/ Move(copy[k][i], copy'[k][i])
  /\ \A k \in Shards : Cardinality(Held(k)') <= MaxConcurrency

Spec == Init /\ [][Next]_copy
=============================================================================
