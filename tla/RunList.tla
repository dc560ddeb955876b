------------------------------- MODULE RunList -------------------------------
(***************************************************************************)
(* A client pages through the list of runs (handleListRuns, ListRuns,      *)
(* RunStore.ListFiltered) while other clients create runs.  Every page is  *)
(* sorted anew, newest first; runs created in the same millisecond come in *)
(* any order.                                                              *)
(***************************************************************************)
EXTENDS Integers, Sequences, FiniteSets, FiniteSetsExt, Functions

CONSTANTS
  MaxListed,   \* runs that are ever created
  Limit,       \* the page size the client asks for
  SameTime     \* may two runs be created in the same millisecond?

ASSUME RunListConstants == MaxListed \in Nat /\ Limit \in Nat \ {0} /\ SameTime \in BOOLEAN

VARIABLES
  listed,   \* the creation time of every run in the store
  pager     \* the client: the next offset, the runs it has seen, those there at its start

listVars == <<listed, pager>>

ListInit ==
  /\ listed = <<>>
  /\ pager = [pc |-> "idle", offset |-> 0, seen |-> {}, first |-> 0]

ListCreates ==
  /\ Len(listed) < MaxListed
  /\ \E dt \in IF SameTime THEN {0, 1} ELSE {1} :
       listed' = Append(listed, IF listed = <<>> THEN 1 ELSE listed[Len(listed)] + dt)
  /\ UNCHANGED pager

\* The orders sortRunRecords may give.
Sorted ==
  {s \in [DOMAIN listed -> DOMAIN listed] :
     /\ IsInjective(s)
     /\ \A i, j \in DOMAIN s : i < j => listed[s[i]] >= listed[s[j]]}

\* The page lacks its last run.
PageShort(s, offset) == {s[i] : i \in (offset + 1)..Min({offset + Limit - 1, Len(s)})}

\* allRuns[start:end].
Page(s, offset) == {s[i] : i \in (offset + 1)..Min({offset + Limit, Len(s)})}

PagerStarts ==
  /\ pager.pc = "idle"
  /\ pager' = [pc |-> "paging", offset |-> 0, seen |-> {}, first |-> Len(listed)]
  /\ UNCHANGED listed

\* The client asks for the next page until one is empty.
PagerReads ==
  /\ pager.pc = "paging"
  /\ \E s \in Sorted : \E p \in {Page(s, pager.offset)} :
       pager' = [pager EXCEPT !.offset = @ + Limit, !.seen = @ \cup p,
                              !.pc = IF p = {} THEN "end" ELSE "paging"]
  /\ UNCHANGED listed

ListNext == ListCreates \/ PagerStarts \/ PagerReads

\* A client that pages to the end has seen every run that existed when it began, however
\* many were created meanwhile and moved the older ones down (nothing is evicted).
PagingSeesAll == pager.pc = "end" => 1..pager.first \subseteq pager.seen
=============================================================================
