------------------------------ MODULE RunStore ------------------------------
(***************************************************************************)
(* The in-memory run store of simd (internal/simd/runstore.go).            *)
(*                                                                         *)
(* Every method of RunStore takes s.mu for its whole body, so each one is  *)
(* one atomic action here.  StoreNext lets any client call any operation   *)
(* at any time with any argument the program passes: what holds of         *)
(* StoreSpec holds however the executor, the optimizer and the API         *)
(* handlers interleave.  The optional parts of a record that no operation  *)
(* branches on (metrics, collector, final configuration, ...) are kept as  *)
(* the set of the parts that are present.                                  *)
(***************************************************************************)
EXTENDS Integers, FiniteSets

CONSTANTS
  Runs,                       \* run identifiers
  OnlineRuns,                 \* runs whose input asks for online optimization
  BatchRuns,                  \* runs whose input asks for batch optimization
  Children,                   \* runs named "opt-...": IsOptimizationChild
  None,                       \* no run, no context
  Inputs,                     \* the kinds of input the clients submit
  Parts,                      \* the optional parts of a record that are tracked
  MaxConcurrentOnlineRuns,    \* 0: unlimited
  MaxTerminalRuns,            \* 0: unlimited
  MaxOptimizationCandidates,  \* 0: unlimited
  TTL,                        \* 0: terminal runs do not expire
  KeepCollector,              \* KeepCollectorAfterCompletion
  ReuseIds,                   \* may a client create again a run that was evicted?
  MaxTime                     \* bound on the clock

InputKinds == {"good",      \* a scenario that runs
               "broken",    \* passes the checks of Start, fails in the worker
               "invalid"}   \* rejected by the checks of Start

PartNames == {"metrics", "collector", "finalConfig", "reason", "history",
              "batch", "progress"}

ASSUME StoreConstants ==
  /\ IsFiniteSet(Runs)
  /\ OnlineRuns \subseteq Runs
  /\ BatchRuns \subseteq Runs \ OnlineRuns
  /\ Children \subseteq Runs
  /\ None \notin Runs
  /\ Inputs \subseteq InputKinds
  /\ Parts \subseteq PartNames
  /\ MaxConcurrentOnlineRuns \in Nat
  /\ MaxTerminalRuns \in Nat
  /\ MaxOptimizationCandidates \in Nat
  /\ TTL \in Nat
  /\ KeepCollector \in BOOLEAN
  /\ ReuseIds \in BOOLEAN
  /\ MaxTime \in Nat

VARIABLES
  runs,   \* s.runs: the record of every run; NoRecord where the map has no key
  used,   \* the identifiers that were created at least once
  now     \* the wall clock, in units of the TTL

storeVars == <<runs, used, now>>

Terminal == {"COMPLETED", "FAILED", "CANCELLED", "STOPPED"}
Statuses == {"ABSENT", "PENDING", "RUNNING"} \cup Terminal

RunRecord == [status     : Statuses,
              input      : InputKinds \cup {"nil"},
              parts      : SUBSET Parts,
              best       : Runs \cup {None},
              candidates : SUBSET Runs,
              ended      : 0..MaxTime]

NoRecord == [status |-> "ABSENT", input |-> "nil", parts |-> {},
             best |-> None, candidates |-> {}, ended |-> 0]

StoreTypeOK ==
  /\ runs \in [Runs -> RunRecord]
  /\ used \in SUBSET Runs
  /\ now \in 0..MaxTime

Status(r) == runs[r].status
Present(r) == Status(r) # "ABSENT"
Active(r) == Status(r) \in {"PENDING", "RUNNING"}
isTerminalStatus(r) == Status(r) \in Terminal

StoreInit ==
  /\ runs = [r \in Runs |-> NoRecord]
  /\ used = {}
  /\ now = 0

-----------------------------------------------------------------------------
(* Operations.  An operation on a run the map does not hold returns an     *)
(* error and changes nothing: the callers add that case where they have    *)
(* one.                                                                    *)

\* Create: a duplicate identifier is refused while its record exists.
Create(r, q) ==
  /\ ~Present(r)
  /\ r \in used => ReuseIds
  /\ runs' = [runs EXCEPT ![r] = [NoRecord EXCEPT !.status = "PENDING", !.input = q]]
  /\ used' = used \cup {r}
  /\ UNCHANGED now

OnlineRunning ==
  {r \in OnlineRuns : Status(r) = "RUNNING" /\ runs[r].input # "nil"}

\* One run too many: the test the guard would make with > in place of >=.
OnlineSlotFreeOffByOne(r) ==
  (r \in OnlineRuns /\ MaxConcurrentOnlineRuns > 0) =>
    Cardinality(OnlineRunning) <= MaxConcurrentOnlineRuns

OnlineSlotFree(r) ==
  (r \in OnlineRuns /\ MaxConcurrentOnlineRuns > 0) =>
    Cardinality(OnlineRunning) < MaxConcurrentOnlineRuns

\* SetStatusRunningWithOnlineConcurrencyGuard, when it returns a record: a run
\* that is already RUNNING is returned as it is.
SetStatusRunning(r) ==
  /\ \/ Status(r) = "RUNNING"
     \/ Status(r) = "PENDING" /\ OnlineSlotFree(r)
  /\ runs' = [runs EXCEPT ![r].status = "RUNNING"]
  /\ UNCHANGED <<used, now>>

\* ... and when it returns ErrRunNotFound, ErrRunTerminal or
\* ErrOnlineRunConcurrencyLimit.
StartRefused(r) ==
  \/ ~Present(r)
  \/ isTerminalStatus(r)
  \/ Status(r) = "PENDING" /\ ~OnlineSlotFree(r)

\* finalizeRunStorageLocked: what a terminal record gives up.
Finalized(r, rec) ==
  [rec EXCEPT !.input = IF r \in Children THEN "nil" ELSE @,
              !.parts = @ \ ((IF KeepCollector THEN {} ELSE {"collector"}) \cup
                             (IF r \in Children THEN {"history", "finalConfig"} ELSE {}))]

\* SetStatus: the status is overwritten whatever it was.  The program only
\* passes terminal statuses.
SetStatus(r, s) ==
  /\ Present(r)
  /\ runs' = [runs EXCEPT ![r] = Finalized(r, [@ EXCEPT !.status = s, !.ended = now])]
  /\ UNCHANGED <<used, now>>

Attach(r, p) ==
  /\ Present(r)
  /\ runs' = [runs EXCEPT ![r].parts = @ \cup ({p} \cap Parts)]
  /\ UNCHANGED <<used, now>>

SetMetrics(r) == Attach(r, "metrics")
SetCollector(r) == Attach(r, "collector")
SetFinalConfiguration(r) == Attach(r, "finalConfig")
SetOnlineCompletionReason(r) == Attach(r, "reason")
AppendOptimizationStep(r) == Attach(r, "history")
SetBatchRecommendation(r) == Attach(r, "batch")
SetOptimizationProgress(r) == Attach(r, "progress")

\* SetOptimizationResult: cs is the candidate list after its truncation.
SetOptimizationResult(r, b, cs) ==
  /\ Present(r)
  /\ MaxOptimizationCandidates > 0 => Cardinality(cs) <= MaxOptimizationCandidates
  /\ runs' = [runs EXCEPT ![r].best = b, ![r].candidates = cs]
  /\ UNCHANGED <<used, now>>

\* Without the test that a child has ended.
TrimOptimizationCandidatesOfAnyStatus(p, b) ==
  /\ Present(p)
  /\ runs' = [r \in Runs |->
                CASE r \notin Children -> runs[r]
                  [] r \in Children /\ r \in {b} \cup runs[p].candidates -> Finalized(r, runs[r])
                  [] OTHER -> NoRecord]
  /\ UNCHANGED <<used, now>>

\* TrimOptimizationCandidates: every terminal child the parent p does not keep
\* is deleted, whichever parent it belongs to.
TrimOptimizationCandidates(p, b) ==
  /\ Present(p)
  /\ runs' = [r \in Runs |->
                CASE ~(r \in Children /\ isTerminalStatus(r)) -> runs[r]
                  [] r \in Children /\ isTerminalStatus(r) /\ r \in {b} \cup runs[p].candidates
                       -> Finalized(r, runs[r])
                  [] OTHER -> NoRecord]
  /\ UNCHANGED <<used, now>>

-----------------------------------------------------------------------------
(* Retention.                                                              *)

Expired == {r \in Runs : isTerminalStatus(r) /\ TTL > 0 /\ now - runs[r].ended >= TTL}
Retained == {r \in Runs : isTerminalStatus(r)} \ Expired

\* The sort order of the eviction list without its first key.
EvictedBeforeByAgeOnly(a, b) == runs[a].ended < runs[b].ended

\* The sort order of the eviction list: children first, then the oldest.
EvictedBefore(a, b) ==
  IF (a \in Children) # (b \in Children)
  THEN a \in Children
  ELSE runs[a].ended < runs[b].ended

\* The prefixes of the sorted list that bring it down to MaxTerminalRuns; runs
\* that compare equal may come in either order.
Evictions ==
  LET excess == IF MaxTerminalRuns = 0 \/ Cardinality(Retained) <= MaxTerminalRuns
                THEN 0 ELSE Cardinality(Retained) - MaxTerminalRuns
  IN {E \in SUBSET Retained :
        /\ Cardinality(E) = excess
        /\ \A e \in E, k \in Retained \ E : ~EvictedBefore(k, e)}

CleanupNow ==
  /\ \E E \in Evictions :
       runs' = [r \in Runs |->
                  CASE r \in Expired \cup E -> NoRecord
                    [] r \notin Expired \cup E /\ isTerminalStatus(r) -> Finalized(r, runs[r])
                    [] OTHER -> runs[r]]
  /\ UNCHANGED <<used, now>>

Tick ==
  /\ now < MaxTime
  /\ now' = now + 1
  /\ UNCHANGED <<runs, used>>

-----------------------------------------------------------------------------
Written == {"COMPLETED", "FAILED", "STOPPED"}

StoreNext ==
  \/ \E r \in Runs, q \in Inputs : Create(r, q)
  \/ \E r \in Runs : SetStatusRunning(r)
  \/ \E r \in Runs, s \in Written : SetStatus(r, s)
  \/ \E r \in Runs : SetMetrics(r)
  \/ \E r \in Runs : SetCollector(r)
  \/ \E r \in Runs : SetFinalConfiguration(r)
  \/ \E r \in Runs : SetOnlineCompletionReason(r)
  \/ \E r \in Runs : AppendOptimizationStep(r)
  \/ \E r \in Runs : SetBatchRecommendation(r)
  \/ \E r \in Runs : SetOptimizationProgress(r)
  \/ \E r \in Runs : SetOptimizationResult(r, r, {r})
  \/ \E r \in BatchRuns, b \in Children \cup {None}, cs \in SUBSET Children :
       SetOptimizationResult(r, b, cs)
  \/ \E p \in BatchRuns, b \in Children \cup {None} : TrimOptimizationCandidates(p, b)
  \/ CleanupNow
  \/ Tick

StoreSpec == StoreInit /\ [][StoreNext]_storeVars

-----------------------------------------------------------------------------
(* Properties.                                                             *)

\* The concurrency guard counts and sets in one critical section, so the number
\* of online runs that are RUNNING never exceeds MaxConcurrentOnlineRuns, in any
\* interleaving of starts with stops, completions, evictions and re-creations.
OnlineWithinLimit ==
  MaxConcurrentOnlineRuns > 0 =>
    Cardinality({r \in OnlineRuns : Status(r) = "RUNNING"}) <= MaxConcurrentOnlineRuns

\* A run that has not ended still has its input, which the worker and the guard
\* read: finalizeRunStorageLocked drops the input of ended children only.
ActiveHasInput == \A r \in Runs : Active(r) => runs[r].input # "nil"

\* A run that has ended never becomes PENDING or RUNNING again under the same
\* record: it changes to another terminal status at most, or is evicted.
TerminalNotResurrected ==
  [][\A r \in Runs : isTerminalStatus(r) =>
       runs'[r].status \in Terminal \cup {"ABSENT"}]_storeVars

\* Neither the retention sweep nor the trimming of candidates deletes a run that
\* is still PENDING or RUNNING.
ActiveNotEvicted ==
  [][\A r \in Runs : Active(r) => runs'[r].status # "ABSENT"]_storeVars

\* After a sweep at most MaxTerminalRuns ended runs are left, none of them is as
\* old as the TTL, and a run that is not a child is only evicted for the number
\* of runs when no ended child was retained.
SweepRespectsRetention ==
  [][CleanupNow =>
       LET left == {r \in Runs : runs'[r].status \in Terminal}
           gone == {r \in Runs : isTerminalStatus(r) /\ r \notin left}
       IN /\ MaxTerminalRuns > 0 => Cardinality(left) <= MaxTerminalRuns
          /\ TTL > 0 => \A r \in left : now - runs[r].ended < TTL
          /\ \A r \in gone \ (Children \cup Expired) : left \cap Children = {}]_storeVars
=============================================================================
