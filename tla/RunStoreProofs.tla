--------------------------- MODULE RunStoreProofs ---------------------------
(***************************************************************************)
(* Theorems about RunStore, for every set of runs and every limit.         *)
(***************************************************************************)
EXTENDS RunStore, FiniteSetTheorems, TLAPS

\* finalizeRunStorageLocked keeps a record well typed, and its status and end.
LEMMA FinalizedType ==
  ASSUME NEW r, NEW x \in RunRecord
  PROVE  /\ Finalized(r, x) \in RunRecord
         /\ Finalized(r, x).status = x.status
         /\ Finalized(r, x).ended = x.ended
         /\ r \notin Children => Finalized(r, x).input = x.input
  BY DEF Finalized, RunRecord

\* The empty record is a record.
LEMMA NoRecordType == NoRecord \in RunRecord
  BY StoreConstants DEF NoRecord, RunRecord, Statuses

\* The update that Create makes keeps a record well typed.
LEMMA CreatedType ==
  ASSUME NEW x \in RunRecord, NEW s \in Statuses, NEW q \in InputKinds
  PROVE  [x EXCEPT !.status = s, !.input = q] \in RunRecord
  BY DEF RunRecord

\* So does the update of SetStatus.
LEMMA EndedType ==
  ASSUME NEW x \in RunRecord, NEW s \in Statuses, NEW t \in 0..MaxTime
  PROVE  [x EXCEPT !.status = s, !.ended = t] \in RunRecord
  BY DEF RunRecord

\* So does the update of SetOptimizationResult.
LEMMA ResultType ==
  ASSUME NEW x \in RunRecord, NEW b \in Runs \cup {None}, NEW cs \in SUBSET Runs
  PROVE  [x EXCEPT !.best = b, !.candidates = cs] \in RunRecord
  BY DEF RunRecord

\* Attaching a part changes nothing but the parts of that run.
LEMMA AttachStep ==
  ASSUME StoreTypeOK, NEW r \in Runs, NEW p, Attach(r, p)
  PROVE  /\ StoreTypeOK'
         /\ \A q \in Runs : /\ runs'[q].status = runs[q].status
                            /\ runs'[q].input = runs[q].input
  <1>1. [runs[r] EXCEPT !.parts = @ \cup ({p} \cap Parts)] \in RunRecord
    BY DEF StoreTypeOK, RunRecord
  <1> QED BY <1>1 DEF Attach, StoreTypeOK, RunRecord

\* What a step of the store may do to the status and the input of a run:
\* everything the invariants below need to know about the actions.
StepShape ==
  /\ StoreTypeOK'
  /\ \/ \E r \in Runs :
          /\ runs[r].status = "ABSENT" /\ runs'[r].status = "PENDING"
          /\ runs'[r].input # "nil"
          /\ \A q \in Runs \ {r} : runs'[q] = runs[q]
     \/ \E r \in Runs :
          /\ \/ runs[r].status = "RUNNING"
             \/ runs[r].status = "PENDING" /\ OnlineSlotFree(r)
          /\ runs'[r].status = "RUNNING" /\ runs'[r].input = runs[r].input
          /\ \A q \in Runs \ {r} : runs'[q] = runs[q]
     \/ \A q \in Runs :
          \/ runs'[q].status = runs[q].status /\ runs'[q].input = runs[q].input
          \/ runs[q].status # "ABSENT" /\ runs'[q].status \in Terminal
             /\ (q \notin Children => runs'[q].input = runs[q].input)
          \/ runs[q].status \in Terminal /\ runs'[q] = NoRecord

\* Every operation of the store has that shape.
LEMMA StepHasShape ==
  ASSUME StoreTypeOK, [StoreNext]_storeVars
  PROVE  StepShape
  <1> USE StoreConstants
  <1>1. ASSUME NEW r \in Runs, NEW q \in Inputs, Create(r, q)
        PROVE  StepShape
    <2>1. [NoRecord EXCEPT !.status = "PENDING", !.input = q] \in RunRecord
      <3>1. "PENDING" \in Statuses
        BY DEF Statuses
      <3> QED BY <3>1, NoRecordType, CreatedType
    <2>2. [NoRecord EXCEPT !.status = "PENDING", !.input = q].status = "PENDING"
      BY DEF NoRecord
    <2>3. [NoRecord EXCEPT !.status = "PENDING", !.input = q].input # "nil"
      BY DEF NoRecord, InputKinds
    <2>4. StoreTypeOK'
      BY <1>1, <2>1 DEF Create, StoreTypeOK
    <2>5. /\ runs[r].status = "ABSENT" /\ runs'[r].status = "PENDING"
          /\ runs'[r].input # "nil"
          /\ \A p \in Runs \ {r} : runs'[p] = runs[p]
      BY <1>1, <2>2, <2>3 DEF Create, StoreTypeOK, Present, Status
    <2> QED BY <2>4, <2>5 DEF StepShape
  <1>2. ASSUME NEW r \in Runs, SetStatusRunning(r)
        PROVE  StepShape
    <2>1. [runs[r] EXCEPT !.status = "RUNNING"] \in RunRecord
      BY DEF StoreTypeOK, RunRecord, Statuses
    <2>2. StoreTypeOK'
      BY <1>2, <2>1 DEF SetStatusRunning, StoreTypeOK
    <2>3. /\ \/ runs[r].status = "RUNNING"
             \/ runs[r].status = "PENDING" /\ OnlineSlotFree(r)
          /\ runs'[r].status = "RUNNING" /\ runs'[r].input = runs[r].input
          /\ \A q \in Runs \ {r} : runs'[q] = runs[q]
      BY <1>2 DEF SetStatusRunning, StoreTypeOK, Status, RunRecord
    <2> QED BY <2>2, <2>3 DEF StepShape
  <1>3. ASSUME NEW r \in Runs, NEW s \in Written, SetStatus(r, s)
        PROVE  StepShape
    <2> DEFINE x == [runs[r] EXCEPT !.status = s, !.ended = now]
    <2>1. x \in RunRecord
      <3>1. s \in Statuses /\ now \in 0..MaxTime /\ runs[r] \in RunRecord
        BY DEF Statuses, Written, Terminal, StoreTypeOK
      <3> QED BY <3>1, EndedType
    <2>2. x.status = s /\ x.input = runs[r].input
      BY DEF StoreTypeOK, RunRecord
    <2>3. runs' = [runs EXCEPT ![r] = Finalized(r, x)]
      BY <1>3 DEF SetStatus, StoreTypeOK
    <2> HIDE DEF x
    <2>4. /\ Finalized(r, x) \in RunRecord
          /\ Finalized(r, x).status = s
          /\ r \notin Children => Finalized(r, x).input = runs[r].input
      BY <2>1, <2>2, FinalizedType
    <2>5. StoreTypeOK'
      BY <1>3, <2>3, <2>4 DEF SetStatus, StoreTypeOK
    <2>6. runs[r].status # "ABSENT" /\ s \in Terminal
      BY <1>3 DEF SetStatus, Present, Status, Written, Terminal
    <2>7. \A q \in Runs :
            \/ runs'[q].status = runs[q].status /\ runs'[q].input = runs[q].input
            \/ runs[q].status # "ABSENT" /\ runs'[q].status \in Terminal
               /\ (q \notin Children => runs'[q].input = runs[q].input)
      BY <2>3, <2>4, <2>6 DEF StoreTypeOK
    <2> QED BY <2>5, <2>7 DEF StepShape
  <1>4. ASSUME NEW r \in Runs, NEW p, Attach(r, p)
        PROVE  StepShape
    BY <1>4, AttachStep DEF StepShape
  <1>5. ASSUME NEW r \in Runs, NEW b \in Runs \cup {None}, NEW cs \in SUBSET Runs,
               SetOptimizationResult(r, b, cs)
        PROVE  StepShape
    <2>1. [runs[r] EXCEPT !.best = b, !.candidates = cs] \in RunRecord
      BY ResultType DEF StoreTypeOK
    <2>2. runs' = [runs EXCEPT ![r] = [runs[r] EXCEPT !.best = b, !.candidates = cs]]
      BY <1>5 DEF SetOptimizationResult, StoreTypeOK, RunRecord
    <2>3. StoreTypeOK'
      BY <1>5, <2>1, <2>2 DEF SetOptimizationResult, StoreTypeOK
    <2>4. \A q \in Runs : runs'[q].status = runs[q].status /\ runs'[q].input = runs[q].input
      BY <2>2 DEF StoreTypeOK, RunRecord
    <2> QED BY <2>3, <2>4 DEF StepShape
  <1>6. ASSUME NEW p \in Runs, NEW b, TrimOptimizationCandidates(p, b)
        PROVE  StepShape
    <2>1. \A q \in Runs : /\ runs'[q] \in {runs[q], Finalized(q, runs[q]), NoRecord}
                          /\ runs'[q] # runs[q] => runs[q].status \in Terminal
      BY <1>6 DEF TrimOptimizationCandidates, isTerminalStatus, Status
    <2>2. runs' = [q \in Runs |-> runs'[q]]
      BY <1>6 DEF TrimOptimizationCandidates
    <2>3. StoreTypeOK' /\ UNCHANGED <<used, now>>
      BY <1>6, <2>1, <2>2, FinalizedType, NoRecordType DEF TrimOptimizationCandidates, StoreTypeOK
    <2> QED BY <2>1, <2>3, FinalizedType DEF StepShape, StoreTypeOK, Terminal
  <1>7. ASSUME CleanupNow
        PROVE  StepShape
    <2>1. \A q \in Runs : /\ runs'[q] \in {runs[q], Finalized(q, runs[q]), NoRecord}
                          /\ runs'[q] # runs[q] => runs[q].status \in Terminal
      BY <1>7 DEF CleanupNow, isTerminalStatus, Status, Expired, Evictions, Retained
    <2>2. runs' = [q \in Runs |-> runs'[q]]
      BY <1>7 DEF CleanupNow
    <2>3. StoreTypeOK'
      BY <1>7, <2>1, <2>2, FinalizedType, NoRecordType DEF CleanupNow, StoreTypeOK
    <2> QED BY <2>1, <2>3, FinalizedType DEF StepShape, StoreTypeOK, Terminal
  <1>8. CASE Tick
    BY <1>8 DEF Tick, StoreTypeOK, StepShape
  <1>9. CASE UNCHANGED storeVars
    BY <1>9 DEF storeVars, StoreTypeOK, StepShape
  <1> QED
    BY <1>1, <1>2, <1>3, <1>4, <1>5, <1>6, <1>7, <1>8, <1>9
    DEF StoreNext, SetMetrics, SetCollector, SetFinalConfiguration, SetOnlineCompletionReason,
        AppendOptimizationStep, SetBatchRecommendation, SetOptimizationProgress

-----------------------------------------------------------------------------
\* The store is well typed in every state.
THEOREM StoreTypeCorrect == StoreSpec => []StoreTypeOK
  <1>1. StoreInit => StoreTypeOK
    BY StoreConstants, NoRecordType DEF StoreInit, StoreTypeOK
  <1>2. StoreTypeOK /\ [StoreNext]_storeVars => StoreTypeOK'
    BY StepHasShape DEF StepShape
  <1> QED BY <1>1, <1>2, PTL DEF StoreSpec

\* The inputs the store still holds: those of the runs that have not ended, and
\* those of all runs that are not candidates.
InputsKept ==
  /\ ActiveHasInput
  /\ \A r \in Runs \ Children : Present(r) => runs[r].input # "nil"

\* A step keeps them: an input is only dropped from an ended candidate.
LEMMA InputsKeptStep ==
  ASSUME StoreTypeOK, InputsKept, [StoreNext]_storeVars
  PROVE  InputsKept'
  <1> USE DEF InputsKept, ActiveHasInput, Active, Present, Status
  <1>1. StepShape
    BY StepHasShape
  <1>2. NoRecord.status = "ABSENT"
    BY DEF NoRecord
  <1> QED BY <1>1, <1>2 DEF StepShape, Terminal

\* No run that is PENDING or RUNNING, and no run that is not a candidate, is
\* ever without its input.
THEOREM InputsAreKept == StoreSpec => []InputsKept
  <1>1. StoreInit => InputsKept
    BY DEF StoreInit, InputsKept, ActiveHasInput, Active, Present, Status, NoRecord
  <1>2. StoreTypeOK /\ InputsKept /\ [StoreNext]_storeVars => InputsKept'
    BY InputsKeptStep
  <1> QED BY <1>1, <1>2, StoreTypeCorrect, PTL DEF StoreSpec

\* ActiveHasInput, the part of it that the worker and the guard depend on.
THEOREM ActiveHasInputAlways == StoreSpec => []ActiveHasInput
  <1>1. InputsKept => ActiveHasInput
    BY DEF InputsKept
  <1> QED BY <1>1, InputsAreKept, PTL

-----------------------------------------------------------------------------
RunningSet == {r \in OnlineRuns : Status(r) = "RUNNING"}

\* The guard counts exactly the online runs that are RUNNING, since none of them
\* has lost its input.
LEMMA GuardCountsAll ==
  ASSUME StoreTypeOK, InputsKept
  PROVE  OnlineRunning = RunningSet /\ IsFiniteSet(RunningSet)
  <1>1. OnlineRunning = RunningSet
    BY StoreConstants DEF OnlineRunning, RunningSet, InputsKept, ActiveHasInput, Active, Status
  <1>2. IsFiniteSet(RunningSet)
    BY StoreConstants, FS_Subset DEF RunningSet
  <1> QED BY <1>1, <1>2

\* A step adds a run to the RUNNING ones only through the guard.
LEMMA OnlineLimitStep ==
  ASSUME StoreTypeOK, InputsKept, OnlineWithinLimit, [StoreNext]_storeVars
  PROVE  OnlineWithinLimit'
  <1> SUFFICES ASSUME MaxConcurrentOnlineRuns > 0
               PROVE  Cardinality(RunningSet') <= MaxConcurrentOnlineRuns
    BY DEF OnlineWithinLimit, RunningSet
  <1>1. /\ IsFiniteSet(RunningSet) /\ Cardinality(RunningSet) \in Nat
        /\ Cardinality(RunningSet) <= MaxConcurrentOnlineRuns
    BY GuardCountsAll, FS_CardinalityType DEF OnlineWithinLimit, RunningSet
  <1>2. StepShape
    BY StepHasShape
  <1>3. CASE RunningSet' \subseteq RunningSet
    <2>1. Cardinality(RunningSet') \in Nat /\ Cardinality(RunningSet') <= Cardinality(RunningSet)
      BY <1>1, <1>3, FS_Subset, FS_CardinalityType
    <2> QED BY <1>1, <2>1, StoreConstants
  <1>4. ASSUME NEW r \in OnlineRuns, OnlineSlotFree(r), RunningSet' \subseteq RunningSet \cup {r}
        PROVE  Cardinality(RunningSet') <= MaxConcurrentOnlineRuns
    <2>1. Cardinality(RunningSet) < MaxConcurrentOnlineRuns
      BY <1>4, GuardCountsAll DEF OnlineSlotFree
    <2>2. /\ IsFiniteSet(RunningSet \cup {r})
          /\ Cardinality(RunningSet \cup {r}) \in Nat
          /\ Cardinality(RunningSet \cup {r}) <= Cardinality(RunningSet) + 1
      BY <1>1, FS_AddElement, FS_CardinalityType
    <2>3. /\ Cardinality(RunningSet') \in Nat
          /\ Cardinality(RunningSet') <= Cardinality(RunningSet \cup {r})
      BY <1>4, <2>2, FS_Subset, FS_CardinalityType
    <2> QED BY <1>1, <2>1, <2>2, <2>3, StoreConstants
  <1>5. \/ RunningSet' \subseteq RunningSet
        \/ \E r \in OnlineRuns : OnlineSlotFree(r) /\ RunningSet' \subseteq RunningSet \cup {r}
    <2>1. NoRecord.status # "RUNNING" /\ "RUNNING" \notin Terminal
      BY DEF NoRecord, Terminal
    <2> QED BY <1>2, <2>1, StoreConstants DEF StepShape, RunningSet, Status
  <1> QED BY <1>3, <1>4, <1>5

\* OnlineWithinLimit: however the operations interleave, the online runs that are
\* RUNNING are never more than MaxConcurrentOnlineRuns.
THEOREM OnlineLimitHolds == StoreSpec => []OnlineWithinLimit
  <1>1. StoreInit => OnlineWithinLimit
    <2> SUFFICES ASSUME StoreInit
                 PROVE  OnlineWithinLimit
      OBVIOUS
    <2>1. {r \in OnlineRuns : Status(r) = "RUNNING"} = {}
      BY StoreConstants DEF StoreInit, Status, NoRecord
    <2> QED BY <2>1, FS_EmptySet, StoreConstants DEF OnlineWithinLimit
  <1>2. StoreTypeOK /\ InputsKept /\ OnlineWithinLimit /\ [StoreNext]_storeVars
          => OnlineWithinLimit'
    BY OnlineLimitStep
  <1> QED BY <1>1, <1>2, StoreTypeCorrect, InputsAreKept, PTL DEF StoreSpec

-----------------------------------------------------------------------------
\* TerminalNotResurrected: no operation takes an ended run back.
THEOREM NoResurrection == StoreSpec => TerminalNotResurrected
  <1>1. ASSUME StoreTypeOK, [StoreNext]_storeVars
        PROVE  [\A r \in Runs : isTerminalStatus(r) =>
                  runs'[r].status \in Terminal \cup {"ABSENT"}]_storeVars
    <2>1. StepShape /\ NoRecord.status = "ABSENT"
      BY <1>1, StepHasShape DEF NoRecord
    <2> QED BY <2>1 DEF StepShape, isTerminalStatus, Status, Terminal
  <1> QED BY <1>1, StoreTypeCorrect, PTL DEF StoreSpec, TerminalNotResurrected

\* ActiveNotEvicted: neither the sweep nor the trimming deletes a run that is
\* PENDING or RUNNING.
THEOREM NoActiveEviction == StoreSpec => ActiveNotEvicted
  <1>1. ASSUME StoreTypeOK, [StoreNext]_storeVars
        PROVE  [\A r \in Runs : Active(r) => runs'[r].status # "ABSENT"]_storeVars
    <2>1. StepShape
      BY <1>1, StepHasShape
    <2> QED BY <2>1 DEF StepShape, Active, Status, Terminal
  <1> QED BY <1>1, StoreTypeCorrect, PTL DEF StoreSpec, ActiveNotEvicted

-----------------------------------------------------------------------------
\* A sweep leaves the retained runs without the evicted prefix.
LEMMA SweepLeaves ==
  ASSUME StoreTypeOK, NEW E \in Evictions,
         runs' = [r \in Runs |->
                    CASE r \in Expired \cup E -> NoRecord
                      [] r \notin Expired \cup E /\ isTerminalStatus(r) -> Finalized(r, runs[r])
                      [] OTHER -> runs[r]]
  PROVE  {r \in Runs : runs'[r].status \in Terminal} = Retained \ E
  <1>1. NoRecord.status \notin Terminal
    BY DEF NoRecord, Terminal
  <1>2. \A r \in Runs : Finalized(r, runs[r]).status = runs[r].status
    BY FinalizedType DEF StoreTypeOK
  <1>3. \A r \in Runs : runs'[r].status \in Terminal <=>
                          isTerminalStatus(r) /\ r \notin Expired /\ r \notin E
    BY <1>1, <1>2 DEF isTerminalStatus, Status
  <1>4. Retained \ E = {r \in Runs : isTerminalStatus(r) /\ r \notin Expired /\ r \notin E}
    BY DEF Retained
  <1> QED BY <1>3, <1>4

\* The evicted prefix is as long as the number of retained runs asks for.
LEMMA EvictionsSize ==
  ASSUME StoreTypeOK, NEW E \in Evictions, MaxTerminalRuns > 0
  PROVE  Cardinality(Retained \ E) <= MaxTerminalRuns
  <1>1. IsFiniteSet(Retained) /\ Cardinality(Retained) \in Nat
    BY StoreConstants, FS_Subset, FS_CardinalityType DEF Retained
  <1>2. E \subseteq Retained
    BY DEF Evictions
  <1>3. Cardinality(E) = IF Cardinality(Retained) <= MaxTerminalRuns
                         THEN 0 ELSE Cardinality(Retained) - MaxTerminalRuns
    BY StoreConstants DEF Evictions
  <1>4. Cardinality(Retained \ E) = Cardinality(Retained) - Cardinality(Retained \cap E)
    BY <1>1, <1>2, FS_Subset, FS_Difference
  <1>5. Retained \cap E = E
    BY <1>2
  <1>6. Cardinality(Retained \ E) = Cardinality(Retained) - Cardinality(E)
    BY <1>4, <1>5
  <1> QED BY <1>1, <1>3, <1>6, StoreConstants

\* SweepRespectsRetention: what every sweep leaves behind.
THEOREM SweepCorrect == StoreSpec => SweepRespectsRetention
  <1> DEFINE left == {r \in Runs : runs'[r].status \in Terminal}
             gone == {r \in Runs : isTerminalStatus(r) /\ r \notin left}
             kept == /\ MaxTerminalRuns > 0 => Cardinality(left) <= MaxTerminalRuns
                     /\ TTL > 0 => \A r \in left : now - runs[r].ended < TTL
                     /\ \A r \in gone \ (Children \cup Expired) : left \cap Children = {}
  <1>1. ASSUME StoreTypeOK, CleanupNow
        PROVE  kept
    <2>1. PICK E \in Evictions :
                 runs' = [r \in Runs |->
                    CASE r \in Expired \cup E -> NoRecord
                      [] r \notin Expired \cup E /\ isTerminalStatus(r) -> Finalized(r, runs[r])
                      [] OTHER -> runs[r]]
      BY <1>1 DEF CleanupNow
    <2>2. left = Retained \ E
      BY <1>1, <2>1, SweepLeaves
    <2>3. ASSUME MaxTerminalRuns > 0
          PROVE  Cardinality(left) <= MaxTerminalRuns
      BY <1>1, <2>2, <2>3, EvictionsSize
    <2>4. ASSUME TTL > 0, NEW r \in left
          PROVE  now - runs[r].ended < TTL
      <3>1. r \in Runs /\ isTerminalStatus(r) /\ r \notin Expired
        BY <2>2, <2>4 DEF Retained
      <3>2. now \in Int /\ runs[r].ended \in Int
        BY <1>1, <3>1 DEF StoreTypeOK, RunRecord
      <3> QED BY <2>4, <3>1, <3>2, StoreConstants DEF Expired
    <2>5. ASSUME NEW r \in gone \ (Children \cup Expired), NEW k \in left \cap Children
          PROVE  FALSE
      <3>1. r \in E /\ r \notin Children
        BY <2>2, <2>5 DEF Retained
      <3>2. k \in Retained \ E /\ k \in Children
        BY <2>2, <2>5
      <3>3. ~EvictedBefore(k, r)
        BY <3>1, <3>2 DEF Evictions
      <3> QED BY <3>1, <3>2, <3>3 DEF EvictedBefore
    <2> QED BY <2>3, <2>4, <2>5
  <1>2. StoreTypeOK => [CleanupNow => kept]_storeVars
    BY <1>1
  <1>3. [](StoreTypeOK) => [][CleanupNow => kept]_storeVars
    BY <1>2, PTL
  <1> QED BY <1>3, StoreTypeCorrect, PTL DEF SweepRespectsRetention
=============================================================================
