-------------------------- MODULE RunOutcomeProofs --------------------------
(***************************************************************************)
(* What a run leaves behind when it ends: its metrics, and a callback.     *)
(* Proved of RunExecutor for every set of runs and of calls.               *)
(*                                                                         *)
(* Every step is first shown to be one turn of one call or worker, or to   *)
(* leave all of them alone (StepsAreTurns); the invariants follow from     *)
(* what a turn may do to the statuses, the records and the callbacks.      *)
(***************************************************************************)
EXTENDS RunExecutorProofs

\* A worker between storing its metrics and its end, one that takes over the
\* metrics of its best candidate, and a call that is on its way to a callback.
MeasuredPCs == {"reasoning", "measured", "publishing", "snapshotting", "completing"}
InheritPCs == {"copying", "inheriting"}
TellPCs == {"stopped", "notify", "deliver"}

\* Identifiers are not used again: a run that is stored, or that a Start works
\* on, was created.
Known ==
  /\ \A r \in Runs : Present(r) => r \in used
  /\ \A c \in Starts : pc[c] \notin CallPCs => tgt[c] \in used

\* The metrics are stored before the status, by the same worker.
Measured ==
  "metrics" \in Parts =>
    /\ \A c \in Starts : pc[c] \in InheritPCs => tgt[c] \in BatchRuns
    /\ \A c \in Starts :
         (pc[c] \in MeasuredPCs /\ tgt[c] \notin BatchRuns /\ Present(tgt[c]))
           => "metrics" \in runs[tgt[c]].parts
    /\ \A r \in Runs \ BatchRuns : Status(r) = "COMPLETED" => "metrics" \in runs[r].parts

\* What Start validates is the input of the stored run.
Copied ==
  \A c \in Starts :
    (pc[c] = "validating" /\ rec[c].input = "invalid" /\ tgt[c] \notin Children /\ Present(tgt[c]))
      => runs[tgt[c]].input = "invalid"

OutcomeInv == ~ReuseIds => Known /\ Measured /\ Copied /\ FinalStatusReported

-----------------------------------------------------------------------------
(* What a turn may do.                                                     *)

\* The run is not given a new terminal status.
NoVerdict(r) == runs'[r].status \in Terminal => runs'[r].status = runs[r].status

\* No call or worker moves.
Aside ==
  /\ UNCHANGED <<pc, tgt, rec, callbacks>>
  /\ \A r \in Runs : NoVerdict(r)

\* Where the call or worker c comes to, and on which run.
Moves(c) ==
  /\ \A d \in Calls \ {c} : pc'[d] = pc[d] /\ rec'[d] = rec[d] /\ tgt'[d] = tgt[d]
  /\ \/ pc[c] \notin CallPCs /\ tgt'[c] = tgt[c] /\ pc'[c] # "validating"
     \/ /\ pc[c] = "idle" /\ pc'[c] \notin TellPCs \cup MeasuredPCs \cup InheritPCs
        /\ c \in Starts => \/ pc'[c] \in CallPCs
                           \/ /\ pc'[c] = "validating" /\ tgt'[c] \in Runs
                              /\ Present(tgt'[c]) /\ rec'[c] = runs'[tgt'[c]]
  /\ c \in Starts /\ pc'[c] \in InheritPCs => pc[c] \in InheritPCs \cup {"trimming"}
  /\ (c \in Starts /\ pc'[c] \in MeasuredPCs /\ "metrics" \in Parts) =>
       \/ pc[c] \in MeasuredPCs \cup InheritPCs
       \/ Present(tgt[c]) => "metrics" \in runs'[tgt[c]].parts

\* c writes a terminal status, which it keeps to tell, or which is that of a run
\* whose input Start has refused.
Judges(c, r) ==
  /\ r = tgt[c] /\ Present(r)
  /\ runs'[r].status = "COMPLETED" => c \in Starts /\ pc[c] = "completing"
  /\ \/ pc'[c] \in TellPCs /\ tgt'[c] = r /\ rec'[c] = runs'[r]
     \/ c \in Starts /\ pc[c] = "validating" /\ rec[c].input = "invalid"

\* c goes on to tell what it keeps, or tells the status of the run as it is.
Tells(c) ==
  (/\ pc[c] \in TellPCs /\ rec[c].input # "nil"
   /\ tgt[c] \in CallbackRuns \ (OnlineRuns \cup Children) /\ Present(tgt[c]))
    => \/ pc'[c] \in TellPCs /\ rec'[c].input # "nil" /\ tgt'[c] = tgt[c]
       \/ /\ runs' = runs
          /\ \E n \in Callback : /\ callbacks'[tgt[c]] = Append(callbacks[tgt[c]], n)
                                 /\ n.status = Status(tgt[c])

Turn(c) ==
  /\ Moves(c)
  /\ \A r \in Runs : NoVerdict(r) \/ Judges(c, r)
  /\ Tells(c)
  /\ \A r \in Runs : \/ callbacks'[r] = callbacks[r]
                     \/ \E n \in Callback : callbacks'[r] = Append(callbacks[r], n)

-----------------------------------------------------------------------------
(* The store.                                                              *)

\* The operations that write no terminal status.
QuietStep ==
  \/ \E r \in Runs, q \in Inputs : Create(r, q)
  \/ \E r \in Runs : SetStatusRunning(r)
  \/ \E r \in Runs, p \in PartNames : Attach(r, p)
  \/ \E r \in Runs, b \in Runs \cup {None}, cs \in SUBSET Runs : SetOptimizationResult(r, b, cs)
  \/ \E r \in Runs, b \in Runs \cup {None} : TrimOptimizationCandidates(r, b)
  \/ CleanupNow
  \/ Tick
  \/ UNCHANGED storeVars

\* The run is stored after the step.
PresentNext(r) == runs'[r].status # "ABSENT"

\* What a step of the store keeps of the records, when identifiers are not used
\* again: a run that is gone stays so, one that stays keeps its metrics and, if
\* it is not a candidate, its input.
RecordsStay ==
  \A r \in Runs :
    /\ PresentNext(r) => r \in used'
    /\ r \in used => r \in used'
    /\ (r \in used /\ PresentNext(r)) =>
         /\ Present(r)
         /\ "metrics" \in runs[r].parts => "metrics" \in runs'[r].parts
         /\ r \notin Children => runs'[r].input = runs[r].input

\* finalizeRunStorageLocked keeps the metrics.
LEMMA FinalizedMetrics ==
  ASSUME NEW r, NEW x \in RunRecord, "metrics" \in x.parts
  PROVE  "metrics" \in Finalized(r, x).parts
  BY DEF Finalized, RunRecord

\* Sweeping and trimming drop, finalize or leave a record.
LEMMA SweptRecords ==
  ASSUME StoreTypeOK,
         CleanupNow \/ \E p \in Runs, b \in Runs \cup {None} : TrimOptimizationCandidates(p, b)
  PROVE  /\ \A r \in Runs : runs'[r] \in {runs[r], Finalized(r, runs[r]), NoRecord}
         /\ UNCHANGED used
  BY DEF TrimOptimizationCandidates, CleanupNow

\* Attaching a part keeps the others.
LEMMA AttachedRecords ==
  ASSUME StoreTypeOK, NEW r \in Runs, NEW p, Attach(r, p)
  PROVE  /\ UNCHANGED used
         /\ \A q \in Runs : /\ runs'[q].status = runs[q].status
                            /\ runs'[q].input = runs[q].input
                            /\ runs[q].parts \subseteq runs'[q].parts
         /\ p \in Parts => p \in runs'[r].parts
  <1>1. runs' = [runs EXCEPT ![r] = [runs[r] EXCEPT !.parts = runs[r].parts \cup ({p} \cap Parts)]]
    BY DEF Attach, StoreTypeOK, RunRecord
  <1>2. runs[r] \in RunRecord
    BY DEF StoreTypeOK
  <1>3. /\ [runs[r] EXCEPT !.parts = runs[r].parts \cup ({p} \cap Parts)].status = runs[r].status
        /\ [runs[r] EXCEPT !.parts = runs[r].parts \cup ({p} \cap Parts)].input = runs[r].input
        /\ [runs[r] EXCEPT !.parts = runs[r].parts \cup ({p} \cap Parts)].parts
             = runs[r].parts \cup ({p} \cap Parts)
    BY <1>2 DEF RunRecord
  <1> QED BY <1>1, <1>3 DEF Attach, StoreTypeOK

\* So does storing a result.
LEMMA ResultRecords ==
  ASSUME StoreTypeOK, NEW r \in Runs, NEW b, NEW cs, SetOptimizationResult(r, b, cs)
  PROVE  /\ UNCHANGED used
         /\ \A q \in Runs : /\ runs'[q].status = runs[q].status
                            /\ runs'[q].input = runs[q].input
                            /\ runs'[q].parts = runs[q].parts
  <1>1. runs[r] \in RunRecord
    BY DEF StoreTypeOK
  <1> QED BY <1>1 DEF SetOptimizationResult, StoreTypeOK, RunRecord

\* Setting a status finalizes the record of that run.
LEMMA StatusRecords ==
  ASSUME StoreTypeOK, NEW r \in Runs, NEW s \in Written, SetStatus(r, s)
  PROVE  /\ UNCHANGED used /\ Present(r)
         /\ \A q \in Runs \ {r} : runs'[q] = runs[q]
         /\ runs'[r].status = s
         /\ r \notin Children => runs'[r].input = runs[r].input
         /\ "metrics" \in runs[r].parts => "metrics" \in runs'[r].parts
  <1> DEFINE x == [runs[r] EXCEPT !.status = s, !.ended = now]
  <1>1. runs[r] \in RunRecord /\ now \in 0..MaxTime /\ s \in Statuses
    BY DEF StoreTypeOK, Written, Statuses, Terminal
  <1>2. x \in RunRecord /\ x.status = s /\ x.input = runs[r].input /\ x.parts = runs[r].parts
    BY <1>1, EndedType DEF RunRecord
  <1>3. runs' = [runs EXCEPT ![r] = Finalized(r, x)] /\ UNCHANGED used /\ Present(r)
    BY DEF SetStatus, StoreTypeOK
  <1> HIDE DEF x
  <1> QED BY <1>2, <1>3, FinalizedType, FinalizedMetrics DEF StoreTypeOK

\* Starting a run changes its status only.
LEMMA RunningRecords ==
  ASSUME StoreTypeOK, NEW r \in Runs, SetStatusRunning(r)
  PROVE  /\ UNCHANGED used /\ Present(r)
         /\ \A q \in Runs \ {r} : runs'[q] = runs[q]
         /\ runs'[r].status = "RUNNING"
         /\ runs'[r].input = runs[r].input /\ runs'[r].parts = runs[r].parts
  <1>1. runs[r] \in RunRecord
    BY DEF StoreTypeOK
  <1> QED BY <1>1 DEF SetStatusRunning, StoreTypeOK, RunRecord, Present, Status

\* Creating one touches no other.
LEMMA CreatedRecords ==
  ASSUME StoreTypeOK, NEW r \in Runs, NEW q \in Inputs, Create(r, q)
  PROVE  /\ used' = used \cup {r} /\ (r \in used => ReuseIds)
         /\ \A p \in Runs \ {r} : runs'[p] = runs[p]
         /\ runs'[r].status = "PENDING"
  BY DEF Create, StoreTypeOK, NoRecord

\* No quiet operation gives a run a terminal status.
LEMMA QuietKeepsStatus ==
  ASSUME StoreTypeOK, QuietStep
  PROVE  \A r \in Runs : NoVerdict(r)
  <1> USE DEF NoVerdict
  <1>1. ASSUME NEW r \in Runs, NEW q \in Inputs, Create(r, q)
        PROVE  \A p \in Runs : NoVerdict(p)
    BY <1>1, CreatedRecords DEF Terminal
  <1>2. ASSUME NEW r \in Runs, SetStatusRunning(r)
        PROVE  \A p \in Runs : NoVerdict(p)
    BY <1>2, RunningRecords DEF Terminal
  <1>3. ASSUME NEW r \in Runs, NEW p \in PartNames, Attach(r, p)
        PROVE  \A q \in Runs : NoVerdict(q)
    BY <1>3, AttachedRecords
  <1>4. ASSUME NEW r \in Runs, NEW b \in Runs \cup {None}, NEW cs \in SUBSET Runs,
               SetOptimizationResult(r, b, cs)
        PROVE  \A p \in Runs : NoVerdict(p)
    BY <1>4, ResultRecords
  <1>5. CASE CleanupNow \/ \E p \in Runs, b \in Runs \cup {None} : TrimOptimizationCandidates(p, b)
    <2>1. \A r \in Runs : runs'[r] \in {runs[r], Finalized(r, runs[r]), NoRecord}
      BY <1>5, SweptRecords
    <2>2. \A r \in Runs : Finalized(r, runs[r]).status = runs[r].status
      BY FinalizedType DEF StoreTypeOK
    <2>3. NoRecord.status \notin Terminal
      BY DEF NoRecord, Terminal
    <2> QED BY <2>1, <2>2, <2>3
  <1>6. CASE Tick \/ UNCHANGED storeVars
    BY <1>6 DEF Tick, storeVars
  <1> QED BY <1>1, <1>2, <1>3, <1>4, <1>5, <1>6 DEF QuietStep

\* Every step of the store keeps what RecordsStay says.
LEMMA StoreKeepsRecords ==
  ASSUME StoreTypeOK, ~ReuseIds, \A r \in Runs : Present(r) => r \in used, [StoreNext]_storeVars
  PROVE  RecordsStay
  <1> USE DEF RecordsStay, Present, PresentNext, Status
  <1>1. ASSUME NEW r \in Runs, NEW q \in Inputs, Create(r, q)
        PROVE  RecordsStay
    BY <1>1, CreatedRecords
  <1>2. ASSUME NEW r \in Runs, SetStatusRunning(r)
        PROVE  RecordsStay
    BY <1>2, RunningRecords
  <1>3. ASSUME NEW r \in Runs, NEW p, Attach(r, p)
        PROVE  RecordsStay
    BY <1>3, AttachedRecords
  <1>4. ASSUME NEW r \in Runs, NEW b, NEW cs, SetOptimizationResult(r, b, cs)
        PROVE  RecordsStay
    BY <1>4, ResultRecords
  <1>5. CASE CleanupNow \/ \E p \in Runs, b \in Runs \cup {None} : TrimOptimizationCandidates(p, b)
    <2>1. UNCHANGED used /\ \A r \in Runs : runs'[r] \in {runs[r], Finalized(r, runs[r]), NoRecord}
      BY <1>5, SweptRecords
    <2>2. \A r \in Runs :
            /\ Finalized(r, runs[r]).status = runs[r].status
            /\ r \notin Children => Finalized(r, runs[r]).input = runs[r].input
            /\ "metrics" \in runs[r].parts => "metrics" \in Finalized(r, runs[r]).parts
      BY FinalizedType, FinalizedMetrics DEF StoreTypeOK
    <2>3. NoRecord.status = "ABSENT"
      BY DEF NoRecord
    <2> QED BY <2>1, <2>2, <2>3
  <1>6. ASSUME NEW r \in Runs, NEW s \in Written, SetStatus(r, s)
        PROVE  RecordsStay
    BY <1>6, StatusRecords
  <1>7. CASE Tick \/ UNCHANGED storeVars
    BY <1>7 DEF Tick, storeVars
  <1> QED
    BY <1>1, <1>2, <1>3, <1>4, <1>5, <1>6, <1>7, StoreConstants
    DEF StoreNext, SetMetrics, SetCollector, SetFinalConfiguration, SetOnlineCompletionReason,
        AppendOptimizationStep, SetBatchRecommendation, SetOptimizationProgress

-----------------------------------------------------------------------------
(* Every step is a turn.                                                   *)

\* A call or worker that has nothing to tell and writes no terminal status.
LEMMA PlainTurn ==
  ASSUME IInv, QuietStep, NEW c \in Calls, NEW l,
         pc[c] \notin CallPCs \cup TellPCs,
         l # "validating",
         l \in InheritPCs => pc[c] \in InheritPCs \cup {"trimming"},
         l \in MeasuredPCs => \/ pc[c] \in MeasuredPCs \cup InheritPCs
                              \/ "metrics" \in Parts /\ Present(tgt[c]) => "metrics" \in runs'[tgt[c]].parts,
         pc' = [pc EXCEPT ![c] = l],
         \A d \in Calls \ {c} : rec'[d] = rec[d],
         UNCHANGED <<tgt, callbacks>>
  PROVE  Turn(c)
  <1>1. Moves(c)
    BY DEF Moves, IInv, TypeOK
  <1>2. \A r \in Runs : NoVerdict(r)
    BY QuietKeepsStatus DEF IInv, TypeOK
  <1>3. Tells(c)
    BY DEF Tells
  <1> QED BY <1>1, <1>2, <1>3 DEF Turn

\* A call that begins.
LEMMA FirstTurn ==
  ASSUME IInv, QuietStep, NEW c \in Calls,
         NEW l \in {"validating", "cancelling", "renewing", "returned"}, NEW r \in Runs,
         pc[c] = "idle",
         c \in Starts => \/ l = "returned"
                         \/ l = "validating" /\ tgt'[c] = r /\ Present(r) /\ rec'[c] = runs'[r],
         pc' = [pc EXCEPT ![c] = l],
         \A d \in Calls \ {c} : rec'[d] = rec[d] /\ tgt'[d] = tgt[d],
         callbacks' = callbacks
  PROVE  Turn(c)
  <1>1. Moves(c)
    BY DEF Moves, IInv, TypeOK, CallPCs, TellPCs, MeasuredPCs, InheritPCs
  <1>2. \A q \in Runs : NoVerdict(q)
    BY QuietKeepsStatus DEF IInv, TypeOK
  <1>3. Tells(c)
    BY DEF Tells, TellPCs
  <1> QED BY <1>1, <1>2, <1>3 DEF Turn

\* A call or worker that writes the terminal status s of its run.
LEMMA VerdictTurn ==
  ASSUME IInv, NEW c \in Calls, NEW l, NEW s \in Written,
         pc[c] \notin CallPCs \cup TellPCs,
         l \notin MeasuredPCs \cup InheritPCs \cup {"validating"},
         SetStatus(tgt[c], s),
         s = "COMPLETED" => c \in Starts /\ pc[c] = "completing",
         \/ l \in TellPCs /\ rec'[c] = runs'[tgt[c]]
         \/ c \in Starts /\ pc[c] = "validating" /\ rec[c].input = "invalid",
         pc' = [pc EXCEPT ![c] = l],
         \A d \in Calls \ {c} : rec'[d] = rec[d],
         UNCHANGED <<tgt, callbacks>>
  PROVE  Turn(c)
  <1>0. tgt[c] \in Runs /\ StoreTypeOK
    BY DEF IInv, Targets, TypeOK
  <1>1. Moves(c)
    BY DEF Moves, IInv, TypeOK
  <1>2. /\ Present(tgt[c]) /\ runs'[tgt[c]].status = s
        /\ \A q \in Runs \ {tgt[c]} : runs'[q] = runs[q]
    BY <1>0, StatusRecords
  <1>3. pc'[c] = l
    BY DEF IInv, TypeOK
  <1>4. \A q \in Runs : NoVerdict(q) \/ Judges(c, q)
    BY <1>2, <1>3 DEF NoVerdict, Judges
  <1>5. Tells(c)
    BY DEF Tells
  <1> QED BY <1>1, <1>4, <1>5 DEF Turn

\* A step that moves no call.
LEMMA QuietAside ==
  ASSUME IInv, QuietStep, UNCHANGED <<pc, tgt, rec, callbacks>>
  PROVE  Aside
  BY QuietKeepsStatus DEF Aside, IInv, TypeOK

\* Storing the final configuration is quiet.
LEMMA SnapshotQuiet ==
  ASSUME NEW r \in Runs, Snapshot(r)
  PROVE  QuietStep
  BY DEF Snapshot, Logged, SetFinalConfiguration, QuietStep, PartNames

\* Start.
LEMMA StartTurn ==
  ASSUME IInv, NEW c \in Starts, StartStep(c)
  PROVE  Turn(c)
  <1>0. c \in Calls /\ rec \in [Calls -> RunRecord] /\ tgt \in [Calls -> Runs \cup {None}]
    BY DEF Calls, IInv, TypeOK
  <1>1. ASSUME NEW r \in Runs, StartAdmits(c, r)
        PROVE  Turn(c)
    <2>1. QuietStep /\ Present(r)
      BY <1>1, RunningRecords DEF StartAdmits, QuietStep, IInv, TypeOK
    <2>2. /\ tgt'[c] = r /\ rec'[c] = runs'[r]
          /\ \A d \in Calls \ {c} : rec'[d] = rec[d] /\ tgt'[d] = tgt[d]
      BY <1>0, <1>1 DEF StartAdmits, Keep
    <2> QED BY <1>0, <1>1, <2>1, <2>2, FirstTurn DEF StartAdmits, Goto, OnlyThreads
  <1>2. ASSUME NEW r \in Runs, StartRejects(c, r)
        PROVE  Turn(c)
    BY <1>0, <1>2, FirstTurn DEF StartRejects, Goto, OnlyThreads, threadVars, QuietStep
  <1>3. CASE StartFails(c)
    <2>1. /\ pc[c] \notin CallPCs \cup TellPCs
          /\ "returned" \notin MeasuredPCs \cup InheritPCs \cup {"validating"}
          /\ "FAILED" \in Written
          /\ \A d \in Calls \ {c} : rec'[d] = rec[d]
          /\ "returned" \notin InheritPCs \cup MeasuredPCs
      BY <1>0, <1>3 DEF StartFails, CallPCs, TellPCs, MeasuredPCs, InheritPCs, Written
    <2>2. CASE Present(tgt[c])
      BY <1>0, <1>3, <2>1, <2>2, VerdictTurn DEF StartFails, Logged, Goto, OnlyThreads
    <2>3. CASE ~Present(tgt[c])
      BY <1>0, <1>3, <2>1, <2>3, PlainTurn DEF StartFails, Logged, Goto, OnlyThreads, QuietStep
    <2> QED BY <2>2, <2>3
  <1>4. CASE StartLaunches(c)
    <2>1. /\ pc[c] \notin CallPCs \cup TellPCs
          /\ "begin" \notin MeasuredPCs \cup InheritPCs \cup {"validating"}
          /\ \A d \in Calls \ {c} : rec'[d] = rec[d]
      BY <1>0, <1>4 DEF StartLaunches, CallPCs, TellPCs, MeasuredPCs, InheritPCs
    <2> QED BY <1>0, <1>4, <2>1, PlainTurn DEF StartLaunches, Goto, QuietStep
  <1> QED BY <1>1, <1>2, <1>3, <1>4 DEF StartStep

\* The notification: what is told is the status of the run as it is stored.
LEMMA NotifyTurn ==
  ASSUME IInv, InputsKept, NEW c \in Starts \cup Stops, NotifyStep(c)
  PROVE  Turn(c)
  <1>0. /\ c \in Calls /\ pc[c] \in {"notify", "deliver"} /\ tgt[c] \in Runs /\ StoreTypeOK
        /\ rec \in [Calls -> RunRecord] /\ pc \in [Calls -> PCs]
    BY DEF NotifyStep, NotifyPrepares, NotifyDelivers, Calls, IInv, TypeOK, Targets, CallPCs
  <1>1. AfterNotify(c) \notin TellPCs \cup MeasuredPCs \cup InheritPCs \cup {"validating"}
    BY DEF AfterNotify, TellPCs, MeasuredPCs, InheritPCs
  <1>2. pc[c] \notin CallPCs /\ {"notify", "deliver"} \subseteq TellPCs
        /\ {"deliver", "panicked"} \cap (MeasuredPCs \cup InheritPCs \cup {"validating"}) = {}
    BY <1>0 DEF CallPCs, TellPCs, MeasuredPCs, InheritPCs
  <1>3. CASE NotifyPrepares(c)
    <2>1. /\ UNCHANGED <<tgt, callbacks>>
          /\ \A d \in Calls \ {c} : rec'[d] = rec[d]
      BY <1>0, <1>3 DEF NotifyPrepares, OnlyThreads
    <2>2. QuietStep
      BY <1>0, <1>3, SnapshotQuiet DEF NotifyPrepares, QuietStep
    <2>3. PICK l \in {"deliver", AfterNotify(c)} : pc' = [pc EXCEPT ![c] = l]
      BY <1>3 DEF NotifyPrepares, Goto
    <2>4. Moves(c)
      BY <1>0, <1>1, <1>2, <2>1, <2>3 DEF Moves
    <2>5. Tells(c)
      BY <1>0, <1>2, <1>3, <2>1 DEF Tells, NotifyPrepares, Goto
    <2> QED BY <1>0, <2>1, <2>2, <2>4, <2>5, QuietKeepsStatus DEF Turn
  <1>4. CASE NotifyDelivers(c)
    <2> DEFINE latest == IF Present(tgt[c]) THEN runs[tgt[c]] ELSE rec[c]
               note == [status |-> latest.status, metrics |-> "metrics" \in latest.parts]
    <2>1. /\ UNCHANGED <<storeVars, tgt>>
          /\ \A d \in Calls \ {c} : rec'[d] = rec[d]
      BY <1>0, <1>4 DEF NotifyDelivers
    <2>2. \/ /\ latest.input = "nil" /\ pc' = [pc EXCEPT ![c] = "panicked"]
             /\ UNCHANGED callbacks
          \/ /\ pc' = [pc EXCEPT ![c] = AfterNotify(c)]
             /\ callbacks' = [callbacks EXCEPT ![tgt[c]] = Append(callbacks[tgt[c]], note)]
      BY <1>4 DEF NotifyDelivers, Goto
    <2>3. latest \in RunRecord
      BY <1>0 DEF StoreTypeOK
    <2>4. /\ note \in Callback /\ note.status = latest.status
      BY <2>3 DEF Callback, RunRecord
    <2>5. Present(tgt[c]) => latest = runs[tgt[c]]
      OBVIOUS
    <2> HIDE DEF note, latest
    <2>6. Moves(c)
      BY <1>0, <1>1, <1>2, <2>1, <2>2 DEF Moves
    <2>7. \A r \in Runs : \/ callbacks'[r] = callbacks[r]
                          \/ \E n \in Callback : callbacks'[r] = Append(callbacks[r], n)
      BY <1>0, <2>2, <2>4 DEF IInv, TypeOK
    <2>8. Tells(c)
      <3> SUFFICES ASSUME tgt[c] \notin Children, Present(tgt[c])
                   PROVE  /\ runs' = runs
                          /\ \E n \in Callback : /\ callbacks'[tgt[c]] = Append(callbacks[tgt[c]], n)
                                                 /\ n.status = Status(tgt[c])
        BY DEF Tells
      <3>1. latest.input # "nil" /\ latest.status = Status(tgt[c])
        BY <1>0, <2>5 DEF InputsKept, Status
      <3>2. callbacks'[tgt[c]] = Append(callbacks[tgt[c]], note)
        BY <1>0, <2>2, <3>1 DEF IInv, TypeOK
      <3> QED BY <2>1, <2>4, <3>1, <3>2 DEF storeVars
    <2>9. QuietStep
      BY <2>1 DEF QuietStep
    <2> QED BY <1>0, <2>6, <2>7, <2>8, <2>9, QuietKeepsStatus DEF Turn
  <1> QED BY <1>3, <1>4 DEF NotifyStep

\* Stop.
LEMMA StopTurn ==
  ASSUME IInv, InputsKept, NEW c \in Stops, StopStep(c)
  PROVE  Turn(c)
  <1>0. /\ c \in Calls /\ c \notin Starts /\ StoreTypeOK
        /\ rec \in [Calls -> RunRecord] /\ tgt \in [Calls -> Runs \cup {None}] /\ pc \in [Calls -> PCs]
    BY ExecutorConstants DEF Calls, IInv, TypeOK
  <1>1. ASSUME NEW r \in Runs, StopReads(c, r)
        PROVE  Turn(c)
    BY <1>0, <1>1, FirstTurn DEF StopReads, Goto, OnlyThreads, QuietStep
  <1>2. CASE StopCancels(c)
    <2>1. /\ pc[c] \notin CallPCs \cup TellPCs
          /\ "stopping" \notin MeasuredPCs \cup InheritPCs \cup {"validating"}
      BY <1>2 DEF StopCancels, CallPCs, TellPCs, MeasuredPCs, InheritPCs
    <2> QED BY <1>0, <1>2, <2>1, PlainTurn DEF StopCancels, Goto, QuietStep
  <1>3. CASE StopMarks(c)
    <2>1. /\ pc[c] \notin CallPCs \cup TellPCs /\ "STOPPED" \in Written /\ "stopped" \in TellPCs
          /\ {"stopped", "returned"} \cap (MeasuredPCs \cup InheritPCs \cup {"validating"}) = {}
      BY <1>3 DEF StopMarks, CallPCs, TellPCs, MeasuredPCs, InheritPCs, Written
    <2>2. CASE SetStatus(tgt[c], "STOPPED") /\ Keep(c, tgt[c]) /\ Goto(c, "stopped")
      <3>1. rec'[c] = runs'[tgt[c]] /\ \A d \in Calls \ {c} : rec'[d] = rec[d]
        BY <1>0, <2>2 DEF Keep
      <3> QED BY <1>0, <1>3, <2>1, <2>2, <3>1, VerdictTurn DEF StopMarks, Goto, OnlyThreads
    <2>3. CASE Goto(c, "returned") /\ UNCHANGED <<storeVars, rec>>
      BY <1>0, <1>3, <2>1, <2>3, PlainTurn DEF StopMarks, Goto, OnlyThreads, QuietStep
    <2> QED BY <1>3, <2>2, <2>3 DEF StopMarks
  <1>4. CASE StopSnapshots(c)
    <2>1. pc[c] = "stopped" /\ tgt[c] \in Runs /\ pc[c] \notin CallPCs
      BY <1>0, <1>4 DEF StopSnapshots, IInv, Targets, CallPCs
    <2>2. /\ UNCHANGED <<tgt, callbacks>>
          /\ \A d \in Calls \ {c} : rec'[d] = rec[d]
      BY <1>0, <1>4 DEF StopSnapshots, OnlyThreads
    <2>3. QuietStep
      BY <1>4, <2>1, SnapshotQuiet DEF StopSnapshots
    <2>4. PICK l \in {"notify", "returned"} : pc' = [pc EXCEPT ![c] = l]
      BY <1>4 DEF StopSnapshots, Goto
    <2>5. l \notin MeasuredPCs \cup InheritPCs \cup {"validating"}
      BY DEF MeasuredPCs, InheritPCs
    <2>6. Moves(c)
      BY <1>0, <2>1, <2>2, <2>4, <2>5 DEF Moves
    <2>7. Tells(c)
      BY <1>0, <1>4, <2>2 DEF Tells, StopSnapshots, Goto, TellPCs
    <2> QED BY <1>0, <2>2, <2>3, <2>6, <2>7, QuietKeepsStatus DEF Turn
  <1>5. CASE NotifyStep(c)
    BY <1>5, NotifyTurn
  <1> QED BY <1>1, <1>2, <1>3, <1>4, <1>5 DEF StopStep, StopProceeds

\* RenewOnlineLease.
LEMMA RenewTurn ==
  ASSUME IInv, NEW c \in Renews, RenewStep(c)
  PROVE  Turn(c)
  <1>0. c \in Calls /\ c \notin Starts /\ tgt \in [Calls -> Runs \cup {None}]
    BY ExecutorConstants DEF Calls, IInv, TypeOK
  <1>1. ASSUME NEW r \in Runs, RenewChecks(c, r)
        PROVE  Turn(c)
    <2>1. PICK l \in {"renewing", "returned"} : pc' = [pc EXCEPT ![c] = l]
      BY <1>1 DEF RenewChecks, Goto
    <2>2. \A d \in Calls \ {c} : rec'[d] = rec[d] /\ tgt'[d] = tgt[d]
      BY <1>0, <1>1 DEF RenewChecks
    <2> QED BY <1>0, <1>1, <2>1, <2>2, FirstTurn DEF RenewChecks, OnlyThreads, QuietStep
  <1>2. CASE RenewExtends(c)
    <2>1. /\ pc[c] \notin CallPCs \cup TellPCs
          /\ "returned" \notin MeasuredPCs \cup InheritPCs \cup {"validating"}
      BY <1>2 DEF RenewExtends, CallPCs, TellPCs, MeasuredPCs, InheritPCs
    <2> QED BY <1>0, <1>2, <2>1, PlainTurn DEF RenewExtends, Goto, QuietStep, threadVars
  <1> QED BY <1>1, <1>2 DEF RenewStep

\* The watchers of an online run, the clock, the clients and the sweep.
LEMMA OutsideAside ==
  ASSUME IInv,
         \/ \E c \in Starts : WatchStep(c)
         \/ \E r \in Runs : LeaseLapses(r)
         \/ StoreStep
         \/ UNCHANGED vars
  PROVE  Aside
  <1>1. UNCHANGED <<pc, tgt, rec, callbacks>>
    BY DEF WatchStep, WatchTrips, WatchSignals, WatchCancels, WatchEnds, WatchAppendsStep,
       LeaseLapses, StoreStep, OnlyThreads, threadVars, execVars, vars
  <1>2. ASSUME NEW c \in Starts, WatchStep(c)
        PROVE  QuietStep
    <2>1. tgt[c] \in Runs \/ UNCHANGED storeVars
      BY <1>2 DEF IInv, Targets, WatchStep, WatchTrips, WatchSignals, WatchCancels, WatchEnds,
         WatchAppendsStep
    <2> QED BY <1>2, <2>1 DEF WatchStep, WatchTrips, WatchSignals, WatchCancels, WatchEnds,
                 WatchAppendsStep, Logged, AppendOptimizationStep, QuietStep, PartNames
  <1>3. (\E r \in Runs : LeaseLapses(r)) \/ UNCHANGED vars => QuietStep
    BY DEF LeaseLapses, vars, storeVars, QuietStep
  <1>4. StoreStep => QuietStep
    BY DEF StoreStep, QuietStep
  <1> QED BY <1>1, <1>2, <1>3, <1>4, QuietAside

\* The steps of a worker.
LEMMA WorkerTurn ==
  ASSUME IInv, InputsKept, NEW c \in Starts, WorkerStep(c)
  PROVE  Turn(c)
  <1> DEFINE Fresh == WorkerPCs \ (MeasuredPCs \cup InheritPCs)
             Local == (\A d \in Calls \ {c} : rec'[d] = rec[d]) /\ UNCHANGED <<tgt, callbacks>>
  <1>0. /\ c \in Calls /\ StoreTypeOK
        /\ rec \in [Calls -> RunRecord] /\ pc \in [Calls -> PCs]
    BY DEF Calls, IInv, TypeOK
  <1>1. ASSUME pc[c] \in WorkerPCs
        PROVE  tgt[c] \in Runs /\ pc[c] \notin CallPCs \cup TellPCs
    BY <1>0, <1>1 DEF IInv, Targets, WorkerPCs, CallPCs, TellPCs
  <1>2. "validating" \notin WorkerPCs \cup {"notify", "exited"}
    BY DEF WorkerPCs
  <1>3. ASSUME QuietStep, Local, pc[c] \in WorkerPCs,
               NEW l \in Fresh \cup {"notify", "exited"}, pc' = [pc EXCEPT ![c] = l]
        PROVE  Turn(c)
    <2>1. l \notin MeasuredPCs \cup InheritPCs \cup {"validating"}
      BY <1>2, <1>3 DEF MeasuredPCs, InheritPCs
    <2> QED BY <1>0, <1>1, <1>3, <2>1, PlainTurn
  \* nothing is stored
  <1>4. CASE \/ WorkerLoads(c) \/ WorkerBuildFails(c) \/ WorkerRegisters(c) \/ WorkerTakesLease(c)
             \/ EngineReturns(c) \/ WorkerTakesReason(c) \/ WorkerFindsCancelled(c)
             \/ WorkerFindsFailure(c) \/ WorkerRereads(c) \/ SearchFails(c) \/ SearchCancelled(c)
    <2> USE <1>4 DEF WorkerLoads, WorkerBuildFails, WorkerRegisters, WorkerTakesLease, EngineReturns,
             WorkerTakesReason, WorkerFindsCancelled, WorkerFindsFailure, WorkerRereads,
             SearchFails, SearchCancelled
    <2>1. pc[c] \in WorkerPCs
      BY DEF WorkerPCs
    <2>2. PICK l \in Fresh \cup {"notify"} : pc' = [pc EXCEPT ![c] = l]
      BY DEF Goto, WorkerPCs, MeasuredPCs, InheritPCs
    <2>3. Local
      BY <1>0 DEF OnlyThreads, threadVars
    <2>4. UNCHANGED storeVars
      OBVIOUS
    <2> QED BY <1>3, <2>1, <2>2, <2>3, <2>4 DEF QuietStep
  <1>5. CASE Cleanup(c)
    <2>1. /\ pc[c] \in WorkerPCs /\ pc' = [pc EXCEPT ![c] = "exited"] /\ Local /\ UNCHANGED storeVars
      BY <1>0, <1>5 DEF Cleanup, Forget, Goto, WorkerPCs
    <2> QED BY <1>3, <2>1 DEF QuietStep
  \* one part of the record is stored
  <1>6. CASE WorkerStoresCollector(c) \/ WorkerStoresFinalMetrics(c) \/ WorkerStoresFinalResult(c)
    <2> USE <1>6 DEF WorkerStoresCollector, WorkerStoresFinalMetrics, WorkerStoresFinalResult,
             WorkerStores
    <2>1. pc[c] \in WorkerPCs
      BY DEF WorkerPCs
    <2>2. PICK l \in Fresh : pc' = [pc EXCEPT ![c] = l]
      BY DEF Goto, WorkerPCs, MeasuredPCs, InheritPCs
    <2>3. Local
      BY <1>0 DEF OnlyThreads, threadVars
    <2>4. QuietStep
      BY <1>1, <2>1 DEF Logged, SetCollector, SetMetrics, QuietStep, PartNames
    <2> QED BY <1>3, <2>1, <2>2, <2>3, <2>4
  <1>7. CASE WorkerStoresMetrics(c)
    <2>1. /\ pc[c] = "finishing" /\ Local
          /\ Logged(tgt[c], Attach(tgt[c], "metrics"))
      BY <1>0, <1>7 DEF WorkerStoresMetrics, WorkerStores, SetMetrics, OnlyThreads, threadVars
    <2>2. tgt[c] \in Runs /\ pc[c] \notin CallPCs \cup TellPCs
      BY <1>1, <2>1 DEF WorkerPCs
    <2>3. PICK l \in {"reasoning", "measured"} : pc' = [pc EXCEPT ![c] = l]
      BY <1>7 DEF WorkerStoresMetrics, WorkerStores, Goto
    <2>4. "metrics" \in Parts /\ Present(tgt[c]) => "metrics" \in runs'[tgt[c]].parts
      BY <1>0, <2>1, <2>2, AttachedRecords DEF Logged
    <2>5. QuietStep
      BY <2>1, <2>2 DEF Logged, QuietStep, PartNames
    <2>6. l \notin InheritPCs \cup {"validating"}
      BY DEF InheritPCs
    <2> QED BY <1>0, <2>1, <2>2, <2>3, <2>4, <2>5, <2>6, PlainTurn
  \* the worker has stored its metrics, or is a batch search
  <1>8. CASE \/ WorkerStoresReason(c) \/ WorkerStoresResult(c) \/ WorkerSnapshots(c)
             \/ SearchStoresMetrics(c) \/ WorkerChecksRunning(c) \/ SearchReadsBest(c)
    <2> USE <1>8 DEF WorkerStoresReason, WorkerStoresResult, WorkerSnapshots, SearchStoresMetrics,
             WorkerChecksRunning, SearchReadsBest, WorkerStores
    <2>1. pc[c] \in WorkerPCs /\ pc[c] \in MeasuredPCs \cup InheritPCs
      BY DEF WorkerPCs, MeasuredPCs, InheritPCs
    <2>2. PICK l \in WorkerPCs : pc' = [pc EXCEPT ![c] = l] /\ (l \in InheritPCs => pc[c] \in InheritPCs)
      BY DEF Goto, WorkerPCs, InheritPCs
    <2>3. Local
      BY <1>0 DEF OnlyThreads, threadVars
    <2>4. QuietStep
      <3>1. tgt[c] \in Runs
        BY <1>1, <2>1
      <3> QED BY <3>1, SnapshotQuiet DEF Logged, SetOnlineCompletionReason, SetMetrics, QuietStep, PartNames
    <2> QED BY <1>0, <1>1, <1>2, <2>1, <2>2, <2>3, <2>4, PlainTurn
  \* a search
  <1>9. ASSUME NEW k \in Children, SearchEvaluates(c, k)
        PROVE  Turn(c)
    <2>1. /\ pc[c] = "searching" /\ pc' = [pc EXCEPT ![c] = "searching"] /\ Local
          /\ UNCHANGED storeVars
      BY <1>0, <1>9 DEF SearchEvaluates, OnlyThreads
    <2>2. "searching" \in Fresh /\ pc[c] \in WorkerPCs
      BY <2>1 DEF WorkerPCs, MeasuredPCs, InheritPCs
    <2> QED BY <1>3, <2>1, <2>2 DEF QuietStep
  <1>10. ASSUME NEW b \in Children \cup {None}, NEW cs \in SUBSET Children, SearchSucceeds(c, b, cs)
         PROVE  Turn(c)
    <2>1. /\ pc[c] \in WorkerPCs /\ pc' = [pc EXCEPT ![c] = "trimming"] /\ Local
          /\ "trimming" \in Fresh
      BY <1>0, <1>10 DEF SearchSucceeds, OnlyThreads, Goto, WorkerPCs, MeasuredPCs, InheritPCs
    <2>2. b \in Runs \cup {None} /\ cs \in SUBSET Runs
      BY StoreConstants
    <2>3. QuietStep
      BY <1>1, <1>10, <2>1, <2>2 DEF SearchSucceeds, Logged, QuietStep
    <2> QED BY <1>3, <2>1, <2>3
  <1>11. CASE SearchTrims(c)
    <2>1. /\ pc[c] = "trimming" /\ pc[c] \in WorkerPCs /\ pc' = [pc EXCEPT ![c] = "copying"] /\ Local
          /\ "copying" \in InheritPCs /\ "copying" \notin MeasuredPCs
      BY <1>0, <1>11 DEF SearchTrims, WorkerStores, OnlyThreads, threadVars, Goto, WorkerPCs,
         MeasuredPCs, InheritPCs
    <2>2. rec[c].best \in Runs \cup {None} /\ tgt[c] \in Runs
      BY <1>0, <1>1, <2>1, StoreConstants DEF IInv, Targets
    <2>3. QuietStep
      BY <1>11, <2>2 DEF SearchTrims, WorkerStores, Logged, QuietStep
    <2> QED BY <1>0, <1>1, <2>1, <2>3, PlainTurn
  \* the end
  <1>12. CASE WorkerFails(c) \/ WorkerCompletes(c)
    <2>1. PICK s \in {"FAILED", "COMPLETED"} :
            /\ pc[c] \in {"failing", "completing"} /\ (s = "COMPLETED" => pc[c] = "completing")
            /\ \/ SetStatus(tgt[c], s) /\ Keep(c, tgt[c]) /\ Goto(c, "notify")
               \/ Goto(c, "cleanup") /\ UNCHANGED <<storeVars, rec>>
            /\ OnlyThreads /\ UNCHANGED tgt
      BY <1>12 DEF WorkerFails, WorkerCompletes, WorkerEnds
    <2>2. /\ pc[c] \in WorkerPCs /\ s \in Written /\ "notify" \in TellPCs
          /\ "notify" \notin MeasuredPCs \cup InheritPCs \cup {"validating"}
          /\ "cleanup" \in Fresh
      BY <2>1 DEF WorkerPCs, Written, TellPCs, MeasuredPCs, InheritPCs
    <2>3. CASE SetStatus(tgt[c], s) /\ Keep(c, tgt[c]) /\ Goto(c, "notify")
      <3>1. rec'[c] = runs'[tgt[c]] /\ \A d \in Calls \ {c} : rec'[d] = rec[d]
        BY <1>0, <2>3 DEF Keep
      <3> QED BY <1>0, <1>1, <2>1, <2>2, <2>3, <3>1, VerdictTurn DEF Goto, OnlyThreads
    <2>4. CASE Goto(c, "cleanup") /\ UNCHANGED <<storeVars, rec>>
      <3>1. Local
        BY <2>1, <2>4 DEF OnlyThreads
      <3> QED BY <1>3, <2>1, <2>2, <2>4, <3>1 DEF Goto, QuietStep
    <2> QED BY <2>1, <2>3, <2>4
  <1>13. CASE NotifyStep(c)
    BY <1>13, NotifyTurn
  <1> QED
    BY <1>4, <1>5, <1>6, <1>7, <1>8, <1>9, <1>10, <1>11, <1>12, <1>13 DEF WorkerStep

\* Every step is a turn of one call, or leaves all of them alone.
LEMMA StepsAreTurns ==
  ASSUME IInv, InputsKept, [Next]_vars
  PROVE  Aside \/ \E c \in Calls : Turn(c)
  <1>1. Starts \subseteq Calls /\ Stops \subseteq Calls /\ Renews \subseteq Calls
    BY DEF Calls
  <1> QED BY <1>1, StartTurn, StopTurn, RenewTurn, WorkerTurn, OutsideAside DEF Next

-----------------------------------------------------------------------------
(* The invariant.                                                          *)

\* The initial state: nothing is stored and no call has begun.
LEMMA InitOutcome == Init => OutcomeInv
  <1> SUFFICES ASSUME Init PROVE OutcomeInv
    OBVIOUS
  <1>1. \A r \in Runs : runs[r].status = "ABSENT"
    BY DEF Init, StoreInit, NoRecord
  <1>2. \A c \in Starts : pc[c] = "idle"
    BY DEF Init, Calls
  <1>3. Known /\ Measured /\ Copied
    BY <1>1, <1>2 DEF Known, Measured, Copied, Present, Status, CallPCs, MeasuredPCs, InheritPCs
  <1>4. FinalStatusReported
    BY <1>1, ExecutorConstants DEF FinalStatusReported, isTerminalStatus, Status, Terminal
  <1> QED BY <1>3, <1>4 DEF OutcomeInv

\* A run that a Start works on was created.
LEMMA KnownStep ==
  ASSUME IInv, Known, RecordsStay, Aside \/ \E c \in Calls : Turn(c)
  PROVE  Known'
  <1>0. Starts \subseteq Calls /\ \A d \in Starts : pc[d] \notin CallPCs => tgt[d] \in Runs
    BY DEF Calls, IInv, Targets
  <1>1. \A r \in Runs : Present(r)' => r \in used'
    BY DEF RecordsStay, Present, PresentNext, Status
  <1>2. ASSUME NEW d \in Starts, pc'[d] \notin CallPCs
        PROVE  tgt'[d] \in used'
    <2>1. CASE pc[d] \notin CallPCs /\ tgt'[d] = tgt[d]
      BY <1>0, <2>1 DEF Known, RecordsStay
    <2>2. CASE tgt'[d] \in Runs /\ Present(tgt'[d])
      BY <2>2 DEF Known, RecordsStay
    <2>3. CASE Aside
      BY <1>2, <2>1, <2>3 DEF Aside
    <2>4. ASSUME NEW c \in Calls, Moves(c)
          PROVE  tgt'[d] \in used'
      BY <1>0, <1>2, <2>1, <2>2, <2>4 DEF Moves
    <2> QED BY <2>3, <2>4 DEF Turn
  <1> QED BY <1>1, <1>2 DEF Known

\* The metrics are there before the run is COMPLETED, and stay.
LEMMA MeasuredStep ==
  ASSUME IInv, Known, Measured, RecordsStay, Aside \/ \E c \in Calls : Turn(c)
  PROVE  Measured'
  <1> SUFFICES ASSUME "metrics" \in Parts
               PROVE  Measured'
    BY DEF Measured
  <1>0. /\ Starts \subseteq Calls
        /\ \A d \in Starts : pc[d] \notin CallPCs => tgt[d] \in Runs /\ tgt[d] \in used
        /\ (MeasuredPCs \cup InheritPCs) \cap CallPCs = {}
        /\ \A d \in Starts : pc[d] = "trimming" => tgt[d] \in BatchRuns
        /\ \A d \in Starts : pc[d] \in InheritPCs => tgt[d] \in BatchRuns
    BY DEF Calls, IInv, Targets, Known, Measured, MeasuredPCs, InheritPCs, CallPCs
  <1>1. ASSUME NEW d \in Starts, pc[d] \in MeasuredPCs, tgt[d] \notin BatchRuns, PresentNext(tgt[d])
        PROVE  "metrics" \in runs'[tgt[d]].parts
    BY <1>0, <1>1 DEF Measured, RecordsStay
  <1>2. ASSUME NEW r \in Runs \ BatchRuns, runs[r].status = "COMPLETED", PresentNext(r)
        PROVE  "metrics" \in runs'[r].parts
    BY <1>2 DEF Measured, RecordsStay, Known, Present, Status
  <1>3. CASE Aside
    <2>1. \A r \in Runs \ BatchRuns : runs'[r].status = "COMPLETED" => "metrics" \in runs'[r].parts
      BY <1>2, <1>3 DEF Aside, NoVerdict, Terminal, PresentNext
    <2> QED BY <1>0, <1>1, <1>3, <2>1 DEF Aside, Measured, Status, Present, PresentNext
  <1>4. ASSUME NEW c \in Calls, Turn(c)
        PROVE  Measured'
    <2>1. ASSUME NEW d \in Starts, pc'[d] \in InheritPCs
          PROVE  tgt'[d] \in BatchRuns
      <3>1. CASE d # c
        BY <1>0, <1>4, <2>1, <3>1 DEF Turn, Moves
      <3>2. CASE d = c
        BY <1>0, <1>4, <2>1, <3>2 DEF Turn, Moves
      <3> QED BY <3>1, <3>2
    <2>2. ASSUME NEW d \in Starts, pc'[d] \in MeasuredPCs, tgt'[d] \notin BatchRuns, PresentNext(tgt'[d])
          PROVE  "metrics" \in runs'[tgt'[d]].parts
      <3>1. CASE d # c
        BY <1>0, <1>1, <1>4, <2>2, <3>1 DEF Turn, Moves
      <3>2. CASE d = c
        <4>1. tgt'[c] = tgt[c] /\ pc[c] \notin CallPCs
          BY <1>0, <1>4, <2>2, <3>2 DEF Turn, Moves
        <4>2. Present(tgt[c])
          BY <1>0, <2>2, <3>2, <4>1 DEF RecordsStay
        <4>3. pc[c] \in MeasuredPCs \cup InheritPCs \/ "metrics" \in runs'[tgt[c]].parts
          BY <1>4, <2>2, <3>2, <4>2 DEF Turn, Moves
        <4> QED BY <1>0, <1>1, <2>2, <3>2, <4>1, <4>3
      <3> QED BY <3>1, <3>2
    <2>3. ASSUME NEW r \in Runs \ BatchRuns, runs'[r].status = "COMPLETED"
          PROVE  "metrics" \in runs'[r].parts
      <3>1. PresentNext(r) /\ runs'[r].status \in Terminal
        BY <2>3 DEF PresentNext, Terminal
      <3>2. CASE NoVerdict(r)
        BY <1>2, <2>3, <3>1, <3>2 DEF NoVerdict
      <3>3. CASE Judges(c, r)
        BY <1>1, <2>3, <3>1, <3>3 DEF Judges, MeasuredPCs
      <3> QED BY <1>4, <3>2, <3>3 DEF Turn
    <2> QED BY <2>1, <2>2, <2>3 DEF Measured, Status, Present, PresentNext
  <1> QED BY <1>3, <1>4

\* What Start has copied stays the input of the run.
LEMMA CopiedStep ==
  ASSUME IInv, Known, Copied, RecordsStay, Aside \/ \E c \in Calls : Turn(c)
  PROVE  Copied'
  <1>0. /\ Starts \subseteq Calls
        /\ \A d \in Starts : pc[d] = "validating" => tgt[d] \in Runs /\ tgt[d] \in used
    BY DEF Calls, IInv, Targets, Known, CallPCs
  <1>1. ASSUME NEW d \in Starts, pc[d] = "validating", rec[d].input = "invalid",
               tgt[d] \notin Children, PresentNext(tgt[d])
        PROVE  runs'[tgt[d]].input = "invalid"
    BY <1>0, <1>1 DEF Copied, RecordsStay
  <1>2. CASE Aside
    BY <1>1, <1>2 DEF Aside, Copied, Present, PresentNext, Status
  <1>3. ASSUME NEW c \in Calls, Turn(c)
        PROVE  Copied'
    <2>1. ASSUME NEW d \in Starts, pc'[d] = "validating", rec'[d].input = "invalid",
                 tgt'[d] \notin Children, PresentNext(tgt'[d])
          PROVE  runs'[tgt'[d]].input = "invalid"
      <3>1. CASE d # c
        BY <1>0, <1>1, <1>3, <2>1, <3>1 DEF Turn, Moves
      <3>2. CASE d = c
        BY <1>3, <2>1, <3>2 DEF Turn, Moves, CallPCs
      <3> QED BY <3>1, <3>2
    <2> QED BY <2>1 DEF Copied, Present, PresentNext, Status
  <1> QED BY <1>2, <1>3

\* A status that was told stays told when another callback is appended.
LEMMA StillTold ==
  ASSUME NEW s \in Seq(Callback), NEW t, NEW v,
         t = s \/ \E n \in Callback : t = Append(s, n),
         \E i \in 1..Len(s) : s[i].status = v
  PROVE  \E i \in 1..Len(t) : t[i].status = v
  <1>1. PICK i \in 1..Len(s) : s[i].status = v
    OBVIOUS
  <1>2. i \in 1..Len(t) /\ t[i] = s[i]
    OBVIOUS
  <1> QED BY <1>1, <1>2

\* The status of a callback that is appended is told.
LEMMA NowTold ==
  ASSUME NEW s \in Seq(Callback), NEW n \in Callback, NEW t, t = Append(s, n)
  PROVE  \E i \in 1..Len(t) : t[i].status = n.status
  <1>1. Len(s) + 1 \in 1..Len(t) /\ t[Len(s) + 1] = n
    OBVIOUS
  <1> QED BY <1>1

\* The last status of a run is told, or kept by a call that will tell it.
LEMMA ReportedStep ==
  ASSUME IInv, Known, Copied, FinalStatusReported, RecordsStay, InputsKept', ~ReuseIds,
         Aside \/ \E c \in Calls : Turn(c)
  PROVE  FinalStatusReported'
  <1> SUFFICES ASSUME NEW r \in CallbackRuns \ (OnlineRuns \cup Children),
                      runs'[r].status \in Terminal, runs'[r].input # "invalid"
               PROVE  Reported(r)' \/ ReportPending(r)'
    BY DEF FinalStatusReported, isTerminalStatus, Status
  <1>0. r \in Runs /\ r \notin Children /\ PresentNext(r) /\ callbacks[r] \in Seq(Callback)
    BY ExecutorConstants DEF PresentNext, Terminal, IInv, TypeOK
  <1>1. runs'[r].input # "nil"
    BY <1>0 DEF InputsKept, Present, PresentNext, Status
  <1>2. \A c \in Calls : pc[c] \in TellPCs => tgt[c] \in Runs
    BY DEF IInv, Targets, TellPCs, CallPCs
  <1>3. CASE runs'[r].status = runs[r].status
    <2>1. Present(r) /\ isTerminalStatus(r) /\ r \in used
      BY <1>0, <1>3 DEF Present, PresentNext, isTerminalStatus, Status, Known
    <2>2. runs[r].input = runs'[r].input
      BY <1>0, <2>1 DEF RecordsStay
    <2>3. Reported(r) \/ ReportPending(r)
      BY <2>1, <2>2 DEF FinalStatusReported
    <2>4. CASE Reported(r)
      <3>1. \E i \in 1..Len(callbacks[r]) : callbacks[r][i].status = runs'[r].status
        BY <1>3, <2>4 DEF Reported, Status
      <3>2. callbacks'[r] = callbacks[r] \/ \E n \in Callback : callbacks'[r] = Append(callbacks[r], n)
        BY <1>0 DEF Aside, Turn
      <3>3. \E i \in 1..Len(callbacks'[r]) : callbacks'[r][i].status = runs'[r].status
        BY <1>0, <3>1, <3>2, StillTold
      <3> QED BY <3>3 DEF Reported, Status
    <2>5. CASE ReportPending(r)
      <3>1. PICK d \in Calls : tgt[d] = r /\ pc[d] \in TellPCs /\ rec[d].input # "nil"
        BY <2>5 DEF ReportPending, TellPCs
      <3>2. ASSUME tgt'[d] = r, pc'[d] \in TellPCs, rec'[d].input # "nil"
            PROVE  ReportPending(r)'
        BY <3>2 DEF ReportPending, TellPCs
      <3>3. CASE Aside
        BY <3>1, <3>2, <3>3 DEF Aside
      <3>4. ASSUME NEW c \in Calls, Turn(c)
            PROVE  Reported(r)' \/ ReportPending(r)'
        <4>1. CASE d # c
          BY <3>1, <3>2, <3>4, <4>1 DEF Turn, Moves
        <4>2. CASE d = c
          <5>1. \/ pc'[d] \in TellPCs /\ rec'[d].input # "nil" /\ tgt'[d] = r
                \/ \E n \in Callback : /\ callbacks'[r] = Append(callbacks[r], n)
                                       /\ n.status = runs'[r].status
            BY <1>3, <2>1, <3>1, <3>4, <4>2 DEF Turn, Tells, Status
          <5>2. ASSUME NEW n \in Callback, callbacks'[r] = Append(callbacks[r], n),
                       n.status = runs'[r].status
                PROVE  Reported(r)'
            <6>1. \E i \in 1..Len(callbacks'[r]) : callbacks'[r][i].status = n.status
              BY <1>0, <5>2, NowTold
            <6> QED BY <5>2, <6>1 DEF Reported, Status
          <5> QED BY <3>2, <5>1, <5>2
        <4> QED BY <4>1, <4>2
      <3> QED BY <3>3, <3>4
    <2> QED BY <2>3, <2>4, <2>5
  <1>4. CASE runs'[r].status # runs[r].status
    <2>1. PICK c \in Calls : Turn(c)
      BY <1>0, <1>4 DEF Aside, NoVerdict
    <2>2. Judges(c, r)
      BY <1>0, <1>4, <2>1 DEF Turn, NoVerdict
    <2>3. CASE pc'[c] \in TellPCs /\ tgt'[c] = r /\ rec'[c] = runs'[r]
      BY <1>1, <2>3 DEF ReportPending, TellPCs
    <2>4. CASE c \in Starts /\ pc[c] = "validating" /\ rec[c].input = "invalid"
      <3>1. r = tgt[c] /\ Present(r) /\ r \in used
        BY <1>0, <2>2 DEF Judges, Known
      <3>2. runs[r].input = "invalid"
        BY <1>0, <2>4, <3>1 DEF Copied
      <3> QED BY <1>0, <3>1, <3>2 DEF RecordsStay
    <2> QED BY <2>2, <2>3, <2>4 DEF Judges
  <1> QED BY <1>3, <1>4

\* A step keeps the invariant.
LEMMA OutcomeStep ==
  ASSUME IInv, InputsKept, OutcomeInv, [Next]_vars, InputsKept'
  PROVE  OutcomeInv'
  <1> SUFFICES ASSUME ~ReuseIds PROVE (Known /\ Measured /\ Copied /\ FinalStatusReported)'
    BY DEF OutcomeInv
  <1>1. Known /\ Measured /\ Copied /\ FinalStatusReported
    BY DEF OutcomeInv
  <1>2. [StoreNext]_storeVars
    BY StepsHaveShape DEF Shape
  <1>3. RecordsStay
    BY <1>1, <1>2, StoreKeepsRecords DEF Known, IInv, TypeOK
  <1>4. Aside \/ \E c \in Calls : Turn(c)
    BY StepsAreTurns
  <1> QED BY <1>1, <1>3, <1>4, KnownStep, MeasuredStep, CopiedStep, ReportedStep

-----------------------------------------------------------------------------
\* The inductive invariant of the outcomes: who was created, that the metrics
\* come before the status, and that a new status is kept by a call to tell it.
THEOREM OutcomesHold == Spec => []OutcomeInv
  <1>1. IInv /\ InputsKept /\ OutcomeInv /\ [Next]_vars /\ InputsKept' => OutcomeInv'
    BY OutcomeStep
  <1> QED
    BY <1>1, InitOutcome, ExecutorInvariant, ExecutorUsesStore, InputsAreKept, PTL DEF Spec

\* CompletedHasMetrics: whatever stops, restarts and sweeps interleave with the
\* worker, a run that is not a batch search is not COMPLETED without metrics.
THEOREM MetricsBeforeCompletion == Spec => []CompletedHasMetrics
  <1>1. OutcomeInv => CompletedHasMetrics
    BY DEF OutcomeInv, Measured, CompletedHasMetrics
  <1> QED BY <1>1, OutcomesHold, PTL

\* FinalStatusReported: the last status of a run with a callback, neither online
\* nor a candidate, is told or will be.
THEOREM FinalStatusTold == Spec => []FinalStatusReported
  <1>1. OutcomeInv => FinalStatusReported
    BY DEF OutcomeInv, FinalStatusReported
  <1> QED BY <1>1, OutcomesHold, PTL

\* CallbacksSound: no notification meets a missing input, and none is forgotten.
THEOREM CallbacksStaySound == Spec => []CallbacksSound
  BY NeverNilInput, FinalStatusTold, PTL DEF CallbacksSound
=============================================================================
