-------------------------- MODULE RunExecutorProofs --------------------------
(***************************************************************************)
(* Theorems about RunExecutor, for every set of runs and of calls.  The    *)
(* inductive part is done once: a lemma per kind of action shows that the  *)
(* step is a step of the store, keeps the types and the targets of the     *)
(* calls, and changes the maps and the contexts in one of five ways        *)
(* (Control).  The invariants then follow from that summary.               *)
(***************************************************************************)
EXTENDS RunExecutor, RunStoreProofs

\* The run a call or a goroutine works on, where the code relies on it.
Targets ==
  /\ \A c \in Calls : pc[c] \notin CallPCs => tgt[c] \in Runs
  /\ \A c \in Starts : watch[c] # "off" => tgt[c] \in Runs
  /\ \A c \in Starts : pc[c] \in {"searching", "trimming"} => tgt[c] \in BatchRuns
  /\ \A c \in Starts : pc[c] = "trimming" => rec[c].best \in Children \cup {None}

\* A call that is about to deliver a callback holds a record with an input.
Delivering ==
  \A c \in Calls : pc[c] = "deliver" => rec[c].input # "nil" /\ tgt[c] \in CallbackRuns

IInv == TypeOK /\ Targets /\ Delivering

\* The ways in which a step changes the maps, the contexts and the workers.
Quiet ==
  /\ UNCHANGED <<cancels, registry>>
  /\ ctxDone \subseteq ctxDone'
Control ==
  \* no call becomes, or ceases to be, a worker that owes its cleanup
  \/ /\ Quiet
     /\ \A c \in Starts : /\ Live(c)' <=> Live(c)
                          /\ Live(c) => tgt'[c] = tgt[c]
                          /\ pc'[c] = "exited" => pc[c] = "exited"
  \* a worker is launched
  \/ \E c \in Starts :
       /\ ~Live(c) /\ Live(c)'
       /\ UNCHANGED <<registry, tgt>>
       /\ cancels' = [cancels EXCEPT ![tgt[c]] = c]
       /\ ctxDone' = ctxDone \cup ({cancels[tgt[c]]} \ {None})
       /\ \A d \in Calls \ {c} : pc'[d] = pc[d]
  \* a worker registers
  \/ \E c \in Starts :
       /\ Live(c) /\ Live(c)'
       /\ UNCHANGED <<cancels, tgt, ctxDone>>
       /\ registry' = [registry EXCEPT ![tgt[c]] = c]
       /\ \A d \in Calls \ {c} : pc'[d] = pc[d]
  \* a worker cleans up
  \/ \E c \in Starts :
       /\ Live(c) /\ pc'[c] = "exited"
       /\ UNCHANGED tgt
       /\ cancels' = [cancels EXCEPT ![tgt[c]] = None]
       /\ registry' = [registry EXCEPT ![tgt[c]] = None]
       /\ ctxDone' = ctxDone \cup ({cancels[tgt[c]]} \ {None})
       /\ \A d \in Calls \ {c} : pc'[d] = pc[d]
  \* a worker meets a record without input
  \/ \E c \in Calls : pc'[c] = "panicked" /\ pc[c] # "panicked"

Shape ==
  /\ [StoreNext]_storeVars
  /\ IInv'
  /\ Control
  /\ \A c \in Calls : (pc'[c] = "panicked" /\ pc[c] # "panicked") =>
       /\ pc[c] = "deliver" /\ Present(tgt[c]) /\ runs[tgt[c]].input = "nil"

-----------------------------------------------------------------------------
\* The initial state.
LEMMA InitIInv == Init => IInv
  <1> SUFFICES ASSUME Init PROVE IInv
    OBVIOUS
  <1>1. StoreTypeOK
    BY StoreConstants, NoRecordType DEF Init, StoreInit, StoreTypeOK
  <1>2. TypeOK
    BY <1>1, NoRecordType DEF Init, TypeOK, PCs, CallPCs
  <1>3. Targets /\ Delivering
    BY DEF Init, Targets, Delivering, CallPCs, Calls
  <1> QED BY <1>2, <1>3 DEF IInv

\* A step of the store keeps its types.
LEMMA StoreKeepsTypes ==
  ASSUME StoreTypeOK, [StoreNext]_storeVars
  PROVE  StoreTypeOK'
  BY StepHasShape DEF StepShape

\* A call or a worker that is not about to deliver, launch, register or exit.
LEMMA MoveShape ==
  ASSUME IInv, [StoreNext]_storeVars,
         NEW c \in Calls, NEW l \in PCs,
         pc[c] \notin CallPCs, l \notin {"exited", "panicked", "deliver", "searching", "trimming"},
         c \in Starts => (Live(c) <=> l \in WorkerPCs \cup NotifyPCs),
         pc' = [pc EXCEPT ![c] = l],
         rec' \in [Calls -> RunRecord],
         \A d \in Calls \ {c} : rec'[d] = rec[d],
         mapVars' = mapVars, callbacks' = callbacks,
         ctxDone' \in SUBSET Starts, ctxDone \subseteq ctxDone',
         held' \in [Calls -> Starts \cup {None}],
         UNCHANGED <<tgt, graceful, watch>>
  PROVE  Shape
  <1>1. StoreTypeOK'
    BY StoreKeepsTypes DEF IInv, TypeOK
  <1>2. TypeOK'
    BY <1>1 DEF IInv, TypeOK, mapVars
  <1>3. Targets'
    BY DEF IInv, TypeOK, Targets, Calls
  <1>4. Delivering'
    BY DEF IInv, TypeOK, Delivering
  <1>5. Control
    BY DEF IInv, TypeOK, Control, Quiet, Live, mapVars, Calls
  <1>6. \A d \in Calls : pc'[d] = "panicked" => pc[d] = "panicked"
    BY DEF IInv, TypeOK
  <1> QED BY <1>2, <1>3, <1>4, <1>5, <1>6 DEF Shape, IInv

\* A call that has not begun yet, or begins.
LEMMA BeginShape ==
  ASSUME IInv, [StoreNext]_storeVars,
         NEW c \in Calls, NEW l \in {"validating", "cancelling", "renewing", "returned"},
         NEW r \in Runs,
         pc[c] = "idle",
         pc' = [pc EXCEPT ![c] = l],
         tgt' = [tgt EXCEPT ![c] = r] \/ (l = "returned" /\ tgt' = tgt),
         rec' \in [Calls -> RunRecord],
         \A d \in Calls \ {c} : rec'[d] = rec[d],
         mapVars' = mapVars, callbacks' = callbacks, ctxDone' = ctxDone,
         held' \in [Calls -> Starts \cup {None}],
         UNCHANGED <<graceful, watch>>
  PROVE  Shape
  <1>1. StoreTypeOK'
    BY StoreKeepsTypes DEF IInv, TypeOK
  <1>2. TypeOK'
    BY <1>1 DEF IInv, TypeOK, mapVars, PCs, CallPCs, StartPCs, StopPCs, RenewPCs
  <1>3. Targets'
    BY DEF IInv, TypeOK, Targets, Calls, CallPCs
  <1>4. Delivering'
    BY DEF IInv, TypeOK, Delivering
  <1>5. Control
    <2>1. \A d \in Starts : /\ Live(d)' <=> Live(d)
                            /\ Live(d) => tgt'[d] = tgt[d]
                            /\ pc'[d] = "exited" => pc[d] = "exited"
      BY DEF IInv, TypeOK, Live, Calls, WorkerPCs, NotifyPCs
    <2> QED BY <2>1 DEF Control, Quiet, mapVars
  <1>6. \A d \in Calls : pc'[d] = "panicked" => pc[d] = "panicked"
    BY DEF IInv, TypeOK
  <1> QED BY <1>2, <1>3, <1>4, <1>5, <1>6 DEF Shape, IInv

\* Start.
LEMMA StartShape ==
  ASSUME IInv, NEW c \in Starts, StartStep(c)
  PROVE  Shape
  <1> USE DEF IInv, TypeOK
  <1>0. c \in Calls
    BY DEF Calls
  <1>1. ASSUME NEW r \in Runs, StartAdmits(c, r)
        PROVE  Shape
    <2>1. [StoreNext]_storeVars
      BY <1>1 DEF StartAdmits, StoreNext
    <2>2. rec' \in [Calls -> RunRecord] /\ \A d \in Calls \ {c} : rec'[d] = rec[d]
      BY <1>0, <1>1, <2>1, StoreKeepsTypes DEF StartAdmits, Keep, StoreTypeOK
    <2> QED
      BY <1>0, <1>1, <2>1, <2>2, BeginShape DEF StartAdmits, Goto, OnlyThreads
  <1>2. ASSUME NEW r \in Runs, StartRejects(c, r)
        PROVE  Shape
    BY <1>0, <1>2, BeginShape DEF StartRejects, Goto, OnlyThreads, threadVars
  <1>3. CASE StartFails(c)
    <2>1. tgt[c] \in Runs
      BY <1>0, <1>3 DEF StartFails, Targets, CallPCs
    <2>2. [StoreNext]_storeVars
      BY <1>3, <2>1 DEF StartFails, StoreNext, Logged, Written
    <2>3. rec' \in [Calls -> RunRecord] /\ \A d \in Calls \ {c} : rec'[d] = rec[d]
      BY <1>0, <1>3, NoRecordType DEF StartFails
    <2>4. "returned" \in PCs /\ pc[c] \notin CallPCs /\ ~Live(c)
          /\ "returned" \notin WorkerPCs \cup NotifyPCs
      BY <1>3 DEF StartFails, PCs, CallPCs, Live, WorkerPCs, NotifyPCs
    <2> QED
      BY <1>0, <1>3, <2>2, <2>3, <2>4, MoveShape DEF StartFails, Goto, OnlyThreads
  <1>4. CASE StartLaunches(c)
    <2>1. tgt[c] \in Runs
      BY <1>0, <1>4 DEF StartLaunches, Targets, CallPCs
    <2>2. [StoreNext]_storeVars /\ StoreTypeOK'
      BY <1>4 DEF StartLaunches, storeVars, StoreTypeOK
    <2>3. TypeOK'
      BY <1>0, <1>4, <2>1, <2>2, NoRecordType DEF StartLaunches, Cancel, Goto, PCs, WorkerPCs
    <2>4. Targets'
      BY <1>0, <1>4, <2>1 DEF StartLaunches, Goto, Targets, Calls, CallPCs
    <2>5. Delivering'
      BY <1>0, <1>4 DEF StartLaunches, Goto, Delivering
    <2>6. ~Live(c) /\ Live(c)' /\ \A d \in Calls \ {c} : pc'[d] = pc[d]
      BY <1>0, <1>4 DEF StartLaunches, Goto, Live, WorkerPCs, NotifyPCs
    <2>7. Control
      BY <1>4, <2>6 DEF StartLaunches, Control, Cancel
    <2>8. \A d \in Calls : pc'[d] = "panicked" => pc[d] = "panicked"
      BY <1>0, <1>4 DEF StartLaunches, Goto
    <2> QED BY <2>2, <2>3, <2>4, <2>5, <2>7, <2>8 DEF Shape
  <1> QED BY <1>1, <1>2, <1>3, <1>4 DEF StartStep

\* The final configuration is stored by one operation of the store, or not.
LEMMA SnapshotStep ==
  ASSUME NEW r \in Runs, Snapshot(r)
  PROVE  [StoreNext]_storeVars
  BY DEF Snapshot, Logged, StoreNext

\* The notification, by a worker or by a Stop call.
LEMMA NotifyShape ==
  ASSUME IInv, NEW c \in Starts \cup Stops, NotifyStep(c)
  PROVE  Shape
  <1> USE DEF IInv, TypeOK
  <1>0. c \in Calls /\ pc[c] \in NotifyPCs /\ pc[c] \notin CallPCs /\ tgt[c] \in Runs
    BY DEF NotifyStep, NotifyPrepares, NotifyDelivers, Targets, Calls, NotifyPCs, CallPCs
  <1>1. /\ AfterNotify(c) \in PCs
        /\ AfterNotify(c) \notin {"exited", "panicked", "deliver", "searching", "trimming"}
        /\ c \in Starts => (Live(c) <=> AfterNotify(c) \in WorkerPCs \cup NotifyPCs)
    BY <1>0 DEF AfterNotify, PCs, CallPCs, WorkerPCs, NotifyPCs, Live
  <1>2. CASE NotifyPrepares(c) /\ rec[c].input # "nil" /\ tgt[c] \in CallbackRuns
    <2>1. [StoreNext]_storeVars
      BY <1>0, <1>2, SnapshotStep DEF NotifyPrepares
    <2>2. StoreTypeOK'
      BY <2>1, StoreKeepsTypes
    <2>3. TypeOK'
      BY <1>0, <1>2, <2>2 DEF NotifyPrepares, Goto, OnlyThreads, mapVars, PCs, NotifyPCs
    <2>4. Targets'
      BY <1>0, <1>2 DEF NotifyPrepares, Goto, Targets, Calls
    <2>5. Delivering'
      BY <1>0, <1>2 DEF NotifyPrepares, Goto, Delivering
    <2>6. Control
      BY <1>0, <1>2 DEF NotifyPrepares, Goto, OnlyThreads, mapVars, Control, Quiet, Live, NotifyPCs, Calls
    <2>7. \A d \in Calls : pc'[d] = "panicked" => pc[d] = "panicked"
      BY <1>0, <1>2 DEF NotifyPrepares, Goto
    <2> QED BY <2>1, <2>3, <2>4, <2>5, <2>6, <2>7 DEF Shape
  <1>3. CASE NotifyPrepares(c) /\ ~(rec[c].input # "nil" /\ tgt[c] \in CallbackRuns)
    <2>1. rec' \in [Calls -> RunRecord] /\ \A d \in Calls \ {c} : rec'[d] = rec[d]
      BY <1>0, <1>3, NoRecordType DEF NotifyPrepares
    <2>2. ctxDone' \in SUBSET Starts /\ ctxDone \subseteq ctxDone'
      BY <1>3 DEF NotifyPrepares, OnlyThreads
    <2> QED
      BY <1>0, <1>1, <1>3, <2>1, <2>2, MoveShape DEF NotifyPrepares, Goto, OnlyThreads, storeVars
  <1>4. CASE NotifyDelivers(c)
    <2> DEFINE latest == IF Present(tgt[c]) THEN runs[tgt[c]] ELSE rec[c]
               note == [status |-> latest.status, metrics |-> "metrics" \in latest.parts]
    <2>1. /\ pc[c] = "deliver"
          /\ rec' = [rec EXCEPT ![c] = NoRecord]
          /\ UNCHANGED <<storeVars, mapVars, ctxDone, tgt, held, graceful, watch>>
      BY <1>4 DEF NotifyDelivers
    <2>2. \/ /\ latest.input = "nil" /\ pc' = [pc EXCEPT ![c] = "panicked"]
             /\ UNCHANGED callbacks
          \/ /\ pc' = [pc EXCEPT ![c] = AfterNotify(c)]
             /\ callbacks' = [callbacks EXCEPT ![tgt[c]] = Append(callbacks[tgt[c]], note)]
      BY <1>4 DEF NotifyDelivers, Goto
    <2>3. latest \in RunRecord
      BY <1>0 DEF StoreTypeOK
    <2> HIDE DEF latest
    <2>4. note \in Callback
      BY <2>3 DEF Callback, RunRecord
    <2>5. callbacks' \in [Runs -> Seq(Callback)]
      <3>1. Append(callbacks[tgt[c]], note) \in Seq(Callback)
        BY <1>0, <2>4
      <3> HIDE DEF note
      <3> QED BY <1>0, <2>2, <3>1
    <2>6. StoreTypeOK' /\ [StoreNext]_storeVars
      BY <2>1 DEF storeVars, StoreTypeOK
    <2>7. pc' \in [Calls -> PCs]
      BY <1>0, <1>1, <2>2 DEF PCs
    <2>8. rec' \in [Calls -> RunRecord] /\ \A d \in Calls \ {c} : rec'[d] = rec[d]
      BY <1>0, <2>1, NoRecordType
    <2>9. TypeOK'
      BY <2>1, <2>5, <2>6, <2>7, <2>8 DEF mapVars
    <2>10. Targets'
      <3>1. \A d \in Calls \ {c} : pc'[d] = pc[d]
        BY <1>0, <2>2
      <3>2. pc'[c] \notin {"searching", "trimming"}
        BY <1>0, <1>1, <2>2
      <3>3. UNCHANGED <<tgt, watch>>
        BY <2>1
      <3> QED BY <1>0, <2>8, <3>1, <3>2, <3>3 DEF Targets, Calls
    <2>11. Delivering'
      BY <1>0, <1>1, <2>1, <2>2, <2>8 DEF Delivering
    <2>12. Control
      <3>1. CASE pc' = [pc EXCEPT ![c] = AfterNotify(c)]
        BY <1>0, <1>1, <2>1, <3>1 DEF Control, Quiet, Live, mapVars, Calls
      <3>2. CASE pc' = [pc EXCEPT ![c] = "panicked"]
        BY <1>0, <2>1, <3>2 DEF Control
      <3> QED BY <2>2, <3>1, <3>2
    <2>13. ASSUME NEW d \in Calls, pc'[d] = "panicked", pc[d] # "panicked"
           PROVE  pc[d] = "deliver" /\ Present(tgt[d]) /\ runs[tgt[d]].input = "nil"
      <3>1. d = c /\ latest.input = "nil"
        BY <1>0, <1>1, <2>2, <2>13
      <3>2. rec[c].input # "nil"
        BY <1>0, <2>1 DEF Delivering
      <3> QED BY <2>1, <3>1, <3>2 DEF latest
    <2> QED BY <2>6, <2>9, <2>10, <2>11, <2>12, <2>13 DEF Shape
  <1> QED BY <1>2, <1>3, <1>4 DEF NotifyStep

\* Stop.
LEMMA StopShape ==
  ASSUME IInv, NEW c \in Stops, StopStep(c)
  PROVE  Shape
  <1> USE DEF IInv, TypeOK
  <1>0. c \in Calls /\ c \notin Starts
    BY ExecutorConstants DEF Calls
  <1>1. ASSUME NEW r \in Runs, StopReads(c, r)
        PROVE  Shape
    <2>1. held' \in [Calls -> Starts \cup {None}]
      BY <1>0, <1>1 DEF StopReads
    <2> QED BY <1>0, <1>1, <2>1, BeginShape DEF StopReads, Goto, OnlyThreads
  <1>2. CASE StopCancels(c)
    <2>1. "stopping" \in PCs /\ pc[c] \notin CallPCs
      BY <1>2 DEF StopCancels, PCs, StopPCs, CallPCs
    <2>2. /\ held' \in [Calls -> Starts \cup {None}]
          /\ ctxDone' \in SUBSET Starts /\ ctxDone \subseteq ctxDone'
      BY <1>0, <1>2 DEF StopCancels, Cancel
    <2> QED BY <1>0, <1>2, <2>1, <2>2, MoveShape DEF StopCancels, Goto, storeVars
  <1>3. CASE StopMarks(c)
    <2>1. tgt[c] \in Runs /\ pc[c] \notin CallPCs
      BY <1>0, <1>3 DEF StopMarks, Targets, CallPCs
    <2>2. [StoreNext]_storeVars
      BY <1>3, <2>1 DEF StopMarks, StoreNext, Written, storeVars
    <2>3. rec' \in [Calls -> RunRecord] /\ \A d \in Calls \ {c} : rec'[d] = rec[d]
      <3>1. runs'[tgt[c]] \in RunRecord
        BY <2>1, <2>2, StoreKeepsTypes DEF StoreTypeOK
      <3>2. rec' = rec \/ rec' = [rec EXCEPT ![c] = runs'[tgt[c]]]
        BY <1>3 DEF StopMarks, Keep
      <3> HIDE DEF StoreTypeOK
      <3> QED BY <1>0, <3>1, <3>2
    <2>4. "stopped" \in PCs /\ "returned" \in PCs
      BY DEF PCs, StopPCs, CallPCs
    <2>5. PICK l \in {"stopped", "returned"} : pc' = [pc EXCEPT ![c] = l]
      BY <1>3 DEF StopMarks, Goto
    <2> QED BY <1>0, <1>3, <2>1, <2>2, <2>3, <2>4, <2>5, MoveShape DEF StopMarks, OnlyThreads
  <1>4. CASE StopSnapshots(c)
    <2>1. tgt[c] \in Runs /\ pc[c] \notin CallPCs
      BY <1>0, <1>4 DEF StopSnapshots, Targets, CallPCs
    <2>2. [StoreNext]_storeVars
      BY <1>4, <2>1, SnapshotStep DEF StopSnapshots
    <2>3. rec' \in [Calls -> RunRecord] /\ \A d \in Calls \ {c} : rec'[d] = rec[d]
      BY <1>0, <1>4, NoRecordType DEF StopSnapshots
    <2>4. "notify" \in PCs /\ "returned" \in PCs
      BY DEF PCs, NotifyPCs, CallPCs
    <2>5. PICK l \in {"notify", "returned"} : pc' = [pc EXCEPT ![c] = l]
      BY <1>4 DEF StopSnapshots, Goto
    <2> QED BY <1>0, <1>4, <2>1, <2>2, <2>3, <2>4, <2>5, MoveShape DEF StopSnapshots, OnlyThreads
  <1>5. CASE NotifyStep(c)
    BY <1>5, NotifyShape
  <1> QED BY <1>1, <1>2, <1>3, <1>4, <1>5 DEF StopStep, StopProceeds

\* A step that leaves the calls, e.cancels and the registry alone.
LEMMA AsideShape ==
  ASSUME IInv, [StoreNext]_storeVars, TypeOK',
         UNCHANGED <<cancels, registry, pc, tgt, rec>>,
         ctxDone \subseteq ctxDone',
         \A c \in Starts : watch'[c] # "off" => tgt[c] \in Runs
  PROVE  Shape
  <1>1. Targets'
    BY DEF IInv, Targets
  <1>2. Delivering'
    BY DEF IInv, Delivering
  <1>3. Control
    BY DEF Control, Quiet, Live
  <1> QED BY <1>1, <1>2, <1>3 DEF Shape, IInv

\* RenewOnlineLease.
LEMMA RenewShape ==
  ASSUME IInv, NEW c \in Renews, RenewStep(c)
  PROVE  Shape
  <1> USE DEF IInv, TypeOK
  <1>0. c \in Calls /\ c \notin Starts
    BY ExecutorConstants DEF Calls
  <1>1. ASSUME NEW r \in Runs, RenewChecks(c, r)
        PROVE  Shape
    BY <1>0, <1>1, BeginShape DEF RenewChecks, Goto, OnlyThreads, storeVars
  <1>2. CASE RenewExtends(c)
    <2>1. /\ pc[c] = "renewing" /\ tgt[c] \in Runs
          /\ pc' = [pc EXCEPT ![c] = "returned"]
          /\ lease' = [lease EXCEPT ![tgt[c]] = "live"]
          /\ UNCHANGED <<storeVars, cancels, registry, reason, ctxDone, threadVars, callbacks>>
      BY <1>0, <1>2 DEF RenewExtends, Goto, Targets, CallPCs
    <2>2. StoreTypeOK' /\ [StoreNext]_storeVars
      BY <2>1 DEF storeVars, StoreTypeOK
    <2>3. TypeOK'
      BY <1>0, <2>1, <2>2 DEF threadVars, PCs, CallPCs
    <2>4. Targets' /\ Delivering'
      BY <1>0, <2>1 DEF threadVars, Targets, Delivering, Calls, CallPCs
    <2>5. Control
      BY <1>0, <2>1 DEF threadVars, Control, Quiet, Live, Calls
    <2>6. \A d \in Calls : pc'[d] = "panicked" => pc[d] = "panicked"
      BY <1>0, <2>1
    <2> QED BY <2>2, <2>3, <2>4, <2>5, <2>6 DEF Shape
  <1> QED BY <1>1, <1>2 DEF RenewStep

\* The goroutines that watch an online run.
LEMMA WatchShape ==
  ASSUME IInv, NEW c \in Starts, WatchStep(c)
  PROVE  Shape
  <1> USE DEF IInv, TypeOK
  <1>0. c \in Calls /\ watch[c] # "off" /\ tgt[c] \in Runs
    BY DEF Calls, WatchStep, WatchTrips, WatchSignals, WatchCancels, WatchEnds, WatchAppendsStep, Targets
  <1>1. [StoreNext]_storeVars
    BY <1>0 DEF WatchStep, WatchTrips, WatchSignals, WatchCancels, WatchEnds, WatchAppendsStep,
       Logged, StoreNext, storeVars
  <1>2. StoreTypeOK'
    BY <1>1, StoreKeepsTypes
  <1>3. /\ UNCHANGED <<cancels, registry, lease, pc, tgt, rec, graceful, callbacks>>
        /\ ctxDone \subseteq ctxDone'
    BY DEF WatchStep, WatchTrips, WatchSignals, WatchCancels, WatchEnds, WatchAppendsStep,
       Cancel, OnlyThreads, mapVars, threadVars
  <1>4. ctxDone' \in SUBSET Starts /\ held' \in [Calls -> Starts \cup {None}]
    <2>1. cancels[tgt[c]] \in Starts \cup {None} /\ held[c] \in Starts \cup {None}
      BY <1>0
    <2>2. \/ held' = held
          \/ held' = [held EXCEPT ![c] = cancels[tgt[c]]]
          \/ held' = [held EXCEPT ![c] = None]
      BY DEF WatchStep, WatchTrips, WatchSignals, WatchCancels, WatchEnds, WatchAppendsStep, threadVars
    <2>3. ctxDone' = ctxDone \/ ctxDone' = ctxDone \cup ({held[c]} \ {None})
      BY DEF WatchStep, WatchTrips, WatchSignals, WatchCancels, WatchEnds, WatchAppendsStep,
         Cancel, OnlyThreads
    <2>4. held' \in [Calls -> Starts \cup {None}]
      BY <1>0, <2>1, <2>2
    <2> QED BY <2>1, <2>3, <2>4
  <1>5. reason' \in [Runs -> BOOLEAN]
    BY <1>0 DEF WatchStep, WatchTrips, WatchSignals, WatchCancels, WatchEnds, WatchAppendsStep,
       OnlyThreads, mapVars
  <1>6. watch' \in [Starts -> {"off", "armed", "tripped", "signalling"}]
    BY DEF WatchStep, WatchTrips, WatchSignals, WatchCancels, WatchEnds, WatchAppendsStep,
       threadVars
  <1>7. \A d \in Starts : watch'[d] # "off" => tgt[d] \in Runs
    BY <1>0 DEF WatchStep, WatchTrips, WatchSignals, WatchCancels, WatchEnds, WatchAppendsStep,
       threadVars, Targets
  <1>8. TypeOK'
    BY <1>2, <1>3, <1>4, <1>5, <1>6
  <1> QED BY <1>1, <1>3, <1>7, <1>8, AsideShape

\* What goes on without the executor.
LEMMA OutsideShape ==
  ASSUME IInv, StoreStep \/ (\E r \in Runs : LeaseLapses(r)) \/ UNCHANGED vars
  PROVE  Shape
  <1> USE DEF IInv, TypeOK
  <1>1. [StoreNext]_storeVars
    BY DEF StoreStep, LeaseLapses, StoreNext, storeVars, vars
  <1>2. StoreTypeOK'
    BY <1>1, StoreKeepsTypes
  <1>3. /\ UNCHANGED <<cancels, registry, reason, ctxDone, pc, tgt, rec, held, graceful, watch, callbacks>>
        /\ lease' \in [Runs -> {"none", "live", "expired"}]
    BY DEF StoreStep, LeaseLapses, execVars, threadVars, vars
  <1>4. TypeOK'
    BY <1>2, <1>3
  <1>5. \A d \in Starts : watch'[d] # "off" => tgt[d] \in Runs
    BY <1>3 DEF Targets
  <1> QED BY <1>1, <1>3, <1>4, <1>5, AsideShape

\* A worker that goes on, and changes no more than its own state and the
\* entries of its run in e.onlineCompletionReason and e.onlineLeaseDeadline.
LEMMA StrideShape ==
  ASSUME IInv, [StoreNext]_storeVars,
         NEW c \in Starts, NEW l \in WorkerPCs \cup {"notify"},
         pc[c] \in WorkerPCs,
         pc' = [pc EXCEPT ![c] = l],
         l \in {"searching", "trimming"} => tgt[c] \in BatchRuns,
         rec' \in [Calls -> RunRecord],
         \A d \in Calls \ {c} : rec'[d] = rec[d],
         l = "trimming" => rec'[c].best \in Children \cup {None},
         reason' \in [Runs -> BOOLEAN],
         lease' \in [Runs -> {"none", "live", "expired"}],
         graceful' \in [Starts -> BOOLEAN],
         watch' \in [Starts -> {"off", "armed", "tripped", "signalling"}],
         \A d \in Starts \ {c} : watch'[d] = watch[d],
         UNCHANGED <<cancels, registry, ctxDone, tgt, held, callbacks>>
  PROVE  Shape
  <1>0. c \in Calls /\ l \in PCs /\ l \notin {"exited", "panicked", "deliver"} /\ pc[c] \notin CallPCs
    <2>1. c \in Calls /\ l \in PCs
      BY DEF Calls, PCs, NotifyPCs
    <2>2. l \notin {"exited", "panicked", "deliver"}
      BY DEF WorkerPCs
    <2>3. pc[c] \notin CallPCs
      BY DEF WorkerPCs, CallPCs
    <2> QED BY <2>1, <2>2, <2>3
  <1>1. StoreTypeOK'
    BY StoreKeepsTypes DEF IInv, TypeOK
  <1>2. TypeOK'
    BY <1>0, <1>1 DEF IInv, TypeOK
  <1>3. Targets'
    BY <1>0 DEF IInv, TypeOK, Targets, Calls
  <1>4. Delivering'
    BY <1>0 DEF IInv, TypeOK, Delivering
  <1>5. \A d \in Starts : /\ Live(d)' <=> Live(d)
                          /\ pc'[d] = "exited" => pc[d] = "exited"
    BY <1>0 DEF IInv, TypeOK, Live, NotifyPCs, Calls
  <1>6. Control
    BY <1>5 DEF Control, Quiet
  <1>7. \A d \in Calls : pc'[d] = "panicked" => pc[d] = "panicked"
    BY <1>0 DEF IInv, TypeOK
  <1> QED BY <1>2, <1>3, <1>4, <1>6, <1>7 DEF Shape, IInv

\* The same when it changes no map either, which is the rule.
LEMMA WorkerMoves ==
  ASSUME IInv, [StoreNext]_storeVars,
         NEW c \in Starts, NEW l \in (WorkerPCs \ {"searching", "trimming"}) \cup {"notify"},
         pc[c] \in WorkerPCs,
         Goto(c, l),
         rec' \in [Calls -> RunRecord],
         \A d \in Calls \ {c} : rec'[d] = rec[d],
         OnlyThreads, UNCHANGED <<tgt, held, graceful, watch>>
  PROVE  Shape
  BY StrideShape DEF IInv, TypeOK, Goto, OnlyThreads, mapVars

\* A record stays one when a candidate is added to it.
LEMMA EvaluatedType ==
  ASSUME NEW x \in RunRecord, NEW k \in Runs
  PROVE  [x EXCEPT !.candidates = @ \cup {k}] \in RunRecord
  BY DEF RunRecord

\* The steps of a worker.
LEMMA WorkerShape ==
  ASSUME IInv, NEW c \in Starts, WorkerStep(c)
  PROVE  Shape
  <1> USE DEF IInv, TypeOK
  <1> DEFINE Plain == (WorkerPCs \ {"searching", "trimming"}) \cup {"notify"}
             Local(x) == rec' = [rec EXCEPT ![c] = x]
  <1>0. c \in Calls
    BY DEF Calls
  <1>1. ASSUME pc[c] \in WorkerPCs
        PROVE  tgt[c] \in Runs
    BY <1>0, <1>1 DEF Targets, WorkerPCs, CallPCs
  <1>2. ASSUME NEW x \in RunRecord, Local(x)
        PROVE  rec' \in [Calls -> RunRecord] /\ \A d \in Calls \ {c} : rec'[d] = rec[d]
    BY <1>0, <1>2
  <1>3. CASE \/ WorkerStoresCollector(c) \/ WorkerStoresFinalMetrics(c) \/ WorkerStoresFinalResult(c)
             \/ WorkerStoresMetrics(c) \/ WorkerStoresReason(c) \/ WorkerStoresResult(c)
             \/ SearchTrims(c) \/ SearchStoresMetrics(c)
    <2> USE <1>3 DEF WorkerStoresCollector, WorkerStoresFinalMetrics, WorkerStoresFinalResult,
             WorkerStoresMetrics, WorkerStoresReason, WorkerStoresResult, SearchTrims,
             SearchStoresMetrics, WorkerStores
    <2>1. pc[c] \in WorkerPCs
      BY DEF WorkerPCs
    <2>2. tgt[c] \in Runs /\ (pc[c] = "trimming" => tgt[c] \in BatchRuns /\ rec[c].best \in Children \cup {None})
      BY <1>1, <2>1 DEF Targets
    <2>3. [StoreNext]_storeVars
      BY <2>2 DEF Logged, StoreNext
    <2>4. PICK l \in Plain : Goto(c, l)
      BY DEF WorkerPCs
    <2>5. OnlyThreads /\ UNCHANGED threadVars
      OBVIOUS
    <2> QED BY <2>1, <2>3, <2>4, <2>5, WorkerMoves DEF threadVars
  <1>4. CASE WorkerFails(c) \/ WorkerCompletes(c)
    <2> USE <1>4 DEF WorkerFails, WorkerCompletes, WorkerEnds
    <2>1. pc[c] \in WorkerPCs
      BY DEF WorkerPCs
    <2>2. tgt[c] \in Runs
      BY <1>1, <2>1
    <2>3. [StoreNext]_storeVars
      BY <2>2 DEF StoreNext, Written
    <2>4. rec' \in [Calls -> RunRecord] /\ \A d \in Calls \ {c} : rec'[d] = rec[d]
      BY <1>0, <2>2, <2>3, StoreKeepsTypes DEF Keep, StoreTypeOK
    <2>5. PICK l \in Plain : Goto(c, l)
      BY DEF WorkerPCs
    <2> QED BY <2>1, <2>3, <2>4, <2>5, WorkerMoves
  <1>5. CASE WorkerSnapshots(c)
    <2>1. pc[c] \in WorkerPCs /\ "completing" \in Plain
      BY <1>5 DEF WorkerSnapshots, WorkerPCs
    <2>2. [StoreNext]_storeVars
      BY <1>1, <1>5, <2>1, SnapshotStep DEF WorkerSnapshots
    <2> QED BY <1>5, <2>1, <2>2, WorkerMoves DEF WorkerSnapshots, threadVars
  <1>6. CASE \/ WorkerBuildFails(c) \/ EngineReturns(c) \/ WorkerFindsFailure(c)
             \/ WorkerChecksRunning(c)
    <2> USE <1>6 DEF WorkerBuildFails, EngineReturns, WorkerFindsFailure, WorkerChecksRunning
    <2>1. pc[c] \in WorkerPCs
      BY DEF WorkerPCs
    <2>2. PICK l \in Plain : Goto(c, l)
      BY DEF WorkerPCs
    <2>3. OnlyThreads /\ UNCHANGED <<storeVars, threadVars>>
      OBVIOUS
    <2> QED BY <2>1, <2>2, <2>3, WorkerMoves DEF threadVars
  <1>7. CASE \/ WorkerFindsCancelled(c) \/ WorkerRereads(c) \/ SearchFails(c) \/ SearchCancelled(c)
             \/ SearchReadsBest(c)
    <2> USE <1>7 DEF WorkerFindsCancelled, WorkerRereads, SearchFails, SearchCancelled, SearchReadsBest
    <2>1. pc[c] \in WorkerPCs
      BY DEF WorkerPCs
    <2>2. Local(runs[tgt[c]]) \/ Local(NoRecord)
      OBVIOUS
    <2>3. rec' \in [Calls -> RunRecord] /\ \A d \in Calls \ {c} : rec'[d] = rec[d]
      BY <1>1, <1>2, <2>1, <2>2, NoRecordType DEF StoreTypeOK
    <2>4. PICK l \in Plain : Goto(c, l)
      BY DEF WorkerPCs
    <2>5. OnlyThreads /\ UNCHANGED <<storeVars, tgt, held, graceful, watch>>
      OBVIOUS
    <2> QED BY <2>1, <2>3, <2>4, <2>5, WorkerMoves
  <1>8. CASE WorkerLoads(c)
    <2> USE <1>8 DEF WorkerLoads
    <2>1. pc[c] \in WorkerPCs
      BY DEF WorkerPCs
    <2>2. Local(runs[tgt[c]]) \/ Local(NoRecord)
      OBVIOUS
    <2>3. rec' \in [Calls -> RunRecord] /\ \A d \in Calls \ {c} : rec'[d] = rec[d]
      BY <1>1, <1>2, <2>1, <2>2, NoRecordType DEF StoreTypeOK
    <2>4. PICK l \in WorkerPCs : pc' = [pc EXCEPT ![c] = l] /\ l # "trimming"
                               /\ (l = "searching" => tgt[c] \in BatchRuns)
      BY DEF WorkerPCs, Goto
    <2>5. OnlyThreads /\ UNCHANGED <<storeVars, tgt, held, graceful, watch>>
      OBVIOUS
    <2> QED BY <2>1, <2>3, <2>4, <2>5, StrideShape DEF OnlyThreads, mapVars
  <1>9. CASE WorkerRegisters(c)
    <2>1. pc[c] = "wiring" /\ tgt[c] \in Runs
      BY <1>1, <1>9 DEF WorkerRegisters, WorkerPCs
    <2>2. PICK l \in {"leasing", "running"} : pc' = [pc EXCEPT ![c] = l]
      BY <1>9 DEF WorkerRegisters, Goto
    <2>3. /\ registry' = [registry EXCEPT ![tgt[c]] = c]
          /\ Local(NoRecord)
          /\ UNCHANGED <<storeVars, cancels, reason, lease, ctxDone, tgt, held, graceful, callbacks>>
          /\ watch' \in [Starts -> {"off", "armed", "tripped", "signalling"}]
          /\ \A d \in Starts \ {c} : watch'[d] = watch[d]
      BY <1>9 DEF WorkerRegisters
    <2>4. StoreTypeOK' /\ [StoreNext]_storeVars
      BY <2>3 DEF storeVars, StoreTypeOK
    <2>5. TypeOK'
      BY <1>0, <2>1, <2>2, <2>3, <2>4, NoRecordType DEF PCs, WorkerPCs
    <2>6. Targets' /\ Delivering'
      BY <1>0, <2>1, <2>2, <2>3 DEF Targets, Delivering, Calls
    <2>7. Live(c) /\ Live(c)' /\ \A d \in Calls \ {c} : pc'[d] = pc[d]
      BY <1>0, <2>1, <2>2 DEF Live, WorkerPCs
    <2>8. Control
      BY <2>3, <2>7 DEF Control
    <2>9. \A d \in Calls : pc'[d] = "panicked" => pc[d] = "panicked"
      BY <1>0, <2>2
    <2> QED BY <2>4, <2>5, <2>6, <2>8, <2>9 DEF Shape
  <1>10. CASE WorkerTakesLease(c)
    <2>1. pc[c] \in WorkerPCs /\ "running" \in WorkerPCs
      BY <1>10 DEF WorkerTakesLease, WorkerPCs
    <2>2. lease' \in [Runs -> {"none", "live", "expired"}]
      BY <1>1, <1>10, <2>1 DEF WorkerTakesLease
    <2>3. /\ watch' \in [Starts -> {"off", "armed", "tripped", "signalling"}]
          /\ \A d \in Starts \ {c} : watch'[d] = watch[d]
      BY <1>10 DEF WorkerTakesLease
    <2> QED BY <1>10, <2>1, <2>2, <2>3, StrideShape DEF WorkerTakesLease, Goto, storeVars
  <1>11. CASE WorkerTakesReason(c)
    <2>1. pc[c] \in WorkerPCs
      BY <1>11 DEF WorkerTakesReason, WorkerPCs
    <2>2. graceful' \in [Starts -> BOOLEAN] /\ reason' \in [Runs -> BOOLEAN]
      BY <1>1, <1>11, <2>1 DEF WorkerTakesReason
    <2>3. PICK l \in Plain : pc' = [pc EXCEPT ![c] = l]
      BY <1>11 DEF WorkerTakesReason, Goto, WorkerPCs
    <2> QED BY <1>11, <2>1, <2>2, <2>3, StrideShape DEF WorkerTakesReason, storeVars
  <1>12. ASSUME NEW k \in Children, SearchEvaluates(c, k)
         PROVE  Shape
    <2>1. pc[c] = "searching" /\ pc' = [pc EXCEPT ![c] = "searching"]
          /\ pc[c] \in WorkerPCs /\ tgt[c] \in BatchRuns
      BY <1>0, <1>12 DEF SearchEvaluates, WorkerPCs, Targets
    <2>2. [rec[c] EXCEPT !.candidates = @ \cup {k}] \in RunRecord
      BY <1>0, StoreConstants, EvaluatedType
    <2>3. Local([rec[c] EXCEPT !.candidates = @ \cup {k}])
      BY <1>12 DEF SearchEvaluates
    <2>4. rec' \in [Calls -> RunRecord] /\ \A d \in Calls \ {c} : rec'[d] = rec[d]
      BY <1>2, <2>2, <2>3
    <2>5. UNCHANGED <<storeVars, mapVars, ctxDone, callbacks, tgt, held, graceful, watch>>
      BY <1>12 DEF SearchEvaluates, OnlyThreads
    <2>6. [StoreNext]_storeVars
      BY <2>5
    <2>7. UNCHANGED <<cancels, registry, ctxDone, tgt, held, callbacks>>
          /\ reason' = reason /\ lease' = lease /\ graceful' = graceful /\ watch' = watch
      BY <2>5 DEF mapVars
    <2>8. /\ reason' \in [Runs -> BOOLEAN] /\ lease' \in [Runs -> {"none", "live", "expired"}]
          /\ graceful' \in [Starts -> BOOLEAN]
          /\ watch' \in [Starts -> {"off", "armed", "tripped", "signalling"}]
      BY <1>1, <2>7
    <2>9. "searching" \in WorkerPCs
      BY <2>1
    <2> QED BY <2>1, <2>4, <2>6, <2>7, <2>8, <2>9, StrideShape
  <1>13. ASSUME NEW b \in Children \cup {None}, NEW cs \in SUBSET Children, SearchSucceeds(c, b, cs)
         PROVE  Shape
    <2>1. /\ pc[c] = "searching" /\ pc[c] \in WorkerPCs /\ tgt[c] \in BatchRuns
          /\ "trimming" \in WorkerPCs
      BY <1>0, <1>13 DEF SearchSucceeds, WorkerPCs, Targets
    <2>2. [StoreNext]_storeVars
      BY <1>13, <2>1 DEF SearchSucceeds, Logged, StoreNext
    <2>3. /\ [NoRecord EXCEPT !.best = b] \in RunRecord
          /\ [NoRecord EXCEPT !.best = b].best = b
      BY StoreConstants, NoRecordType DEF RunRecord
    <2>4. Local([NoRecord EXCEPT !.best = b])
      BY <1>13 DEF SearchSucceeds
    <2>5. /\ rec' \in [Calls -> RunRecord] /\ \A d \in Calls \ {c} : rec'[d] = rec[d]
          /\ rec'[c].best \in Children \cup {None}
      BY <1>0, <1>2, <2>3, <2>4
    <2> QED BY <1>13, <2>1, <2>2, <2>5, StrideShape DEF SearchSucceeds, Goto, OnlyThreads, mapVars
  <1>14. CASE NotifyStep(c)
    BY <1>14, NotifyShape
  <1>15. CASE Cleanup(c)
    <2>1. /\ pc[c] = "cleanup" /\ tgt[c] \in Runs
          /\ pc' = [pc EXCEPT ![c] = "exited"]
          /\ cancels' = [cancels EXCEPT ![tgt[c]] = None]
          /\ registry' = [registry EXCEPT ![tgt[c]] = None]
          /\ ctxDone' = ctxDone \cup ({cancels[tgt[c]]} \ {None})
          /\ Local(NoRecord)
          /\ UNCHANGED <<storeVars, tgt, held, graceful, watch, callbacks>>
      BY <1>1, <1>15 DEF Cleanup, Forget, Goto, Cancel, WorkerPCs
    <2>2. reason' \in [Runs -> BOOLEAN] /\ lease' \in [Runs -> {"none", "live", "expired"}]
      BY <1>15, <2>1 DEF Cleanup, Forget
    <2>3. StoreTypeOK' /\ [StoreNext]_storeVars
      BY <2>1 DEF storeVars, StoreTypeOK
    <2>4. TypeOK'
      <3>1. pc' \in [Calls -> PCs] /\ rec' \in [Calls -> RunRecord]
        BY <1>0, <2>1, NoRecordType DEF PCs
      <3>2. /\ cancels' \in [Runs -> Starts \cup {None}]
            /\ registry' \in [Runs -> Starts \cup {None}]
            /\ ctxDone' \in SUBSET Starts
        BY <2>1
      <3> QED BY <2>1, <2>2, <2>3, <3>1, <3>2
    <2>5. Targets' /\ Delivering'
      BY <1>0, <2>1 DEF Targets, Delivering, Calls
    <2>6. Live(c) /\ pc'[c] = "exited" /\ \A d \in Calls \ {c} : pc'[d] = pc[d]
      BY <1>0, <2>1 DEF Live, WorkerPCs
    <2>7. Control
      BY <2>1, <2>6 DEF Control
    <2>8. \A d \in Calls : pc'[d] = "panicked" => pc[d] = "panicked"
      BY <1>0, <2>1
    <2> QED BY <2>3, <2>4, <2>5, <2>7, <2>8 DEF Shape
  <1> QED
    BY <1>3, <1>4, <1>5, <1>6, <1>7, <1>8, <1>9, <1>10, <1>11, <1>12, <1>13, <1>14, <1>15
    DEF WorkerStep

\* Every step has the shape.
LEMMA StepsHaveShape ==
  ASSUME IInv, [Next]_vars
  PROVE  Shape
  BY StartShape, StopShape, RenewShape, WatchShape, WorkerShape, OutsideShape DEF Next

-----------------------------------------------------------------------------
\* The inductive invariant: the types, the targets of the calls, and that a call
\* which delivers a callback holds an input.
THEOREM ExecutorInvariant == Spec => []IInv
  <1>1. IInv /\ [Next]_vars => IInv'
    BY StepsHaveShape DEF Shape
  <1> QED BY <1>1, InitIInv, PTL DEF Spec

\* TypeOK: the executor and its store are well typed in every state.
THEOREM TypeCorrect == Spec => []TypeOK
  BY ExecutorInvariant, PTL DEF IInv

\* StoreSpec: the executor, its workers and its watchers use the store only
\* through its operations, one at a time, so everything that is proved of the
\* store holds of the whole.
THEOREM ExecutorUsesStore == Spec => StoreSpec
  <1>1. Init => StoreInit
    BY DEF Init
  <1>2. IInv /\ [Next]_vars => [StoreNext]_storeVars
    BY StepsHaveShape DEF Shape
  <1> QED BY <1>1, <1>2, ExecutorInvariant, PTL DEF Spec, StoreSpec

\* OnlineWithinLimit, of the whole executor: no interleaving of starts, stops,
\* completions and sweeps has more online runs RUNNING than the limit.
THEOREM ExecutorKeepsOnlineLimit == Spec => []OnlineWithinLimit
  BY ExecutorUsesStore, OnlineLimitHolds, PTL

\* NoNilInput: unless a candidate has a callback, no notification finds a record
\* that has lost its input.
THEOREM NeverNilInput == Spec => []NoNilInput
  <1>1. Init => NoNilInput
    BY DEF Init, NoNilInput
  <1>2. IInv /\ InputsKept /\ NoNilInput /\ [Next]_vars => NoNilInput'
    <2> SUFFICES ASSUME IInv, InputsKept, NoNilInput, [Next]_vars, Children \cap CallbackRuns = {},
                        NEW c \in Calls, pc'[c] = "panicked"
                 PROVE  FALSE
      BY DEF NoNilInput
    <2>1. pc[c] = "deliver" /\ Present(tgt[c]) /\ runs[tgt[c]].input = "nil"
      BY StepsHaveShape DEF Shape, NoNilInput
    <2>2. tgt[c] \in CallbackRuns /\ tgt[c] \in Runs
      BY <2>1, ExecutorConstants DEF IInv, Delivering
    <2> QED BY <2>1, <2>2 DEF InputsKept
  <1> QED BY <1>1, <1>2, ExecutorInvariant, ExecutorUsesStore, InputsAreKept, PTL DEF Spec

-----------------------------------------------------------------------------
\* The three statements about contexts and maps hold together: that a cleanup
\* cancels the right context rests on NoStaleEntry, and that the worker it
\* cleans up after is cancelled on LiveWorkerStoppable.
ContextInv == LiveWorkerStoppable /\ ExitedWorkerCancelled /\ NoStaleEntry

\* A step that meets no nil input keeps them.
LEMMA ContextStep ==
  ASSUME IInv, ContextInv, Shape, \A c \in Calls : pc'[c] # "panicked"
  PROVE  ContextInv'
  <1>0. None \notin Starts /\ Starts \subseteq Calls
    BY ExecutorConstants DEF Calls
  <1>1. \A c \in Starts : (Live(c) => tgt[c] \in Runs) /\ ~(Live(c) /\ pc[c] = "exited")
    BY <1>0 DEF IInv, Targets, Live, WorkerPCs, NotifyPCs, CallPCs
  <1>2. /\ cancels \in [Runs -> Starts \cup {None}]
        /\ registry \in [Runs -> Starts \cup {None}]
    BY DEF IInv, TypeOK
  <1>3. \A c \in Starts : Live(c) => cancels[tgt[c]] = c \/ c \in ctxDone
    BY DEF ContextInv, LiveWorkerStoppable
  <1>4. \A c \in Starts : pc[c] = "exited" => c \in ctxDone
    BY DEF ContextInv, ExitedWorkerCancelled
  <1>5. \A r \in Runs, c \in Starts : (cancels[r] = c \/ registry[r] = c) => Live(c) /\ tgt[c] = r
    BY DEF ContextInv, NoStaleEntry
  <1>6. CASE /\ Quiet
             /\ \A c \in Starts : /\ Live(c)' <=> Live(c)
                                  /\ Live(c) => tgt'[c] = tgt[c]
                                  /\ pc'[c] = "exited" => pc[c] = "exited"
    BY <1>3, <1>4, <1>5, <1>6
       DEF Quiet, ContextInv, LiveWorkerStoppable, ExitedWorkerCancelled, NoStaleEntry
  <1>7. ASSUME NEW c \in Starts,
               ~Live(c), Live(c)',
               UNCHANGED <<registry, tgt>>,
               cancels' = [cancels EXCEPT ![tgt[c]] = c],
               ctxDone' = ctxDone \cup ({cancels[tgt[c]]} \ {None}),
               \A d \in Calls \ {c} : pc'[d] = pc[d]
        PROVE  ContextInv'
    <2>1. \A d \in Starts \ {c} : (Live(d)' <=> Live(d)) /\ pc'[d] = pc[d]
      BY <1>0, <1>7 DEF Live
    <2>2. tgt[c] \in Runs /\ pc'[c] # "exited"
      BY <1>0, <1>7 DEF Shape, IInv, Targets, Live, WorkerPCs, NotifyPCs, CallPCs
    <2>3. cancels'[tgt[c]] = c /\ \A r \in Runs \ {tgt[c]} : cancels'[r] = cancels[r]
      BY <1>2, <1>7, <2>2
    <2>4. ASSUME NEW d \in Starts, Live(d)'
          PROVE  cancels'[tgt'[d]] = d \/ d \in ctxDone'
      <3>1. CASE d = c
        BY <1>7, <2>3, <3>1
      <3>2. CASE d # c /\ tgt[d] = tgt[c]
        BY <1>0, <1>3, <1>7, <2>1, <2>4, <3>2
      <3>3. CASE d # c /\ tgt[d] # tgt[c]
        BY <1>1, <1>3, <1>7, <2>1, <2>3, <2>4, <3>3
      <3> QED BY <3>1, <3>2, <3>3
    <2>5. ExitedWorkerCancelled'
      BY <1>4, <1>7, <2>1, <2>2 DEF ExitedWorkerCancelled
    <2>6. ASSUME NEW r \in Runs, NEW d \in Starts, cancels'[r] = d \/ registry'[r] = d
          PROVE  Live(d)' /\ tgt'[d] = r
      <3>1. CASE r = tgt[c] /\ cancels'[r] = d
        BY <1>7, <2>3, <3>1
      <3>2. CASE cancels[r] = d \/ registry[r] = d
        BY <1>5, <1>7, <2>1, <3>2
      <3> QED BY <1>7, <2>3, <2>6, <3>1, <3>2
    <2> QED BY <2>4, <2>5, <2>6 DEF ContextInv, LiveWorkerStoppable, NoStaleEntry
  <1>8. ASSUME NEW c \in Starts,
               Live(c), Live(c)',
               UNCHANGED <<cancels, tgt, ctxDone>>,
               registry' = [registry EXCEPT ![tgt[c]] = c],
               \A d \in Calls \ {c} : pc'[d] = pc[d]
        PROVE  ContextInv'
    <2>1. \A d \in Starts : (Live(d)' <=> Live(d)) /\ (d # c => pc'[d] = pc[d])
      BY <1>0, <1>8 DEF Live
    <2>2. tgt[c] \in Runs /\ pc'[c] # "exited"
      BY <1>1, <1>8 DEF Live, WorkerPCs, NotifyPCs
    <2>3. LiveWorkerStoppable' /\ ExitedWorkerCancelled'
      BY <1>3, <1>4, <1>8, <2>1, <2>2 DEF LiveWorkerStoppable, ExitedWorkerCancelled
    <2>4. \A r \in Runs : registry'[r] = registry[r] \/ (r = tgt[c] /\ registry'[r] = c)
      BY <1>2, <1>8, <2>2
    <2>5. ASSUME NEW r \in Runs, NEW d \in Starts, cancels'[r] = d \/ registry'[r] = d
          PROVE  Live(d)' /\ tgt'[d] = r
      <3>1. CASE r = tgt[c] /\ d = c
        BY <1>8, <3>1
      <3>2. CASE cancels[r] = d \/ registry[r] = d
        BY <1>5, <1>8, <2>1, <3>2
      <3> QED BY <1>8, <2>4, <2>5, <3>1, <3>2
    <2> QED BY <2>3, <2>5 DEF ContextInv, NoStaleEntry
  <1>9. ASSUME NEW c \in Starts,
               Live(c), pc'[c] = "exited",
               UNCHANGED tgt,
               cancels' = [cancels EXCEPT ![tgt[c]] = None],
               registry' = [registry EXCEPT ![tgt[c]] = None],
               ctxDone' = ctxDone \cup ({cancels[tgt[c]]} \ {None}),
               \A d \in Calls \ {c} : pc'[d] = pc[d]
        PROVE  ContextInv'
    <2>1. \A d \in Starts \ {c} : (Live(d)' <=> Live(d)) /\ pc'[d] = pc[d]
      BY <1>0, <1>9 DEF Live
    <2>2. tgt[c] \in Runs /\ ~Live(c)' /\ c \in ctxDone'
      BY <1>0, <1>1, <1>3, <1>9 DEF Live, WorkerPCs, NotifyPCs
    <2>3. /\ cancels'[tgt[c]] = None /\ registry'[tgt[c]] = None
          /\ \A r \in Runs \ {tgt[c]} : cancels'[r] = cancels[r] /\ registry'[r] = registry[r]
      BY <1>2, <1>9, <2>2
    <2>4. ASSUME NEW d \in Starts, Live(d)'
          PROVE  cancels'[tgt'[d]] = d \/ d \in ctxDone'
      <3>1. d # c /\ Live(d) /\ tgt'[d] = tgt[d]
        BY <1>9, <2>1, <2>2, <2>4
      <3>2. CASE tgt[d] = tgt[c]
        BY <1>0, <1>3, <1>9, <3>1, <3>2
      <3>3. CASE tgt[d] # tgt[c]
        BY <1>1, <1>3, <1>9, <2>3, <3>1, <3>3
      <3> QED BY <3>2, <3>3
    <2>5. ExitedWorkerCancelled'
      BY <1>4, <1>9, <2>1, <2>2 DEF ExitedWorkerCancelled
    <2>6. ASSUME NEW r \in Runs, NEW d \in Starts, cancels'[r] = d \/ registry'[r] = d
          PROVE  Live(d)' /\ tgt'[d] = r
      <3>1. r # tgt[c] /\ (cancels[r] = d \/ registry[r] = d)
        BY <1>0, <2>3, <2>6
      <3>2. Live(d) /\ tgt[d] = r /\ d # c
        BY <1>5, <3>1
      <3> QED BY <1>9, <2>1, <3>2
    <2> QED BY <2>4, <2>5, <2>6 DEF ContextInv, LiveWorkerStoppable, NoStaleEntry
  <1> QED BY <1>6, <1>7, <1>8, <1>9 DEF Shape, Control

\* The three together, whatever the number of starts and stops of the same run.
THEOREM ContextsAreManaged == Children \cap CallbackRuns = {} /\ Spec => []ContextInv
  <1> SUFFICES ASSUME Children \cap CallbackRuns = {}
               PROVE  Spec => []ContextInv
    OBVIOUS
  <1>1. Init => ContextInv
    <2> SUFFICES ASSUME Init PROVE ContextInv
      OBVIOUS
    <2>1. None \notin Starts
      BY ExecutorConstants DEF Calls
    <2>2. \A c \in Starts : pc[c] = "idle"
      BY DEF Init, Calls
    <2>3. \A c \in Starts : ~Live(c)
      BY <2>2 DEF Live, WorkerPCs, NotifyPCs
    <2>4. \A r \in Runs : cancels[r] = None /\ registry[r] = None
      BY DEF Init
    <2> QED BY <2>1, <2>2, <2>3, <2>4
            DEF ContextInv, LiveWorkerStoppable, ExitedWorkerCancelled, NoStaleEntry
  <1>2. IInv /\ ContextInv /\ NoNilInput' /\ [Next]_vars => ContextInv'
    BY ContextStep, StepsHaveShape DEF NoNilInput
  <1> QED BY <1>1, <1>2, ExecutorInvariant, NeverNilInput, PTL DEF Spec

\* LiveWorkerStoppable: every worker that has not cleaned up yet is the one that
\* Stop cancels, or was cancelled.
THEOREM WorkersStayStoppable ==
  Children \cap CallbackRuns = {} /\ Spec => []LiveWorkerStoppable
  BY ContextsAreManaged, PTL DEF ContextInv

\* ExitedWorkerCancelled: the context of every worker that has exited is cancelled.
THEOREM ExitedWorkersCancelled ==
  Children \cap CallbackRuns = {} /\ Spec => []ExitedWorkerCancelled
  BY ContextsAreManaged, PTL DEF ContextInv

\* NoStaleEntry: the maps of the executor name no worker that has exited.
THEOREM NoStaleEntries ==
  Children \cap CallbackRuns = {} /\ Spec => []NoStaleEntry
  BY ContextsAreManaged, PTL DEF ContextInv

\* ContextsSound: contexts, maps and workers agree in every state.
THEOREM ContextsStaySound ==
  Children \cap CallbackRuns = {} /\ Spec => []ContextsSound
  BY WorkersStayStoppable, ExitedWorkersCancelled, NoStaleEntries, PTL DEF ContextsSound
=============================================================================
