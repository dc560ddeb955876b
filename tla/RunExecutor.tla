----------------------------- MODULE RunExecutor -----------------------------
(***************************************************************************)
(* The run executor of simd (internal/simd/executor.go) over the run       *)
(* store: Start, Stop and RenewOnlineLease calls, the worker goroutine a   *)
(* Start launches (runSimulation, runOptimization, runOnlineOptimization), *)
(* the goroutines that watch an online run, and the callbacks.             *)
(*                                                                         *)
(* The executor never holds e.mu and s.mu together and releases each       *)
(* between two uses, so a step is at most one critical section of each:    *)
(* one store operation, or one section under e.mu.  A Start call c that    *)
(* succeeds goes on as its worker goroutine, whose context is named c too. *)
(* The engine is not modelled here: eng.Run of a worker may return at any  *)
(* time, with or without an error (a runtime limit, or the cancellation    *)
(* that eng.Stop brings about).                                            *)
(***************************************************************************)
EXTENDS RunStore, Sequences

CONSTANTS
  Starts,        \* calls of Start; also the workers and their contexts
  Stops,         \* calls of Stop
  Renews,        \* calls of RenewOnlineLease
  LeasedRuns,    \* online runs with lease_ttl_ms > 0
  LimitedRuns,   \* online runs with a duration, step or no-op limit
  CallbackRuns,  \* runs with a callback_url
  SearchDeadline \* does the batch search have a wall-clock limit?

Calls == Starts \cup Stops \cup Renews

ASSUME ExecutorConstants ==
  /\ Starts \cap Stops = {} /\ Starts \cap Renews = {} /\ Stops \cap Renews = {}
  /\ None \notin Calls
  /\ LeasedRuns \subseteq OnlineRuns
  /\ LimitedRuns \subseteq OnlineRuns
  /\ CallbackRuns \subseteq Runs
  /\ SearchDeadline \in BOOLEAN

VARIABLES
  \* the maps of RunExecutor, under e.mu
  cancels,    \* e.cancels: the context each run's cancel function cancels
  registry,   \* e.workloadStates, resourceManagers, policyManagers and
              \* runScenarios, which are written together: whose they are
  reason,     \* e.onlineCompletionReason: is there an entry?
  lease,      \* e.onlineLeaseDeadline: "none", "live" or "expired"
  \* contexts
  ctxDone,    \* the contexts that were cancelled
  \* calls and goroutines
  pc,         \* where each call, and the worker it became, is
  tgt,        \* the run it is about
  rec,        \* its local copy of the record
  held,       \* the cancel function it has read under e.mu
  graceful,   \* the completion reason the worker has taken is not empty
  watch,      \* the duration timer and the controller of an online worker
  \* the outside
  callbacks   \* the notifications handed to the notifier, per run

mapVars == <<cancels, registry, reason, lease>>
threadVars == <<tgt, rec, held, graceful, watch>>
execVars == <<cancels, registry, reason, lease, ctxDone, pc, tgt, rec, held,
              graceful, watch, callbacks>>
vars == <<runs, used, now, cancels, registry, reason, lease, ctxDone, pc, tgt,
          rec, held, graceful, watch, callbacks>>

CallPCs == {"idle", "returned"}
StartPCs == {"validating"}
StopPCs == {"cancelling", "stopping", "stopped"}
RenewPCs == {"renewing"}
NotifyPCs == {"notify", "deliver"}
WorkerPCs == {"begin", "building", "wiring", "leasing", "running", "errored",
              "unwinding", "finalMetrics", "finalResult", "finalGet", "failing",
              "finishing", "reasoning", "measured", "publishing", "snapshotting",
              "completing", "searching", "trimming", "copying", "inheriting",
              "cleanup"}
\* A worker that is in one of these still owes its deferred cleanup.
Live(c) == c \in Starts /\ pc[c] \in WorkerPCs \cup NotifyPCs
PCs == CallPCs \cup StartPCs \cup StopPCs \cup RenewPCs \cup NotifyPCs
         \cup WorkerPCs \cup {"exited", "panicked"}

Callback == [status : Statuses, metrics : BOOLEAN]

TypeOK ==
  /\ StoreTypeOK
  /\ cancels \in [Runs -> Starts \cup {None}]
  /\ registry \in [Runs -> Starts \cup {None}]
  /\ reason \in [Runs -> BOOLEAN]
  /\ lease \in [Runs -> {"none", "live", "expired"}]
  /\ ctxDone \in SUBSET Starts
  /\ pc \in [Calls -> PCs]
  /\ tgt \in [Calls -> Runs \cup {None}]
  /\ rec \in [Calls -> RunRecord]
  /\ held \in [Calls -> Starts \cup {None}]
  /\ graceful \in [Starts -> BOOLEAN]
  /\ watch \in [Starts -> {"off", "armed", "tripped", "signalling"}]
  /\ callbacks \in [Runs -> Seq(Callback)]

Init ==
  /\ StoreInit
  /\ cancels = [r \in Runs |-> None]
  /\ registry = [r \in Runs |-> None]
  /\ reason = [r \in Runs |-> FALSE]
  /\ lease = [r \in Runs |-> "none"]
  /\ ctxDone = {}
  /\ pc = [c \in Calls |-> "idle"]
  /\ tgt = [c \in Calls |-> None]
  /\ rec = [c \in Calls |-> NoRecord]
  /\ held = [c \in Calls |-> None]
  /\ graceful = [c \in Starts |-> FALSE]
  /\ watch = [c \in Starts |-> "off"]
  /\ callbacks = [r \in Runs |-> << >>]

Goto(c, l) == pc' = [pc EXCEPT ![c] = l]
Keep(c, r) == rec' = [rec EXCEPT ![c] = runs'[r]]
Cancel(ctx) == ctxDone' = ctxDone \cup ({ctx} \ {None})

\* The step changes no map, context or callback.
OnlyThreads == UNCHANGED <<mapVars, ctxDone, callbacks>>

\* A store operation whose error is only logged.
Logged(r, op) == IF Present(r) THEN op ELSE UNCHANGED storeVars

-----------------------------------------------------------------------------
(* Start.                                                                  *)

StartAdmits(c, r) ==
  /\ pc[c] = "idle"
  /\ SetStatusRunning(r)
  /\ Goto(c, "validating")
  /\ tgt' = [tgt EXCEPT ![c] = r]
  /\ Keep(c, r)
  /\ OnlyThreads /\ UNCHANGED <<held, graceful, watch>>

StartRejects(c, r) ==
  /\ pc[c] = "idle"
  /\ StartRefused(r)
  /\ Goto(c, "returned")
  /\ OnlyThreads /\ UNCHANGED <<storeVars, threadVars>>

\* Handing the run back as PENDING instead.
StartFailsBackToPending(c) ==
  /\ pc[c] = "validating"
  /\ rec[c].input = "invalid"
  /\ runs' = [runs EXCEPT ![tgt[c]].status = "PENDING"]
  /\ Goto(c, "returned")
  /\ rec' = [rec EXCEPT ![c] = NoRecord]
  /\ OnlyThreads /\ UNCHANGED <<used, now, tgt, held, graceful, watch>>

\* One of the checks on the input fails: the run, already RUNNING, is FAILED.
StartFails(c) ==
  /\ pc[c] = "validating"
  /\ rec[c].input = "invalid"
  /\ Logged(tgt[c], SetStatus(tgt[c], "FAILED"))
  /\ Goto(c, "returned")
  /\ rec' = [rec EXCEPT ![c] = NoRecord]
  /\ OnlyThreads /\ UNCHANGED <<tgt, held, graceful, watch>>

\* Without the call of the cancel function that is replaced.
StartLaunchesOverOldContext(c) ==
  /\ pc[c] = "validating"
  /\ rec[c].input # "invalid"
  /\ cancels' = [cancels EXCEPT ![tgt[c]] = c]
  /\ Goto(c, "begin")
  /\ rec' = [rec EXCEPT ![c] = NoRecord]
  /\ UNCHANGED <<storeVars, registry, reason, lease, ctxDone, tgt, held, graceful, watch, callbacks>>

\* The new context takes the place of the old one, which is cancelled, and the
\* worker goroutine is launched.
StartLaunches(c) ==
  /\ pc[c] = "validating"
  /\ rec[c].input # "invalid"
  /\ Cancel(cancels[tgt[c]])
  /\ cancels' = [cancels EXCEPT ![tgt[c]] = c]
  /\ Goto(c, "begin")
  /\ rec' = [rec EXCEPT ![c] = NoRecord]
  /\ UNCHANGED <<storeVars, registry, reason, lease, tgt, held, graceful, watch, callbacks>>

-----------------------------------------------------------------------------
(* Stop and RenewOnlineLease.                                              *)

StopReads(c, r) ==
  /\ pc[c] = "idle"
  /\ tgt' = [tgt EXCEPT ![c] = r]
  /\ held' = [held EXCEPT ![c] = cancels[r]]
  /\ Goto(c, "cancelling")
  /\ OnlyThreads /\ UNCHANGED <<storeVars, rec, graceful, watch>>

StopCancels(c) ==
  /\ pc[c] = "cancelling"
  /\ Cancel(held[c])
  /\ held' = [held EXCEPT ![c] = None]
  /\ Goto(c, "stopping")
  /\ UNCHANGED <<storeVars, mapVars, tgt, rec, graceful, watch, callbacks>>

StopMarks(c) ==
  /\ pc[c] = "stopping"
  /\ \/ /\ SetStatus(tgt[c], "STOPPED")
        /\ Keep(c, tgt[c])
        /\ Goto(c, "stopped")
     \/ /\ ~Present(tgt[c])
        /\ Goto(c, "returned")
        /\ UNCHANGED <<storeVars, rec>>
  /\ OnlyThreads /\ UNCHANGED <<tgt, held, graceful, watch>>

\* snapshotFinalConfiguration: the configuration is there while the run is
\* registered.
Snapshot(r) ==
  IF registry[r] # None THEN Logged(r, SetFinalConfiguration(r)) ELSE UNCHANGED storeVars

\* The worker of an online run is left to notify.
StopSnapshots(c) ==
  /\ pc[c] = "stopped"
  /\ Snapshot(tgt[c])
  /\ IF rec[c].input # "nil" /\ tgt[c] \in OnlineRuns
     THEN Goto(c, "returned") /\ rec' = [rec EXCEPT ![c] = NoRecord]
     ELSE Goto(c, "notify") /\ UNCHANGED rec
  /\ OnlyThreads /\ UNCHANGED <<tgt, held, graceful, watch>>

RenewChecks(c, r) ==
  /\ pc[c] = "idle"
  /\ IF Status(r) = "RUNNING" /\ r \in LeasedRuns
     THEN Goto(c, "renewing") /\ tgt' = [tgt EXCEPT ![c] = r]
     ELSE Goto(c, "returned") /\ UNCHANGED tgt
  /\ OnlyThreads /\ UNCHANGED <<storeVars, rec, held, graceful, watch>>

RenewExtends(c) ==
  /\ pc[c] = "renewing"
  /\ lease' = [lease EXCEPT ![tgt[c]] = "live"]
  /\ Goto(c, "returned")
  /\ UNCHANGED <<storeVars, cancels, registry, reason, ctxDone, threadVars, callbacks>>

-----------------------------------------------------------------------------
(* sendNotificationIfConfigured, for a worker or a Stop call.              *)

AfterNotify(c) == IF c \in Starts THEN "cleanup" ELSE "returned"

NotifyPrepares(c) ==
  /\ pc[c] = "notify"
  /\ IF rec[c].input # "nil" /\ tgt[c] \in CallbackRuns
     THEN Snapshot(tgt[c]) /\ Goto(c, "deliver") /\ UNCHANGED rec
     ELSE /\ Goto(c, AfterNotify(c))
          /\ rec' = [rec EXCEPT ![c] = NoRecord]
          /\ UNCHANGED storeVars
  /\ OnlyThreads /\ UNCHANGED <<tgt, held, graceful, watch>>

\* The record is read again; the one at hand serves if it is gone.  A record
\* that lost its input meanwhile makes rec.Input.CallbackUrl a nil dereference.
NotifyDelivers(c) ==
  LET r == tgt[c]
      latest == IF Present(r) THEN runs[r] ELSE rec[c]
  IN /\ pc[c] = "deliver"
     /\ IF latest.input = "nil"
        THEN Goto(c, "panicked") /\ UNCHANGED callbacks
        ELSE /\ Goto(c, AfterNotify(c))
             /\ callbacks' = [callbacks EXCEPT ![r] =
                  Append(@, [status |-> latest.status, metrics |-> "metrics" \in latest.parts])]
     /\ rec' = [rec EXCEPT ![c] = NoRecord]
     /\ UNCHANGED <<storeVars, mapVars, ctxDone, tgt, held, graceful, watch>>

-----------------------------------------------------------------------------
(* The worker: start-up, common to the three kinds of run.                 *)

\* A store operation of a worker, and where it goes next.
WorkerStores(c, from, op, to) ==
  /\ pc[c] = from
  /\ Logged(tgt[c], op)
  /\ Goto(c, to)
  /\ OnlyThreads /\ UNCHANGED threadVars

WorkerLoads(c) ==
  /\ pc[c] = "begin"
  /\ Goto(c, CASE ~Present(tgt[c]) \/ runs[tgt[c]].input = "nil" -> "cleanup"
               [] Present(tgt[c]) /\ runs[tgt[c]].input # "nil" /\ tgt[c] \notin BatchRuns -> "building"
               [] OTHER -> IF runs[tgt[c]].input = "good" THEN "searching" ELSE "failing")
  /\ rec' = [rec EXCEPT ![c] = IF tgt[c] \in BatchRuns THEN NoRecord ELSE runs[tgt[c]]]
  /\ OnlyThreads /\ UNCHANGED <<storeVars, tgt, held, graceful, watch>>

\* The scenario does not parse, does not fit its hosts or has a bad workload.
WorkerBuildFails(c) ==
  /\ pc[c] \in {"building", "wiring"}
  /\ rec[c].input # "good"
  /\ Goto(c, "failing")
  /\ OnlyThreads /\ UNCHANGED <<storeVars, threadVars>>

WorkerStoresCollector(c) ==
  WorkerStores(c, "building", SetCollector(tgt[c]), "wiring")

WorkerRegisters(c) ==
  /\ pc[c] = "wiring"
  /\ rec[c].input = "good"
  /\ registry' = [registry EXCEPT ![tgt[c]] = c]
  /\ rec' = [rec EXCEPT ![c] = NoRecord]
  /\ IF tgt[c] \in LeasedRuns
     THEN Goto(c, "leasing") /\ UNCHANGED watch
     ELSE /\ Goto(c, "running")
          /\ watch' = [watch EXCEPT ![c] = IF tgt[c] \in OnlineRuns THEN "armed" ELSE @]
  /\ UNCHANGED <<storeVars, cancels, reason, lease, ctxDone, tgt, held, graceful, callbacks>>

WorkerTakesLease(c) ==
  /\ pc[c] = "leasing"
  /\ lease' = [lease EXCEPT ![tgt[c]] = "live"]
  /\ Goto(c, "running")
  /\ watch' = [watch EXCEPT ![c] = "armed"]
  /\ UNCHANGED <<storeVars, cancels, registry, reason, ctxDone, tgt, rec, held, graceful, callbacks>>

\* eng.Run returns, with an error or without.
EngineReturns(c) ==
  /\ pc[c] = "running"
  /\ \/ Goto(c, "finishing")
     \/ Goto(c, IF tgt[c] \in OnlineRuns THEN "errored" ELSE "unwinding")
  /\ OnlyThreads /\ UNCHANGED <<storeVars, threadVars>>

-----------------------------------------------------------------------------
(* The worker: eng.Run returned an error.                                  *)

\* takeOnlineCompletionReason.
WorkerTakesReason(c) ==
  /\ pc[c] = "errored"
  /\ Goto(c, IF reason[tgt[c]] THEN "finishing" ELSE "unwinding")
  /\ graceful' = [graceful EXCEPT ![c] = reason[tgt[c]]]
  /\ reason' = [reason EXCEPT ![tgt[c]] = FALSE]
  /\ UNCHANGED <<storeVars, cancels, registry, lease, ctxDone, tgt, rec, held, watch, callbacks>>

\* The context is cancelled: the status is left to whoever cancelled it.
WorkerFindsCancelled(c) ==
  /\ pc[c] = "unwinding"
  /\ c \in ctxDone
  /\ Goto(c, CASE ~Present(tgt[c]) -> "cleanup"
               [] Status(tgt[c]) = "STOPPED" /\ tgt[c] \in OnlineRuns -> "finalMetrics"
               [] OTHER -> "notify")
  /\ rec' = [rec EXCEPT ![c] = runs[tgt[c]]]
  /\ OnlyThreads /\ UNCHANGED <<storeVars, tgt, held, graceful, watch>>

WorkerFindsFailure(c) ==
  /\ pc[c] = "unwinding"
  /\ c \notin ctxDone
  /\ Goto(c, "failing")
  /\ OnlyThreads /\ UNCHANGED <<storeVars, threadVars>>

\* The last metrics of an online run that was stopped.
WorkerStoresFinalMetrics(c) ==
  WorkerStores(c, "finalMetrics", SetMetrics(tgt[c]), "finalResult")

WorkerStoresFinalResult(c) ==
  WorkerStores(c, "finalResult", SetOptimizationResult(tgt[c], tgt[c], {tgt[c]}), "finalGet")

WorkerRereads(c) ==
  /\ pc[c] = "finalGet"
  /\ Goto(c, IF Present(tgt[c]) THEN "notify" ELSE "cleanup")
  /\ rec' = [rec EXCEPT ![c] = runs[tgt[c]]]
  /\ OnlyThreads /\ UNCHANGED <<storeVars, tgt, held, graceful, watch>>

\* SetStatus with the terminal status s, then the notification.
WorkerEnds(c, from, s) ==
  /\ pc[c] = from
  /\ \/ /\ SetStatus(tgt[c], s)
        /\ Keep(c, tgt[c])
        /\ Goto(c, "notify")
     \/ /\ ~Present(tgt[c])
        /\ Goto(c, "cleanup")
        /\ UNCHANGED <<storeVars, rec>>
  /\ OnlyThreads /\ UNCHANGED <<tgt, held, graceful, watch>>

\* Without the status.
WorkerFailsSilently(c) ==
  /\ pc[c] = "failing"
  /\ Goto(c, "cleanup")
  /\ OnlyThreads /\ UNCHANGED <<storeVars, threadVars>>

\* Without the notification.
WorkerFailsUnannounced(c) ==
  /\ pc[c] = "failing"
  /\ Logged(tgt[c], SetStatus(tgt[c], "FAILED"))
  /\ Goto(c, "cleanup")
  /\ OnlyThreads /\ UNCHANGED threadVars

WorkerFails(c) == WorkerEnds(c, "failing", "FAILED")

-----------------------------------------------------------------------------
(* The worker: the run came to its end.                                    *)

\* Without the metrics.
WorkerSkipsMetrics(c) ==
  WorkerStores(c, "finishing", UNCHANGED storeVars, IF graceful[c] THEN "reasoning" ELSE "measured")

WorkerStoresMetrics(c) ==
  WorkerStores(c, "finishing", SetMetrics(tgt[c]), IF graceful[c] THEN "reasoning" ELSE "measured")

WorkerStoresReason(c) ==
  WorkerStores(c, "reasoning", SetOnlineCompletionReason(tgt[c]), "measured")

\* Get: only a run that is still RUNNING is completed.
WorkerChecksRunning(c) ==
  /\ pc[c] = "measured"
  /\ Goto(c, IF Status(tgt[c]) = "RUNNING" THEN "publishing" ELSE "cleanup")
  /\ OnlyThreads /\ UNCHANGED <<storeVars, threadVars>>

WorkerStoresResult(c) ==
  WorkerStores(c, "publishing", SetOptimizationResult(tgt[c], tgt[c], {tgt[c]}), "snapshotting")

WorkerSnapshots(c) ==
  /\ pc[c] = "snapshotting"
  /\ Snapshot(tgt[c])
  /\ Goto(c, "completing")
  /\ OnlyThreads /\ UNCHANGED threadVars

WorkerCompletes(c) == WorkerEnds(c, "completing", "COMPLETED")

-----------------------------------------------------------------------------
(* The worker: batch optimization.  The candidates it creates, starts and  *)
(* stops go through the store and the executor like any other client's;    *)
(* rec[c].candidates collects those it has evaluated.                      *)

\* The orchestrator polls a candidate, finds it COMPLETED and has its metrics.
SearchEvaluates(c, k) ==
  /\ pc[c] = "searching"
  /\ Status(k) = "COMPLETED" /\ "metrics" \in runs[k].parts
  /\ rec' = [rec EXCEPT ![c].candidates = @ \cup {k}]
  /\ OnlyThreads /\ UNCHANGED <<storeVars, pc, tgt, held, graceful, watch>>

SearchFails(c) ==
  /\ pc[c] = "searching"
  /\ c \notin ctxDone
  /\ Goto(c, "failing")
  /\ rec' = [rec EXCEPT ![c] = NoRecord]
  /\ OnlyThreads /\ UNCHANGED <<storeVars, tgt, held, graceful, watch>>

\* ctx.Err() # nil, by cancellation or by the deadline: the worker returns and
\* leaves the status as it is.
SearchCancelled(c) ==
  /\ pc[c] = "searching"
  /\ c \in ctxDone \/ SearchDeadline
  /\ Goto(c, "cleanup")
  /\ rec' = [rec EXCEPT ![c] = NoRecord]
  /\ OnlyThreads /\ UNCHANGED <<storeVars, tgt, held, graceful, watch>>

\* The search ends with the best run b, or none, and a list cs of candidates,
\* even if the context was cancelled meanwhile.
SearchSucceeds(c, b, cs) ==
  /\ pc[c] = "searching"
  /\ b \in rec[c].candidates \cup {None}
  /\ cs \subseteq rec[c].candidates
  /\ Logged(tgt[c], SetOptimizationResult(tgt[c], b, cs))
  /\ rec' = [rec EXCEPT ![c] = [NoRecord EXCEPT !.best = b]]
  /\ Goto(c, "trimming")
  /\ OnlyThreads /\ UNCHANGED <<tgt, held, graceful, watch>>

SearchTrims(c) ==
  WorkerStores(c, "trimming", TrimOptimizationCandidates(tgt[c], rec[c].best), "copying")

\* Get of the best run: its metrics, if it has any, become the parent's.
SearchReadsBest(c) ==
  LET b == rec[c].best
  IN /\ pc[c] = "copying"
     /\ Goto(c, IF b \in Runs /\ "metrics" \in runs[b].parts THEN "inheriting" ELSE "completing")
     /\ rec' = [rec EXCEPT ![c] = NoRecord]
     /\ OnlyThreads /\ UNCHANGED <<storeVars, tgt, held, graceful, watch>>

SearchStoresMetrics(c) ==
  WorkerStores(c, "inheriting", SetMetrics(tgt[c]), "completing")

-----------------------------------------------------------------------------
(* The worker: the deferred cleanup.                                       *)

Forget(c) ==
  /\ pc[c] = "cleanup"
  /\ Goto(c, "exited")
  /\ cancels' = [cancels EXCEPT ![tgt[c]] = None]
  /\ reason' = [reason EXCEPT ![tgt[c]] = FALSE]
  /\ lease' = [lease EXCEPT ![tgt[c]] = "none"]
  /\ rec' = [rec EXCEPT ![c] = NoRecord]
  /\ UNCHANGED <<storeVars, tgt, held, graceful, watch, callbacks>>

\* cleanup: whatever the maps hold for the run is cancelled and removed, even
\* what another worker of the same run put there.
Cleanup(c) ==
  /\ Forget(c)
  /\ Cancel(cancels[tgt[c]])
  /\ registry' = [registry EXCEPT ![tgt[c]] = None]

-----------------------------------------------------------------------------
(* The goroutines that watch an online run: the duration timer and the     *)
(* controller.  Their select may choose the timer although the context is  *)
(* cancelled.                                                              *)

LeaseLapses(r) ==
  /\ lease[r] = "live"
  /\ lease' = [lease EXCEPT ![r] = "expired"]
  /\ UNCHANGED <<storeVars, cancels, registry, reason, ctxDone, pc, threadVars, callbacks>>

\* A limit is reached, or onlineLeaseExpired returns true.
WatchTrips(c) ==
  /\ watch[c] = "armed"
  /\ \/ tgt[c] \in LimitedRuns
     \/ tgt[c] \in LeasedRuns /\ lease[tgt[c]] = "expired"
  /\ watch' = [watch EXCEPT ![c] = "tripped"]
  /\ OnlyThreads /\ UNCHANGED <<storeVars, pc, tgt, rec, held, graceful>>

\* signalOnlineLeaseEnd, under e.mu ...
WatchSignals(c) ==
  /\ watch[c] = "tripped"
  /\ reason' = [reason EXCEPT ![tgt[c]] = TRUE]
  /\ held' = [held EXCEPT ![c] = cancels[tgt[c]]]
  /\ watch' = [watch EXCEPT ![c] = "signalling"]
  /\ UNCHANGED <<storeVars, cancels, registry, lease, ctxDone, pc, tgt, rec, graceful, callbacks>>

\* ... and after it.
WatchCancels(c) ==
  /\ watch[c] = "signalling"
  /\ Cancel(held[c])
  /\ held' = [held EXCEPT ![c] = None]
  /\ watch' = [watch EXCEPT ![c] = "armed"]
  /\ UNCHANGED <<storeVars, mapVars, pc, tgt, rec, graceful, callbacks>>

WatchEnds(c) ==
  /\ watch[c] = "armed"
  /\ c \in ctxDone
  /\ watch' = [watch EXCEPT ![c] = "off"]
  /\ OnlyThreads /\ UNCHANGED <<storeVars, pc, tgt, rec, held, graceful>>

\* The online controller records the configuration changes it applies.
WatchAppendsStep(c) ==
  /\ watch[c] = "armed"
  /\ Logged(tgt[c], AppendOptimizationStep(tgt[c]))
  /\ OnlyThreads /\ UNCHANGED <<pc, threadVars>>

-----------------------------------------------------------------------------
StartStep(c) ==
  \/ \E r \in Runs : StartAdmits(c, r) \/ StartRejects(c, r)
  \/ StartFails(c)
  \/ StartLaunches(c)

NotifyStep(c) == NotifyPrepares(c) \/ NotifyDelivers(c)

StopProceeds(c) == StopCancels(c) \/ StopMarks(c) \/ StopSnapshots(c) \/ NotifyStep(c)

StopStep(c) == (\E r \in Runs : StopReads(c, r)) \/ StopProceeds(c)

RenewStep(c) == (\E r \in Runs : RenewChecks(c, r)) \/ RenewExtends(c)

WorkerStep(c) ==
  \/ WorkerLoads(c) \/ WorkerBuildFails(c) \/ WorkerStoresCollector(c)
  \/ WorkerRegisters(c) \/ WorkerTakesLease(c) \/ EngineReturns(c)
  \/ WorkerTakesReason(c) \/ WorkerFindsCancelled(c) \/ WorkerFindsFailure(c)
  \/ WorkerStoresFinalMetrics(c) \/ WorkerStoresFinalResult(c) \/ WorkerRereads(c)
  \/ WorkerFails(c) \/ WorkerStoresMetrics(c) \/ WorkerStoresReason(c)
  \/ WorkerChecksRunning(c) \/ WorkerStoresResult(c) \/ WorkerSnapshots(c)
  \/ WorkerCompletes(c) \/ SearchFails(c) \/ SearchCancelled(c)
  \/ \E k \in Children : SearchEvaluates(c, k)
  \/ \E b \in Children \cup {None}, cs \in SUBSET Children : SearchSucceeds(c, b, cs)
  \/ SearchTrims(c) \/ SearchReadsBest(c) \/ SearchStoresMetrics(c)
  \/ NotifyStep(c) \/ Cleanup(c)

WatchStep(c) ==
  \/ WatchTrips(c) \/ WatchSignals(c) \/ WatchCancels(c) \/ WatchEnds(c)
  \/ WatchAppendsStep(c)

\* What goes on whatever the executor does: clients create runs, the clock and
\* the leases run, and the store sweeps.
StoreStep ==
  /\ \/ \E r \in Runs, q \in Inputs : Create(r, q)
     \/ CleanupNow
     \/ Tick
  /\ UNCHANGED execVars

Next ==
  \/ \E c \in Starts : StartStep(c) \/ WorkerStep(c) \/ WatchStep(c)
  \/ \E c \in Stops : StopStep(c)
  \/ \E c \in Renews : RenewStep(c)
  \/ \E r \in Runs : LeaseLapses(r)
  \/ StoreStep

Spec == Init /\ [][Next]_vars

\* A call that was made, and a goroutine that was launched, go on; the engine
\* returns, since a run has a wall-clock limit; the controller and the sweeper
\* have tickers.  Clients need not call anything.
Fairness ==
  /\ \A c \in Starts : WF_vars(StartFails(c) \/ StartLaunches(c) \/ WorkerStep(c))
  /\ \A c \in Starts : WF_vars(WatchTrips(c) \/ WatchSignals(c) \/ WatchCancels(c))
  /\ \A c \in Stops : WF_vars(StopProceeds(c))
  /\ WF_vars(CleanupNow /\ UNCHANGED execVars)

FairSpec == Spec /\ Fairness

-----------------------------------------------------------------------------
(* Properties.                                                             *)

\* A worker that Stop could not reach any more has been cancelled: Start
\* cancels the context it replaces in e.cancels, and so does the cleanup of
\* another worker of the same run.  A run has therefore at most one worker that
\* is not cancelled.
LiveWorkerStoppable ==
  \A c \in Starts : Live(c) => cancels[tgt[c]] = c \/ c \in ctxDone

\* When a worker has exited its context is cancelled, so the goroutine that
\* waits for it to stop the engine, the ticker, the timer and the controller
\* are released, even if another worker of the run had emptied the maps.
ExitedWorkerCancelled ==
  \A c \in Starts : pc[c] = "exited" => c \in ctxDone

\* e.cancels, e.workloadStates, e.resourceManagers, e.policyManagers and
\* e.runScenarios never name a worker that has exited.
NoStaleEntry ==
  \A r \in Runs : \A c \in Starts :
    (cancels[r] = c \/ registry[r] = c) => Live(c) /\ tgt[c] = r

\* A run that is not a batch search is COMPLETED only with its metrics stored,
\* as long as identifiers are not used again.
CompletedHasMetrics ==
  ~ReuseIds /\ "metrics" \in Parts =>
    \A r \in Runs \ BatchRuns : Status(r) = "COMPLETED" => "metrics" \in runs[r].parts

\* sendNotificationIfConfigured tests the input of the record it is given and
\* then reads that of a fresh copy.  The two agree unless a candidate run, whose
\* input is dropped when it ends, has a callback.
NoNilInput ==
  Children \cap CallbackRuns = {} => \A c \in Calls : pc[c] # "panicked"

Reported(r) == \E i \in 1..Len(callbacks[r]) : callbacks[r][i].status = Status(r)

\* Some call will still report the run: it has written or read a terminal
\* status and holds a record that sendNotificationIfConfigured lets through.
ReportPending(r) ==
  \E c \in Calls : /\ tgt[c] = r
                   /\ pc[c] \in {"stopped", "notify", "deliver"}
                   /\ rec[c].input # "nil"

\* However many starts, stops and completions race on a run that is neither
\* online nor a candidate, the callback is not left with an outdated outcome: one
\* that reports the present terminal status was sent, or a call that read or
\* wrote a record of the run is still on its way to sendNotificationIfConfigured.
FinalStatusReported ==
  \A r \in CallbackRuns \ (OnlineRuns \cup Children) :
    (isTerminalStatus(r) /\ runs[r].input # "invalid" /\ ~ReuseIds)
      => Reported(r) \/ ReportPending(r)

\* A run that is started once, and is neither online nor a batch search with a
\* deadline, does not stay RUNNING.
RunEnds ==
  \A r \in Runs \ OnlineRuns : Status(r) = "RUNNING" ~> Status(r) # "RUNNING"

\* The collector of an ended run is released, if not at its end then by the
\* sweep: Stop may mark a run before its worker stores the collector.
CollectorReleased ==
  \A r \in Runs : (isTerminalStatus(r) /\ ~KeepCollector) ~>
                     (~Present(r) \/ "collector" \notin runs[r].parts)

\* The contexts, the maps and the workers of the executor agree: what Stop
\* cannot reach is cancelled, what has exited is released, and no map names it.
ContextsSound == LiveWorkerStoppable /\ ExitedWorkerCancelled /\ NoStaleEntry

\* Callbacks: no notification dereferences a record without input, and the last
\* outcome of a run is reported or about to be.
CallbacksSound == NoNilInput /\ FinalStatusReported

\* A run drains: it leaves RUNNING, and its collector is released.
RunsDrain == RunEnds /\ CollectorReleased
=============================================================================
