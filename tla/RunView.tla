------------------------------- MODULE RunView -------------------------------
(***************************************************************************)
(* One run identifier as the service's clients see it: the record in the   *)
(* run store, what the executor has registered for it, and its collector.  *)
(* Modules RunStore and RunExecutor say how a run comes to each of these   *)
(* steps, several Start calls and their contexts included; here are the    *)
(* steps alone, for an online optimization run that is started once.  The  *)
(* identifier may be given to a new run after the old one was evicted and  *)
(* its goroutines are gone.                                                *)
(***************************************************************************)
EXTENDS Integers, Sequences, FiniteSets

CONSTANTS
  MaxGens,     \* runs that bear the identifier, one after the other
  MaxSteps,    \* optimization steps of one run
  MaxSamples   \* samples of the request counter of one run

ASSUME RunViewConstants == MaxGens \in Nat /\ MaxSteps \in Nat /\ MaxSamples \in Nat

VARIABLES
  run,      \* the record of the run store; status ABSENT when there is none
  worker,   \* where the goroutine of runOnlineOptimization is
  control,  \* where the goroutine of runOnlineController is
  ctxDone,  \* was the run's context cancelled?
  stopping, \* a Stop call between its cancel() and its SetStatus
  counter,  \* per run, the timestamps of the samples of its request_count series
  atEnd     \* per run, the steps that were recorded when it ended

runVars == <<run, worker, control, ctxDone, stopping, counter, atEnd>>

Gens == 1..MaxGens
Terminal == {"COMPLETED", "FAILED", "STOPPED"}

\* gen is the run the record belongs to, or last belonged to.
NoRecord(g) == [gen |-> g, status |-> "ABSENT", realTime |-> FALSE, metrics |-> FALSE,
                collector |-> FALSE, steps |-> 0]

RunInit ==
  /\ run = NoRecord(0) /\ worker = "none" /\ control = "none"
  /\ ctxDone = FALSE /\ stopping = FALSE
  /\ counter = [g \in Gens |-> <<>>]
  /\ atEnd = [g \in Gens |-> 0]

Present == run.status # "ABSENT"
Ended == run.status \in Terminal
Registered == worker \in {"running", "measured", "completing", "ended"}
Quiet == worker = "none" /\ control = "none"

\* SetStatus with a terminal status, on a record that may be gone; it drops the collector.
EndsAs(s) ==
  /\ run' = IF Present THEN [run EXCEPT !.status = s, !.collector = FALSE] ELSE run
  /\ atEnd' = IF Present /\ ~Ended THEN [atEnd EXCEPT ![run.gen] = run.steps] ELSE atEnd

\* RunStore.Create.
Created ==
  /\ ~Present /\ Quiet /\ run.gen < MaxGens
  /\ \E live \in BOOLEAN :
       run' = [NoRecord(run.gen + 1) EXCEPT !.status = "PENDING", !.realTime = live]
  /\ UNCHANGED <<worker, control, ctxDone, stopping, counter, atEnd>>

\* The store's retention removes an ended run.
Evicted ==
  /\ Ended
  /\ run' = NoRecord(run.gen)
  /\ UNCHANGED <<worker, control, ctxDone, stopping, counter, atEnd>>

\* RunExecutor.Start admits the run and launches its worker.
Started ==
  /\ run.status = "PENDING" /\ Quiet
  /\ run' = [run EXCEPT !.status = "RUNNING"]
  /\ worker' = "begin" /\ ctxDone' = FALSE
  /\ UNCHANGED <<control, stopping, counter, atEnd>>

\* Start admits the run, refuses its input and marks it failed.
StartRefused ==
  /\ run.status = "PENDING" /\ Quiet
  /\ EndsAs("FAILED")
  /\ UNCHANGED <<worker, control, ctxDone, stopping, counter>>

\* RunExecutor.Stop cancels the context that is registered for the run, if any.
StopCancels ==
  /\ ~stopping
  /\ stopping' = TRUE /\ ctxDone' = (ctxDone \/ worker # "none")
  /\ UNCHANGED <<run, worker, control, counter, atEnd>>

\* Stop marks the run, whatever its status.
StopMarks ==
  /\ stopping /\ stopping' = FALSE
  /\ EndsAs("STOPPED")
  /\ UNCHANGED <<worker, control, ctxDone, counter>>

-----------------------------------------------------------------------------
(***************************************************************************)
(* The worker of the run.                                                  *)
(***************************************************************************)

\* The worker sets the run up and stores its collector; the scenario may be invalid.  A run
\* that is gone was so when the worker looked, or has gone since.
WorkerBegins ==
  /\ worker = "begin"
  /\ \/ /\ Present /\ worker' = "wired"
        /\ run' = [run EXCEPT !.collector = TRUE]
        /\ UNCHANGED atEnd
     \/ /\ Present /\ worker' = "ended"
        /\ EndsAs("FAILED")
     \/ /\ ~Present /\ worker' \in {"wired", "ended"}
        /\ UNCHANGED <<run, atEnd>>
  /\ UNCHANGED <<control, ctxDone, stopping, counter>>

\* The run's state is registered for updates, and the controller launched.
WorkerRegisters ==
  /\ worker = "wired"
  /\ worker' = "running" /\ control' = "idle"
  /\ UNCHANGED <<run, ctxDone, stopping, counter, atEnd>>

\* The simulation records a request: at the time of the last sample, or later.
Samples ==
  LET c == counter[run.gen] IN
  /\ worker = "running" /\ Len(c) < MaxSamples
  /\ \E t \in 1..MaxSamples :
       /\ IF c = <<>> THEN t = 1 ELSE t \in {c[Len(c)], c[Len(c)] + 1}
       /\ counter' = [counter EXCEPT ![run.gen] = Append(c, t)]
  /\ UNCHANGED <<run, worker, control, ctxDone, stopping, atEnd>>

\* The engine returns at the end of the run's time or for a completion reason:
\* finalizeOnlineOptimizationRun stores the metrics first.
WorkerMeasures ==
  /\ worker = "running" /\ worker' = "measured"
  /\ run' = IF Present THEN [run EXCEPT !.metrics = TRUE] ELSE run
  /\ UNCHANGED <<control, ctxDone, stopping, counter, atEnd>>

\* finalizeOnlineOptimizationRun reads the status; a run that is not RUNNING is left alone.
WorkerChecks ==
  /\ worker = "measured"
  /\ worker' = IF run.status = "RUNNING" THEN "completing" ELSE "ended"
  /\ UNCHANGED <<run, control, ctxDone, stopping, counter, atEnd>>

WorkerCompletes ==
  /\ worker = "completing" /\ worker' = "ended"
  /\ EndsAs("COMPLETED")
  /\ UNCHANGED <<control, ctxDone, stopping, counter>>

\* The engine returns an error of its own.
WorkerFails ==
  /\ worker = "running" /\ ~ctxDone /\ worker' = "ended"
  /\ EndsAs("FAILED")
  /\ UNCHANGED <<control, ctxDone, stopping, counter>>

\* The engine was stopped with the context: a run that is marked STOPPED gets its metrics.
WorkerStopped ==
  /\ worker = "running" /\ ctxDone /\ worker' = "ended"
  /\ run' = IF run.status = "STOPPED" THEN [run EXCEPT !.metrics = TRUE] ELSE run
  /\ UNCHANGED <<control, ctxDone, stopping, counter, atEnd>>

\* RunExecutor.cleanup.
Cleanup ==
  /\ worker = "ended" /\ worker' = "none" /\ ctxDone' = TRUE
  /\ UNCHANGED <<run, control, stopping, counter, atEnd>>

-----------------------------------------------------------------------------
(***************************************************************************)
(* The controller: it changes the configuration, reads it back from the    *)
(* executor's maps and appends a step.                                     *)
(***************************************************************************)
ControlActs ==
  /\ control = "idle" /\ Registered /\ run.steps < MaxSteps
  /\ control' = "acted"
  /\ UNCHANGED <<run, worker, ctxDone, stopping, counter, atEnd>>

ControlRecords ==
  /\ control = "acted" /\ control' = "idle"
  /\ run' = IF Present THEN [run EXCEPT !.steps = @ + 1] ELSE run
  /\ UNCHANGED <<worker, ctxDone, stopping, counter, atEnd>>

ControlStops ==
  /\ control = "idle" /\ ctxDone /\ control' = "none"
  /\ UNCHANGED <<run, worker, ctxDone, stopping, counter, atEnd>>

RunSteps ==
  \/ WorkerBegins \/ WorkerRegisters \/ Samples \/ WorkerMeasures \/ WorkerChecks
  \/ WorkerCompletes \/ WorkerFails \/ WorkerStopped \/ Cleanup
  \/ ControlActs \/ ControlRecords \/ ControlStops
  \/ Evicted

\* What other clients do.
OthersCall == Created \/ Started \/ StartRefused \/ StopCancels \/ StopMarks
=============================================================================
