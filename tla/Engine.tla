------------------------------- MODULE Engine -------------------------------
(***************************************************************************)
(* The discrete-event engine (internal/engine): the event queue, the event *)
(* loop of Run, the runtime limits, and Stop.                              *)
(*                                                                         *)
(* The loop, the goroutine that generates real-time workload and the       *)
(* callers of Stop run side by side.  The queue has a lock of its own, the *)
(* counters are atomic and the guard error has a mutex, so ScheduleEvent   *)
(* is three steps: count, look at the size of the queue, push.  Latching a *)
(* guard error and cancelling the context is one step: nobody can tell the *)
(* two apart, because whoever looks at the context looks at the error too. *)
(*                                                                         *)
(* The heap of container/heap is a set from which the least event is       *)
(* taken.  What a handler does is left open here, except that it schedules *)
(* at or after the current time, as the handlers of internal/simd do.      *)
(***************************************************************************)
EXTENDS Integers, FiniteSets

CONSTANTS
  Loop,                \* the goroutine that runs Run
  Others,              \* goroutines that schedule events beside it
  Stoppers,            \* calls of Stop
  EndTime,             \* the simulated end; the simulation starts at 0
  Horizon,             \* no event is scheduled after it (bound)
  NearEnd,             \* 200ms: an empty queue this close to the end ends the run
  MaxEventsScheduled,  \* runtime limits; 0 disables one
  MaxEventsProcessed,
  MaxEventQueueSize,
  WallClockLimited,    \* is MaxWallClockRun set?
  RealTime,            \* realTimeMode
  MaxCounter           \* bound on the events of a behaviour

Procs == {Loop} \cup Others

ASSUME EngineConstants ==
  /\ Loop \notin Others /\ IsFiniteSet(Others)
  /\ EndTime \in Nat /\ Horizon \in Nat /\ EndTime <= Horizon /\ NearEnd \in Nat
  /\ MaxEventsScheduled \in Nat /\ MaxEventsProcessed \in Nat
  /\ MaxEventQueueSize \in Nat /\ MaxCounter \in Nat
  /\ WallClockLimited \in BOOLEAN /\ RealTime \in BOOLEAN

VARIABLES
  queue,      \* eventQueue.events
  counter,    \* eventCounter
  processed,  \* processed
  guardErr,   \* guardErr: the limit that was exceeded first, or "none"
  ctxDone,    \* is the context of the run manager cancelled?
  simTime,    \* simTime
  status,     \* run.Status of the run manager
  loop,       \* where the event loop is
  cur,        \* the event it has taken last
  result,     \* what Run returned
  sched,      \* where each goroutine is in ScheduleEvent, and the event
  seen,       \* the simulation time a goroutine has read
  stop        \* where each call of Stop is

engineVars == <<queue, counter, processed, guardErr, ctxDone, simTime, status,
                loop, cur, result, sched, seen, stop>>

Types == {"work", "end"}
Event == [type : Types, time : Nat, prio : {0, 1}, seq : Nat, by : Procs]
Limits == {"scheduled", "queue", "processed", "wall", "external"}
NoEvent == [type |-> "work", time |-> 0, prio |-> 0, seq |-> 0, by |-> Loop]

TypeOK ==
  /\ queue \in SUBSET Event /\ IsFiniteSet(queue)
  /\ counter \in Nat /\ processed \in Nat /\ simTime \in Nat
  /\ guardErr \in Limits \cup {"none"}
  /\ ctxDone \in BOOLEAN
  /\ status \in {"pending", "running", "completed"}
  /\ loop \in {"idle", "top", "ctx", "next", "sleep", "handle", "returned"}
  /\ cur \in Event
  /\ result \in {"none", "ok", "guard", "cancelled"}
  /\ sched \in [Procs -> [step : {"idle", "size", "push"}, ev : Event]]
  /\ seen \in [Others -> Nat]
  /\ stop \in [Stoppers -> {"idle", "clearing", "done"}]

EngineInit ==
  /\ queue = {} /\ counter = 0 /\ processed = 0 /\ simTime = 0
  /\ guardErr = "none" /\ ctxDone = FALSE
  /\ status = "pending" /\ loop = "idle" /\ cur = NoEvent /\ result = "none"
  /\ sched = [p \in Procs |-> [step |-> "idle", ev |-> NoEvent]]
  /\ seen = [p \in Others |-> 0]
  /\ stop = [s \in Stoppers |-> "idle"]

-----------------------------------------------------------------------------
(* Scheduling.                                                             *)

\* EventQueue.Less: time, then priority, then schedule order.
Less(a, b) ==
  \/ a.time < b.time
  \/ a.time = b.time /\ a.prio < b.prio
  \/ a.time = b.time /\ a.prio = b.prio /\ a.seq < b.seq

\* EventQueue.Next, Peek: the root of the heap.
First(e) == e \in queue /\ \A d \in queue \ {e} : Less(e, d)

\* Without the cancellation.
LatchOnly(limit) ==
  /\ guardErr' = IF guardErr = "none" THEN limit ELSE guardErr
  /\ UNCHANGED ctxDone

\* triggerGuardFailure: the first error stays, and cancels the run.
Latch(limit) ==
  /\ guardErr' = IF guardErr = "none" THEN limit ELSE guardErr
  /\ ctxDone' = (ctxDone \/ guardErr = "none")

Busy(p) == sched[p].step # "idle"

\* ScheduleEvent takes its number and tests the first limit.
ScheduleEvent(p, type, time, prio) ==
  LET e == [type |-> type, time |-> time, prio |-> prio, seq |-> counter + 1, by |-> p]
  IN /\ ~Busy(p) /\ counter < MaxCounter
     /\ counter' = counter + 1
     /\ IF MaxEventsScheduled > 0 /\ counter + 1 > MaxEventsScheduled
        THEN Latch("scheduled") /\ UNCHANGED sched
        ELSE /\ sched' = [sched EXCEPT ![p] = [step |-> "size", ev |-> e]]
             /\ UNCHANGED <<guardErr, ctxDone>>

\* The size before the push compared with the limit.
ScheduleChecksOldSize(p) ==
  /\ sched[p].step = "size"
  /\ IF MaxEventQueueSize > 0 /\ Cardinality(queue) > MaxEventQueueSize
     THEN Latch("queue") /\ sched' = [sched EXCEPT ![p].step = "idle"]
     ELSE sched' = [sched EXCEPT ![p].step = "push"] /\ UNCHANGED <<guardErr, ctxDone>>
  /\ UNCHANGED <<queue, counter, processed, simTime, status, loop, cur, result, seen, stop>>

\* ... and looks at the size of the queue, under the lock of the queue.
ScheduleChecksSize(p) ==
  /\ sched[p].step = "size"
  /\ IF MaxEventQueueSize > 0 /\ Cardinality(queue) + 1 > MaxEventQueueSize
     THEN Latch("queue") /\ sched' = [sched EXCEPT ![p].step = "idle"]
     ELSE sched' = [sched EXCEPT ![p].step = "push"] /\ UNCHANGED <<guardErr, ctxDone>>
  /\ UNCHANGED <<queue, counter, processed, simTime, status, loop, cur, result, seen, stop>>

SchedulePushes(p) ==
  /\ sched[p].step = "push"
  /\ queue' = queue \cup {sched[p].ev}
  /\ sched' = [sched EXCEPT ![p].step = "idle"]
  /\ UNCHANGED <<counter, processed, guardErr, ctxDone, simTime, status, loop, cur,
                 result, seen, stop>>

-----------------------------------------------------------------------------
(* Run.                                                                    *)

\* The loop goes on once its own call of ScheduleEvent has returned.
At(l) == loop = l /\ ~Busy(Loop)

\* Run returns; its deferred function completes a run that is running.
Return(r) ==
  /\ loop' = "returned" /\ result' = r
  /\ status' = IF status = "running" THEN "completed" ELSE status

\* Before Run, the goroutine that is going to call it schedules the first
\* drain sweep and the first window of arrivals.
SetupSchedules(time) ==
  /\ At("idle")
  /\ ScheduleEvent(Loop, "work", time, 0)
  /\ UNCHANGED <<queue, processed, simTime, status, loop, cur, result, seen, stop>>

RunStarts ==
  /\ At("idle")
  /\ status' = "running" /\ loop' = "top"
  /\ ScheduleEvent(Loop, "end", EndTime, 0)
  /\ UNCHANGED <<queue, processed, simTime, cur, result, seen, stop>>

\* The wall-clock limit and the guard error.
LoopChecksGuard ==
  /\ At("top")
  /\ \/ /\ guardErr = "none" /\ loop' = "ctx"
        /\ UNCHANGED <<guardErr, ctxDone, status, result>>
     \/ guardErr # "none" /\ Return("guard") /\ UNCHANGED <<guardErr, ctxDone>>
     \/ guardErr = "none" /\ WallClockLimited /\ Latch("wall") /\ Return("guard")
  /\ UNCHANGED <<queue, counter, processed, simTime, cur, sched, seen, stop>>

\* The context, and once more the guard error.
LoopChecksContext ==
  /\ At("ctx")
  /\ IF ctxDone
     THEN Return(IF guardErr # "none" THEN "guard" ELSE "cancelled")
     ELSE loop' = "next" /\ UNCHANGED <<status, result>>
  /\ UNCHANGED <<queue, counter, processed, guardErr, ctxDone, simTime, cur, sched, seen, stop>>

\* The next event is taken and counted, and the clock set to its time.
LoopTakes(e) ==
  /\ At("next") /\ First(e)
  /\ queue' = queue \ {e} /\ processed' = processed + 1
  /\ cur' = e
  /\ IF MaxEventsProcessed > 0 /\ processed + 1 > MaxEventsProcessed
     THEN Latch("processed") /\ Return("guard") /\ UNCHANGED simTime
     ELSE simTime' = e.time /\ loop' = "handle" /\ UNCHANGED <<guardErr, ctxDone, status, result>>
  /\ UNCHANGED <<counter, sched, seen, stop>>

\* An empty queue ends the run at or after the end, and else is waited on.
LoopFindsEmpty ==
  /\ At("next") /\ queue = {}
  /\ IF simTime < EndTime
     THEN loop' = "sleep" /\ UNCHANGED <<status, result>>
     ELSE Return("ok")
  /\ UNCHANGED <<queue, counter, processed, guardErr, ctxDone, simTime, cur, sched, seen, stop>>

\* Waiting for the next event without another look at the context.
LoopWaitsForEvent ==
  /\ At("sleep")
  /\ loop' = "next"
  /\ UNCHANGED <<queue, counter, processed, guardErr, ctxDone, simTime, status, cur, result,
                 sched, seen, stop>>

\* After the sleep an empty queue near the end ends the run.
LoopWakes ==
  /\ At("sleep")
  /\ IF queue = {} /\ EndTime - simTime < NearEnd
     THEN simTime' = EndTime /\ Return("ok")
     ELSE loop' = "top" /\ UNCHANGED <<simTime, status, result>>
  /\ UNCHANGED <<queue, counter, processed, guardErr, ctxDone, cur, sched, seen, stop>>

\* Counting from the start of the simulation in place of the current time.
HandlerSchedulesFromStart(time, prio) ==
  /\ At("handle") /\ cur.type = "work"
  /\ ScheduleEvent(Loop, "work", time, prio)
  /\ UNCHANGED <<queue, processed, simTime, status, loop, cur, result, seen, stop>>

\* The handler of an event (an event without one is skipped).
HandlerSchedules(time, prio) ==
  /\ At("handle") /\ cur.type = "work" /\ time >= simTime
  /\ ScheduleEvent(Loop, "work", time, prio)
  /\ UNCHANGED <<queue, processed, simTime, status, loop, cur, result, seen, stop>>

\* A limit outside the engine is exceeded: TriggerLimitExceeded.
HandlerTripsLimit ==
  /\ At("handle") /\ cur.type = "work"
  /\ Latch("external")
  /\ UNCHANGED <<queue, counter, processed, simTime, status, loop, cur, result, sched, seen, stop>>

HandlerReturns ==
  /\ At("handle") /\ cur.type = "work"
  /\ loop' = "top"
  /\ UNCHANGED <<queue, counter, processed, guardErr, ctxDone, simTime, status, cur,
                 result, sched, seen, stop>>

\* The end of the simulation.  In real-time mode it is first waited for, and
\* a cancellation cuts the wait short.
LoopEnds ==
  /\ At("handle") /\ cur.type = "end"
  /\ \/ Return("ok")
     \/ RealTime /\ ctxDone /\ Return("cancelled")
  /\ UNCHANGED <<queue, counter, processed, guardErr, ctxDone, simTime, cur, sched, seen, stop>>

-----------------------------------------------------------------------------
(* The other goroutines.                                                   *)

\* A generator reads the clock (GetSimTime) and schedules relative to it.
OtherReads(p) ==
  /\ ~Busy(p) /\ seen[p] # simTime
  /\ seen' = [seen EXCEPT ![p] = simTime]
  /\ UNCHANGED <<queue, counter, processed, guardErr, ctxDone, simTime, status, loop,
                 cur, result, sched, stop>>

OtherSchedules(p, time) ==
  /\ time >= seen[p]
  /\ ScheduleEvent(p, "work", time, 0)
  /\ UNCHANGED <<queue, processed, simTime, status, loop, cur, result, seen, stop>>

StopCancels(s) ==
  /\ stop[s] = "idle"
  /\ stop' = [stop EXCEPT ![s] = "clearing"]
  /\ ctxDone' = TRUE
  /\ UNCHANGED <<queue, counter, processed, guardErr, simTime, status, loop, cur,
                 result, sched, seen>>

StopClears(s) ==
  /\ stop[s] = "clearing"
  /\ stop' = [stop EXCEPT ![s] = "done"]
  /\ queue' = {}
  /\ UNCHANGED <<counter, processed, guardErr, ctxDone, simTime, status, loop, cur,
                 result, sched, seen>>

-----------------------------------------------------------------------------

ScheduleStep(p) == ScheduleChecksSize(p) \/ SchedulePushes(p)

LoopStep ==
  \/ LoopChecksGuard \/ LoopChecksContext
  \/ \E e \in queue : LoopTakes(e)
  \/ LoopFindsEmpty \/ LoopWakes \/ HandlerReturns \/ LoopEnds

Next ==
  \/ \E time \in 0..Horizon : SetupSchedules(time)
  \/ RunStarts \/ LoopStep \/ HandlerTripsLimit
  \/ \E time \in 0..Horizon, prio \in {0, 1} : HandlerSchedules(time, prio)
  \/ \E p \in Procs : ScheduleStep(p)
  \/ \E p \in Others : OtherReads(p) \/ \E time \in 0..Horizon : OtherSchedules(p, time)
  \/ \E s \in Stoppers : StopCancels(s) \/ StopClears(s)

Spec == EngineInit /\ [][Next]_engineVars

\* Goroutines are scheduled again; nobody has to call anything.
FairSpec ==
  /\ Spec
  /\ WF_engineVars(LoopStep)
  /\ \A p \in Procs : WF_engineVars(ScheduleStep(p))

-----------------------------------------------------------------------------
(* Properties.                                                             *)

EndPending ==
  \/ \E e \in queue : e.type = "end"
  \/ Busy(Loop) /\ sched[Loop].ev.type = "end"
  \/ loop = "handle" /\ cur.type = "end"

\* While the loop runs, it cannot miss its end: the end event is on its way,
\* or something it looks at in every round (guard error, context) ends it.
\* The limits drop events and Stop clears the queue, so this is not obvious.
EndNotLost ==
  loop \notin {"idle", "returned"} => EndPending \/ ctxDone

\* Run reports success only at the simulated end, although an empty queue
\* near the end, a clearing Stop and late pushes can all lead there.
SuccessMeansEnd ==
  result = "ok" => simTime = EndTime

\* The size check and the push are two steps; the queue can outgrow its limit
\* by one event for each other goroutine, and not by more.
QueueNearLimit ==
  MaxEventQueueSize > 0 => Cardinality(queue) <= MaxEventQueueSize + Cardinality(Others)

\* The clock goes back only for an event of another goroutine, never for one
\* that a handler has scheduled.
ClockBackOnlyForOthers ==
  [][simTime' < simTime => cur'.by # Loop]_engineVars

\* Events of one goroutine for the same time and priority are taken in the
\* order in which they were scheduled.
TiesBySequence ==
  [][(cur' # cur /\ cur'.by = cur.by /\ cur'.time = cur.time /\ cur'.prio = cur.prio)
       => cur'.seq > cur.seq]_engineVars

\* A limit that was exceeded is what Run reports: it does not call the run
\* cancelled, except in the wait at the end, which looks at the context only.
LimitReported ==
  [][(result = "none" /\ result' = "cancelled") => guardErr = "none" \/ cur.type = "end"]_engineVars

\* Run returns.
RunReturns ==
  loop # "idle" ~> loop = "returned"

\* The simulated end is never lost while the loop runs, and what Run reports as
\* a success did reach it.
EndGuarded == EndNotLost /\ SuccessMeansEnd
=============================================================================
