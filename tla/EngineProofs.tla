---------------------------- MODULE EngineProofs ----------------------------
(***************************************************************************)
(* Proofs about module Engine, for any number of goroutines, any limits    *)
(* and any end time.                                                       *)
(***************************************************************************)
EXTENDS Engine, FiniteSetTheorems, TLAPS

\* Whatever latches an error or stops the run has cancelled its context.
Cancelled ==
  /\ guardErr # "none" => ctxDone
  /\ \A s \in Stoppers : stop[s] # "idle" => ctxDone

\* The end event is scheduled by the loop, for the end time.
EndEvents ==
  /\ \A e \in queue : e.type = "end" => e.time = EndTime
  /\ \A p \in Procs : Busy(p) => /\ sched[p].ev.by = p
                                 /\ sched[p].ev.type = "end" => sched[p].ev.time = EndTime
  /\ cur.type = "end" => cur.time = EndTime

\* The clock is at the event that is handled, and does not pass the end
\* before the context is cancelled.
Clock ==
  /\ loop = "idle" => simTime = 0
  /\ loop = "handle" => simTime = cur.time
  /\ loop \in {"next", "sleep"} => simTime <= EndTime
  /\ loop \in {"top", "ctx", "handle"} /\ ~ctxDone => simTime <= EndTime

\* What the loop itself has scheduled is not in the past.
Ahead ==
  /\ \A e \in queue : e.by = Loop => e.time >= simTime
  /\ Busy(Loop) => sched[Loop].ev.time >= simTime

\* Two events of one goroutine at one place of the queue.
Tied(a, b) == a.by = b.by /\ a.time = b.time /\ a.prio = b.prio

\* A goroutine schedules one event after the other, with growing numbers.
Order ==
  /\ \A e \in queue : e.seq <= counter /\ (Tied(e, cur) => e.seq > cur.seq)
  /\ cur.seq <= counter
  /\ \A p \in Procs : Busy(p) =>
       /\ sched[p].ev.seq <= counter
       /\ \A e \in queue : e.by = p => e.seq < sched[p].ev.seq
       /\ cur.by = p => cur.seq < sched[p].ev.seq

Pushing == {p \in Procs : sched[p].step = "push"}

\* Who has passed the size check has a place, up to one for each goroutine.
Places ==
  MaxEventQueueSize > 0 =>
    Cardinality(queue) + Cardinality(Pushing) <= MaxEventQueueSize + Cardinality(Others)

Reported == (result # "none" => loop = "returned") /\ SuccessMeansEnd

Inv == TypeOK /\ Cancelled /\ EndEvents /\ EndNotLost /\ Clock /\ Ahead /\ Order /\ Reported

-----------------------------------------------------------------------------

\* The initial state of NewEngine satisfies the invariant.
LEMMA InitInv == EngineInit => Inv
  <1> SUFFICES ASSUME EngineInit PROVE Inv
    OBVIOUS
  <1>1. NoEvent \in Event
    BY DEF NoEvent, Event, Types, Procs
  <1>2. TypeOK
    BY <1>1, FS_EmptySet DEF EngineInit, TypeOK
  <1>3. Cancelled /\ EndEvents /\ EndNotLost /\ Reported /\ SuccessMeansEnd
    BY DEF EngineInit, Cancelled, EndEvents, EndNotLost, Reported, SuccessMeansEnd, Busy, NoEvent
  <1>4. Clock /\ Ahead /\ Order
    BY EngineConstants DEF EngineInit, Clock, Ahead, Order, Busy, NoEvent, Procs
  <1> QED BY <1>2, <1>3, <1>4 DEF Inv

\* triggerGuardFailure leaves the context cancelled, also when an error was there.
LEMMA LatchCancels ==
  ASSUME Inv, NEW limit \in Limits, Latch(limit)
  PROVE  guardErr' \in Limits /\ ctxDone' = TRUE
  BY DEF Inv, TypeOK, Cancelled, Latch, Limits

\* ScheduleEvent, up to its size check: the number is fresh, and an event that is
\* not accepted has cancelled the run.
LEMMA ScheduleEventStep ==
  ASSUME Inv, NEW p \in Procs, NEW type \in Types, NEW time \in Nat, NEW prio \in {0, 1},
         ScheduleEvent(p, type, time, prio),
         type = "end" => time = EndTime,
         p = Loop => time >= simTime,
         UNCHANGED <<queue, simTime, cur, stop>>
  PROVE  /\ counter' \in Nat /\ guardErr' \in Limits \cup {"none"} /\ ctxDone' \in BOOLEAN
         /\ sched' \in [Procs -> [step : {"idle", "size", "push"}, ev : Event]]
         /\ Cancelled' /\ EndEvents' /\ Ahead' /\ Order'
         /\ ctxDone => ctxDone'
         /\ p = Loop => ctxDone' \/ (Busy(Loop)' /\ sched'[Loop].ev.type = type)
         /\ p # Loop => sched'[Loop] = sched[Loop]
  <1> DEFINE e == [type |-> type, time |-> time, prio |-> prio, seq |-> counter + 1, by |-> p]
  <1> USE DEF Inv, TypeOK
  <1>1. e \in Event
    BY DEF Event
  <1>2. CASE MaxEventsScheduled > 0 /\ counter + 1 > MaxEventsScheduled
    <2>1. /\ counter' = counter + 1 /\ sched' = sched /\ ctxDone' = TRUE
          /\ guardErr' = IF guardErr = "none" THEN "scheduled" ELSE guardErr
      BY <1>2 DEF ScheduleEvent, Latch, Cancelled
    <2>2. EndEvents' /\ Ahead'
      BY <2>1 DEF EndEvents, Ahead, Busy
    <2>3. Order'
      BY <2>1 DEF Order, Busy, Event, Tied
    <2>4. Cancelled'
      BY <2>1 DEF Cancelled
    <2> QED BY <2>1, <2>2, <2>3, <2>4 DEF Limits
  <1>3. CASE ~(MaxEventsScheduled > 0 /\ counter + 1 > MaxEventsScheduled)
    <2>1. /\ counter' = counter + 1 /\ UNCHANGED <<guardErr, ctxDone>> /\ ~Busy(p)
          /\ sched' = [sched EXCEPT ![p] = [step |-> "size", ev |-> e]]
      BY <1>3 DEF ScheduleEvent
    <2>2. sched' \in [Procs -> [step : {"idle", "size", "push"}, ev : Event]]
      BY <2>1, <1>1
    <2>3. sched'[p] = [step |-> "size", ev |-> e] /\ \A q \in Procs \ {p} : sched'[q] = sched[q]
      BY <2>1
    <2>4. EndEvents'
      BY <2>1, <2>3 DEF EndEvents, Busy
    <2>5. Ahead'
      BY <2>1, <2>3 DEF Ahead, Busy, Procs
    <2>6. Order'
      <3>1. \A d \in queue' : d.seq <= counter' /\ (Tied(d, cur') => d.seq > cur'.seq)
        BY <2>1 DEF Order, Event
      <3>2. cur'.seq <= counter'
        BY <2>1 DEF Order, Event
      <3>3. ASSUME NEW q \in Procs, Busy(q)'
            PROVE  /\ sched'[q].ev.seq <= counter'
                   /\ \A d \in queue' : d.by = q => d.seq < sched'[q].ev.seq
                   /\ cur'.by = q => cur'.seq < sched'[q].ev.seq
        <4>1. CASE q = p
          BY <4>1, <2>1, <2>3 DEF Order, Event
        <4>2. CASE q # p
          BY <4>2, <3>3, <2>1, <2>3 DEF Order, Event, Busy
        <4> QED BY <4>1, <4>2
      <3> QED BY <3>1, <3>2, <3>3 DEF Order, Tied
    <2>7. Cancelled'
      BY <2>1 DEF Cancelled
    <2> QED BY <2>1, <2>2, <2>3, <2>4, <2>5, <2>6, <2>7 DEF Busy, Procs
  <1> QED BY <1>2, <1>3

\* The steps that call ScheduleEvent: before Run, at its start, from a handler
\* and from another goroutine.
LEMMA SetupStep ==
  ASSUME Inv, NEW time \in 0..Horizon, SetupSchedules(time)
  PROVE  Inv'
  <1> USE DEF Inv, TypeOK, SetupSchedules, At
  <1>1. Loop \in Procs /\ time \in Nat /\ time >= simTime
    BY EngineConstants DEF Procs, Clock
  <1>2. /\ counter' \in Nat /\ guardErr' \in Limits \cup {"none"} /\ ctxDone' \in BOOLEAN
        /\ sched' \in [Procs -> [step : {"idle", "size", "push"}, ev : Event]]
        /\ Cancelled' /\ EndEvents' /\ Ahead' /\ Order'
    BY <1>1, ScheduleEventStep DEF Types
  <1>3. EndNotLost' /\ Clock' /\ Reported'
    BY DEF EndNotLost, Clock, Reported, SuccessMeansEnd
  <1> QED BY <1>2, <1>3

\* Run schedules the end event and takes the loop to its top.
LEMMA RunStartsStep ==
  ASSUME Inv, RunStarts
  PROVE  Inv'
  <1> USE DEF Inv, TypeOK, RunStarts, At
  <1>1. Loop \in Procs /\ EndTime \in Nat /\ EndTime >= simTime
    BY EngineConstants DEF Procs, Clock
  <1>2. /\ counter' \in Nat /\ guardErr' \in Limits \cup {"none"} /\ ctxDone' \in BOOLEAN
        /\ sched' \in [Procs -> [step : {"idle", "size", "push"}, ev : Event]]
        /\ Cancelled' /\ EndEvents' /\ Ahead' /\ Order'
        /\ ctxDone' \/ (Busy(Loop)' /\ sched'[Loop].ev.type = "end")
    BY <1>1, ScheduleEventStep DEF Types
  <1>3. EndNotLost' /\ Clock' /\ Reported'
    BY <1>1, <1>2 DEF EndNotLost, EndPending, Busy, Clock, Reported, SuccessMeansEnd
  <1> QED BY <1>2, <1>3

\* A handler schedules at or after the current time.
LEMMA HandlerSchedulesStep ==
  ASSUME Inv, NEW time \in 0..Horizon, NEW prio \in {0, 1}, HandlerSchedules(time, prio)
  PROVE  Inv'
  <1> USE DEF Inv, TypeOK, HandlerSchedules, At
  <1>1. Loop \in Procs /\ time \in Nat
    BY EngineConstants DEF Procs
  <1>2. /\ counter' \in Nat /\ guardErr' \in Limits \cup {"none"} /\ ctxDone' \in BOOLEAN
        /\ sched' \in [Procs -> [step : {"idle", "size", "push"}, ev : Event]]
        /\ Cancelled' /\ EndEvents' /\ Ahead' /\ Order' /\ (ctxDone => ctxDone')
    BY <1>1, ScheduleEventStep DEF Types
  <1>3. EndNotLost'
    BY <1>2 DEF EndNotLost, EndPending
  <1>4. Clock' /\ Reported'
    BY <1>2 DEF Clock, Reported, SuccessMeansEnd
  <1> QED BY <1>2, <1>3, <1>4

\* Another goroutine schedules at or after the time it has read.
LEMMA OtherSchedulesStep ==
  ASSUME Inv, NEW p \in Others, NEW time \in 0..Horizon, OtherSchedules(p, time)
  PROVE  Inv'
  <1> USE DEF Inv, TypeOK, OtherSchedules
  <1>1. p \in Procs /\ p # Loop /\ time \in Nat
    BY EngineConstants DEF Procs
  <1>2. /\ counter' \in Nat /\ guardErr' \in Limits \cup {"none"} /\ ctxDone' \in BOOLEAN
        /\ sched' \in [Procs -> [step : {"idle", "size", "push"}, ev : Event]]
        /\ Cancelled' /\ EndEvents' /\ Ahead' /\ Order'
        /\ (ctxDone => ctxDone') /\ sched'[Loop] = sched[Loop]
    BY <1>1, ScheduleEventStep DEF Types
  <1>3. EndNotLost'
    BY <1>2 DEF EndNotLost, EndPending, Busy
  <1>4. Clock' /\ Reported'
    BY <1>2 DEF Clock, Reported, SuccessMeansEnd
  <1> QED BY <1>2, <1>3, <1>4

\* The size check of ScheduleEvent: an event that is dropped has cancelled the run.
LEMMA ScheduleChecksSizeStep ==
  ASSUME Inv, NEW p \in Procs, ScheduleChecksSize(p)
  PROVE  Inv'
  <1> USE DEF Inv, TypeOK, ScheduleChecksSize
  <1>1. /\ UNCHANGED <<queue, counter, processed, simTime, status, loop, cur, result, seen, stop>>
        /\ ctxDone => ctxDone'
        /\ ctxDone' \in BOOLEAN /\ guardErr' \in Limits \cup {"none"}
        /\ guardErr' # "none" => ctxDone'
        /\ \E s \in {"idle", "push"} : /\ sched' = [sched EXCEPT ![p].step = s]
                                       /\ s = "idle" => ctxDone'
    BY DEF Latch, Cancelled, Limits
  <1>2. PICK s \in {"idle", "push"} : /\ sched' = [sched EXCEPT ![p].step = s]
                                      /\ s = "idle" => ctxDone'
    BY <1>1
  <1>3. sched' \in [Procs -> [step : {"idle", "size", "push"}, ev : Event]]
    BY <1>2
  <1>4. \A q \in Procs : sched'[q].ev = sched[q].ev /\ (Busy(q)' => Busy(q))
    BY <1>2 DEF Busy
  <1>5. TypeOK' /\ Cancelled'
    BY <1>1, <1>3 DEF Cancelled
  <1>6. EndEvents' /\ Ahead' /\ Order'
    <2>1. EndEvents'
      BY <1>1, <1>4 DEF EndEvents
    <2>2. Ahead'
      BY <1>1, <1>4 DEF Ahead, Procs
    <2>3. Order'
      BY <1>1, <1>4 DEF Order, Tied
    <2> QED BY <2>1, <2>2, <2>3
  <1>7. EndNotLost'
    <2>1. CASE ctxDone'
      BY <2>1 DEF EndNotLost
    <2>2. CASE ~ctxDone'
      <3>1. s = "push" /\ ~ctxDone
        BY <2>2, <1>1, <1>2
      <3>2. Busy(Loop) => Busy(Loop)' /\ sched'[Loop].ev = sched[Loop].ev
        BY <3>1, <1>2 DEF Busy, Procs
      <3> QED BY <1>1, <3>1, <3>2 DEF EndNotLost, EndPending
    <2> QED BY <2>1, <2>2
  <1>8. Clock' /\ Reported'
    BY <1>1 DEF Clock, Reported, SuccessMeansEnd
  <1> QED BY <1>5, <1>6, <1>7, <1>8

\* The push puts the event where it was expected.
LEMMA SchedulePushesStep ==
  ASSUME Inv, NEW p \in Procs, SchedulePushes(p)
  PROVE  Inv'
  <1> USE DEF Inv, TypeOK, SchedulePushes
  <1> DEFINE d == sched[p].ev
  <1>1. /\ d \in Event /\ Busy(p) /\ queue' = queue \cup {d}
        /\ IsFiniteSet(queue')
    BY FS_AddElement DEF Busy
  <1>2. sched' \in [Procs -> [step : {"idle", "size", "push"}, ev : Event]]
    BY <1>1
  <1>3. /\ ~Busy(p)'
        /\ \A q \in Procs : sched'[q].ev = sched[q].ev /\ (Busy(q)' => Busy(q) /\ q # p)
        /\ \A q \in Procs \ {p} : Busy(q) => Busy(q)'
    BY DEF Busy
  <1>4. TypeOK' /\ Cancelled'
    BY <1>1, <1>2 DEF Cancelled
  <1>5. EndEvents'
    BY <1>1, <1>3 DEF EndEvents
  <1>6. Ahead'
    BY <1>1, <1>3 DEF EndEvents, Ahead, Procs
  <1>7. Order'
    <2>1. \A e \in queue' : e.seq <= counter' /\ (Tied(e, cur') => e.seq > cur'.seq)
      BY <1>1, <1>3 DEF EndEvents, Order, Tied
    <2>2. ASSUME NEW q \in Procs, Busy(q)'
          PROVE  /\ sched'[q].ev.seq <= counter'
                 /\ \A e \in queue' : e.by = q => e.seq < sched'[q].ev.seq
                 /\ cur'.by = q => cur'.seq < sched'[q].ev.seq
      <3>1. Busy(q) /\ q # p /\ sched'[q].ev = sched[q].ev
        BY <2>2, <1>3
      <3> QED BY <3>1, <1>1 DEF EndEvents, Order
    <2> QED BY <2>1, <2>2 DEF Order, Tied
  <1>8. EndNotLost'
    <2>1. CASE ctxDone \/ loop \in {"idle", "returned"}
      BY <2>1 DEF EndNotLost
    <2>2. CASE \E e \in queue : e.type = "end"
      BY <2>2, <1>1 DEF EndNotLost, EndPending
    <2>3. CASE loop = "handle" /\ cur.type = "end"
      BY <2>3 DEF EndNotLost, EndPending
    <2>4. CASE Busy(Loop) /\ sched[Loop].ev.type = "end"
      BY <2>4, <1>1, <1>3 DEF EndNotLost, EndPending, Procs
    <2> QED BY <2>1, <2>2, <2>3, <2>4 DEF EndNotLost, EndPending
  <1>9. Clock' /\ Reported'
    BY DEF Clock, Reported, SuccessMeansEnd
  <1> QED BY <1>4, <1>5, <1>6, <1>7, <1>8, <1>9

\* A step that leaves queue, clock, events and scheduling alone.
Still == UNCHANGED <<queue, counter, simTime, cur, sched>>

\* Such a step keeps what is said of events and numbers.
LEMMA StillKeeps ==
  ASSUME Inv, Still
  PROVE  EndEvents' /\ Ahead' /\ Order'
  BY DEF Inv, Still, EndEvents, Ahead, Order, Busy, Tied

\* The loop returns the latched error, or goes on.
LEMMA LoopChecksGuardStep ==
  ASSUME Inv, LoopChecksGuard
  PROVE  Inv'
  <1> USE DEF Inv
  <1>1. EndEvents' /\ Ahead' /\ Order'
    BY StillKeeps DEF Still, LoopChecksGuard
  <1>2. TypeOK' /\ Cancelled'
    <2>1. "wall" \in Limits
      BY DEF Limits
    <2>2. \/ UNCHANGED <<guardErr, ctxDone>>
          \/ guardErr' \in Limits /\ ctxDone' = TRUE
      BY <2>1, LatchCancels DEF LoopChecksGuard
    <2> QED BY <2>2 DEF TypeOK, LoopChecksGuard, Cancelled, Return
  <1>3. EndNotLost' /\ Clock'
    BY DEF EndNotLost, EndPending, Busy, Clock, LoopChecksGuard, At, Return
  <1>4. Reported'
    BY DEF LoopChecksGuard, Reported, SuccessMeansEnd, At, Return
  <1> QED BY <1>1, <1>2, <1>3, <1>4

\* The loop returns a cancellation, or goes on.
LEMMA LoopChecksContextStep ==
  ASSUME Inv, LoopChecksContext
  PROVE  Inv'
  <1> USE DEF Inv
  <1>1. EndEvents' /\ Ahead' /\ Order'
    BY StillKeeps DEF Still, LoopChecksContext
  <1>2. TypeOK' /\ Cancelled'
    BY DEF TypeOK, LoopChecksContext, Cancelled, Return
  <1>3. EndNotLost' /\ Clock'
    BY DEF EndNotLost, EndPending, Busy, Clock, LoopChecksContext, At, Return
  <1>4. Reported'
    BY DEF LoopChecksContext, Reported, SuccessMeansEnd, At, Return
  <1> QED BY <1>1, <1>2, <1>3, <1>4

\* The event that is taken is the least: no later than the end event, which is still
\* queued unless the run is cancelled, and before whatever it is tied with.
LEMMA LoopTakesStep ==
  ASSUME Inv, NEW e \in queue, LoopTakes(e)
  PROVE  Inv'
  <1> USE DEF Inv
  <1>1. /\ e \in Event /\ queue' = queue \ {e} /\ cur' = e /\ First(e) /\ ~Busy(Loop)
        /\ loop = "next" /\ IsFiniteSet(queue') /\ e.time \in Nat /\ e.seq \in Nat
        /\ \A d \in queue : d.time \in Nat /\ d.prio \in {0, 1} /\ d.seq \in Nat
        /\ UNCHANGED <<counter, sched, seen, stop>>
    BY FS_RemoveElement DEF TypeOK, LoopTakes, At, Event
  <1>2. TypeOK' /\ Cancelled'
    <2>1. "processed" \in Limits
      BY DEF Limits
    <2>2. \/ UNCHANGED <<guardErr, ctxDone>>
          \/ guardErr' \in Limits /\ ctxDone' = TRUE
      BY <2>1, LatchCancels DEF LoopTakes
    <2>3. /\ processed' \in Nat /\ simTime' \in Nat /\ loop' \in {"handle", "returned"}
          /\ status' \in {"pending", "running", "completed"}
          /\ result' \in {"none", "ok", "guard", "cancelled"}
      BY <1>1 DEF TypeOK, LoopTakes, Return
    <2> QED BY <1>1, <2>2, <2>3 DEF TypeOK, Cancelled
  <1>3. EndEvents'
    BY <1>1 DEF EndEvents, Busy
  <1>4. \A d \in queue' : e.time <= d.time
    BY <1>1 DEF First, Less
  <1>5. simTime' \in {simTime, e.time}
    BY DEF LoopTakes
  <1>6. Ahead'
    <2>1. \A d \in queue' : d.by = Loop => d.time >= simTime'
      BY <1>1, <1>4, <1>5 DEF Ahead
    <2> QED BY <2>1, <1>1 DEF Ahead, Busy
  <1>7. Order'
    <2>1. \A d \in queue' : d.seq <= counter' /\ (Tied(d, e) => d.seq > e.seq)
      BY <1>1 DEF First, Less, Tied, Order
    <2>2. ASSUME NEW q \in Procs, Busy(q)'
          PROVE  /\ sched'[q].ev.seq <= counter'
                 /\ \A d \in queue' : d.by = q => d.seq < sched'[q].ev.seq
                 /\ cur'.by = q => cur'.seq < sched'[q].ev.seq
      BY <1>1, <2>2 DEF Order, Busy
    <2> QED BY <1>1, <2>1, <2>2 DEF Order, Tied
  <1>8. EndNotLost'
    BY <1>1 DEF LoopTakes, EndNotLost, EndPending, Return, Busy, Latch
  <1>9. Clock'
    <2>1. CASE loop' = "returned"
      BY <2>1 DEF Clock
    <2>2. CASE loop' # "returned"
      <3>1. loop' = "handle" /\ simTime' = e.time /\ UNCHANGED ctxDone
        BY <2>2 DEF LoopTakes, Return
      <3>2. ~ctxDone => e.time <= EndTime
        <4>1. ~ctxDone => \E d \in queue : d.type = "end" /\ d.time = EndTime
          BY <1>1 DEF EndNotLost, EndPending, EndEvents
        <4> QED BY <4>1, <1>1, <1>4
      <3> QED BY <1>1, <3>1, <3>2 DEF Clock
    <2> QED BY <2>1, <2>2
  <1>10. Reported'
    BY <1>1 DEF LoopTakes, Reported, SuccessMeansEnd, Return
  <1> QED BY <1>2, <1>3, <1>6, <1>7, <1>8, <1>9, <1>10

\* An empty queue ends the run at its end only.
LEMMA LoopFindsEmptyStep ==
  ASSUME Inv, LoopFindsEmpty
  PROVE  Inv'
  <1> USE DEF Inv
  <1>1. EndEvents' /\ Ahead' /\ Order'
    BY StillKeeps DEF Still, LoopFindsEmpty
  <1>2. TypeOK' /\ Cancelled'
    BY DEF TypeOK, LoopFindsEmpty, Cancelled, Return
  <1>3. EndNotLost' /\ Clock'
    BY EngineConstants
       DEF TypeOK, EndNotLost, EndPending, Busy, Clock, LoopFindsEmpty, At, Return
  <1>4. Reported'
    BY EngineConstants DEF TypeOK, Clock, LoopFindsEmpty, Reported, SuccessMeansEnd, At, Return
  <1> QED BY <1>1, <1>2, <1>3, <1>4

\* The loop wakes up from its wait for an event.
LEMMA LoopWakesStep ==
  ASSUME Inv, LoopWakes
  PROVE  Inv'
  <1> USE DEF Inv
  <1>1. TypeOK' /\ Cancelled'
    BY EngineConstants DEF TypeOK, LoopWakes, Cancelled, Return
  <1>2. EndEvents' /\ Ahead' /\ Order'
    BY DEF LoopWakes, At, EndEvents, Ahead, Order, Busy, Tied
  <1>3. EndNotLost' /\ Clock'
    BY DEF EndNotLost, EndPending, Busy, Clock, LoopWakes, At, Return
  <1>4. Reported'
    BY DEF LoopWakes, Reported, SuccessMeansEnd, At, Return
  <1> QED BY <1>1, <1>2, <1>3, <1>4

\* A handler of a work event returns to the top of the loop.
LEMMA HandlerReturnsStep ==
  ASSUME Inv, HandlerReturns
  PROVE  Inv'
  <1> USE DEF Inv
  <1>1. EndEvents' /\ Ahead' /\ Order'
    BY StillKeeps DEF Still, HandlerReturns
  <1>2. TypeOK' /\ Cancelled'
    BY DEF TypeOK, HandlerReturns, Cancelled
  <1>3. EndNotLost' /\ Clock'
    BY DEF EndNotLost, EndPending, Busy, Clock, HandlerReturns, At
  <1>4. Reported'
    BY DEF HandlerReturns, Reported, SuccessMeansEnd, At
  <1> QED BY <1>1, <1>2, <1>3, <1>4

\* A handler latches a limit of its own.
LEMMA HandlerTripsLimitStep ==
  ASSUME Inv, HandlerTripsLimit
  PROVE  Inv'
  <1> USE DEF Inv
  <1>1. EndEvents' /\ Ahead' /\ Order'
    BY StillKeeps DEF Still, HandlerTripsLimit
  <1>2. guardErr' \in Limits /\ ctxDone' = TRUE
    BY LatchCancels DEF HandlerTripsLimit, Limits
  <1>3. TypeOK' /\ Cancelled'
    BY <1>2 DEF TypeOK, HandlerTripsLimit, Cancelled
  <1>4. EndNotLost' /\ Clock' /\ Reported'
    BY <1>2 DEF EndNotLost, Clock, Reported, SuccessMeansEnd, HandlerTripsLimit
  <1> QED BY <1>1, <1>3, <1>4

\* The end event ends the run.
LEMMA LoopEndsStep ==
  ASSUME Inv, LoopEnds
  PROVE  Inv'
  <1> USE DEF Inv
  <1>1. EndEvents' /\ Ahead' /\ Order'
    BY StillKeeps DEF Still, LoopEnds
  <1>2. TypeOK' /\ Cancelled'
    BY DEF TypeOK, LoopEnds, Cancelled, Return
  <1>3. EndNotLost' /\ Clock'
    BY DEF EndNotLost, Clock, LoopEnds, Return
  <1>4. Reported'
    BY DEF LoopEnds, At, EndEvents, Clock, Reported, SuccessMeansEnd, Return
  <1> QED BY <1>1, <1>2, <1>3, <1>4

\* Another goroutine reads the clock.
LEMMA OtherReadsStep ==
  ASSUME Inv, NEW p \in Others, OtherReads(p)
  PROVE  Inv'
  <1> USE DEF Inv
  <1>1. EndEvents' /\ Ahead' /\ Order'
    BY StillKeeps DEF Still, OtherReads
  <1>2. TypeOK' /\ Cancelled'
    BY DEF TypeOK, OtherReads, Cancelled
  <1>3. EndNotLost' /\ Clock' /\ Reported'
    BY DEF EndNotLost, EndPending, Busy, Clock, Reported, SuccessMeansEnd, OtherReads
  <1> QED BY <1>1, <1>2, <1>3

\* Stop cancels the context and then clears the queue.
LEMMA StopStep ==
  ASSUME Inv, NEW s \in Stoppers, StopCancels(s) \/ StopClears(s)
  PROVE  Inv'
  <1> USE DEF Inv, StopCancels, StopClears
  <1>1. ctxDone' = TRUE /\ queue' \in {queue, {}}
        /\ UNCHANGED <<counter, processed, guardErr, simTime, status, loop, cur, result, sched, seen>>
    BY DEF Cancelled, TypeOK
  <1>2. TypeOK' /\ Cancelled'
    BY <1>1, FS_EmptySet DEF TypeOK, Cancelled
  <1>3. EndEvents' /\ Ahead' /\ Order'
    BY <1>1 DEF EndEvents, Ahead, Order, Busy, Tied
  <1>4. EndNotLost' /\ Clock' /\ Reported'
    BY <1>1 DEF EndNotLost, Clock, Reported, SuccessMeansEnd
  <1> QED BY <1>2, <1>3, <1>4

\* Every step of the engine keeps the invariant.
LEMMA NextInv ==
  ASSUME Inv, [Next]_engineVars
  PROVE  Inv'
  <1>1. CASE UNCHANGED engineVars
    <2>1. TypeOK' /\ Cancelled'
      BY <1>1 DEF engineVars, Inv, TypeOK, Cancelled
    <2>2. EndEvents' /\ Ahead' /\ Order'
      BY <1>1, StillKeeps DEF engineVars, Still
    <2>3. EndNotLost' /\ Clock' /\ Reported'
      BY <1>1 DEF engineVars, Inv, EndNotLost, EndPending, Busy, Clock, Reported, SuccessMeansEnd
    <2> QED BY <2>1, <2>2, <2>3 DEF Inv
  <1>2. CASE \E time \in 0..Horizon : SetupSchedules(time)
    BY <1>2, SetupStep
  <1>3. CASE RunStarts
    BY <1>3, RunStartsStep
  <1>4. CASE LoopStep
    BY <1>4, LoopChecksGuardStep, LoopChecksContextStep, LoopTakesStep, LoopFindsEmptyStep,
       LoopWakesStep, HandlerReturnsStep, LoopEndsStep DEF LoopStep
  <1>5. CASE HandlerTripsLimit
    BY <1>5, HandlerTripsLimitStep
  <1>6. CASE \E time \in 0..Horizon, prio \in {0, 1} : HandlerSchedules(time, prio)
    BY <1>6, HandlerSchedulesStep
  <1>7. CASE \E p \in Procs : ScheduleStep(p)
    BY <1>7, ScheduleChecksSizeStep, SchedulePushesStep DEF ScheduleStep
  <1>8. CASE \E p \in Others : OtherReads(p) \/ \E time \in 0..Horizon : OtherSchedules(p, time)
    BY <1>8, OtherReadsStep, OtherSchedulesStep
  <1>9. CASE \E s \in Stoppers : StopCancels(s) \/ StopClears(s)
    BY <1>9, StopStep
  <1> QED BY <1>1, <1>2, <1>3, <1>4, <1>5, <1>6, <1>7, <1>8, <1>9 DEF Next

\* The invariant holds in every state of every behaviour.
THEOREM EngineInvariant == Spec => []Inv
  BY InitInv, NextInv, PTL DEF Spec

\* TypeOK: the engine is well typed in every state; its queue stays finite.
THEOREM EngineTypeCorrect == Spec => []TypeOK
  BY EngineInvariant, PTL DEF Inv

\* EndGuarded: while Run loops, the end event is on its way or the context is
\* cancelled, and Run reports success only with the clock at the end.
THEOREM EndIsGuarded == Spec => []EndGuarded
  <1>1. Inv => EndGuarded
    BY DEF Inv, Reported, EndGuarded
  <1> QED BY <1>1, EngineInvariant, PTL

\* Only two steps of the loop set the clock or the event that is handled.
LEMMA WhoMovesTheClock ==
  ASSUME [Next]_engineVars
  PROVE  (\E e \in queue : LoopTakes(e)) \/ LoopWakes \/ UNCHANGED <<simTime, cur>>
  <1>1. CASE LoopStep
    BY <1>1 DEF LoopStep, LoopChecksGuard, LoopChecksContext, LoopFindsEmpty, HandlerReturns, LoopEnds
  <1>2. CASE \E p \in Procs : ScheduleStep(p)
    BY <1>2 DEF ScheduleStep, ScheduleChecksSize, SchedulePushes
  <1>3. CASE \E p \in Others : OtherReads(p) \/ \E time \in 0..Horizon : OtherSchedules(p, time)
    BY <1>3 DEF OtherReads, OtherSchedules
  <1>4. CASE \E s \in Stoppers : StopCancels(s) \/ StopClears(s)
    BY <1>4 DEF StopCancels, StopClears
  <1>5. CASE UNCHANGED engineVars
    BY <1>5 DEF engineVars
  <1>6. CASE \/ \E time \in 0..Horizon : SetupSchedules(time)
             \/ RunStarts \/ HandlerTripsLimit
             \/ \E time \in 0..Horizon, prio \in {0, 1} : HandlerSchedules(time, prio)
    BY <1>6 DEF SetupSchedules, RunStarts, HandlerTripsLimit, HandlerSchedules
  <1> QED BY <1>1, <1>2, <1>3, <1>4, <1>5, <1>6 DEF Next

\* ClockBackOnlyForOthers: the clock is set back only for an event of another
\* goroutine.
THEOREM ClockOfLoopForward == Spec => ClockBackOnlyForOthers
  <1>1. ASSUME Inv, [Next]_engineVars
        PROVE  [simTime' < simTime => cur'.by # Loop]_engineVars
    <2> SUFFICES ASSUME Next, simTime' < simTime
                 PROVE  cur'.by # Loop
      BY <1>1 DEF engineVars
    <2> USE <1>1 DEF Inv
    <2>1. ASSUME NEW e \in queue, LoopTakes(e)
          PROVE  cur'.by # Loop
      <3>1. cur' = e /\ simTime' \in {simTime, e.time}
        BY <2>1 DEF LoopTakes
      <3>2. simTime \in Nat /\ e.time \in Nat /\ (e.by = Loop => e.time >= simTime)
        BY DEF Ahead, TypeOK, Event
      <3> QED BY <3>1, <3>2
    <2>2. CASE LoopWakes
      BY <2>2, EngineConstants DEF LoopWakes, At, Clock, TypeOK
    <2>3. (\E e \in queue : LoopTakes(e)) \/ LoopWakes \/ UNCHANGED simTime
      BY WhoMovesTheClock
    <2> QED BY <2>1, <2>2, <2>3 DEF TypeOK
  <1> QED BY <1>1, EngineInvariant, PTL DEF Spec, ClockBackOnlyForOthers

\* TiesBySequence: the events that one goroutine scheduled for the same time with
\* the same priority are taken in the order of their numbers.
THEOREM TiesInOrder == Spec => TiesBySequence
  <1>1. ASSUME Inv, [Next]_engineVars
        PROVE  [(cur' # cur /\ cur'.by = cur.by /\ cur'.time = cur.time /\ cur'.prio = cur.prio)
                  => cur'.seq > cur.seq]_engineVars
    <2>1. (\E e \in queue : cur' = e) \/ UNCHANGED cur
      BY <1>1, WhoMovesTheClock DEF LoopTakes, LoopWakes
    <2> QED BY <1>1, <2>1 DEF Inv, Order, Tied
  <1> QED BY <1>1, EngineInvariant, PTL DEF Spec, TiesBySequence

\* LimitReported: where Run looks at the context it looks at the guard error, so a
\* run that exceeded a limit is called cancelled only in the wait at its end.
THEOREM LimitIsReported == Spec => LimitReported
  <1>1. ASSUME [Next]_engineVars
        PROVE  [(result = "none" /\ result' = "cancelled")
                  => guardErr = "none" \/ cur.type = "end"]_engineVars
    <2>1. LoopChecksContext \/ LoopEnds \/ UNCHANGED result \/ result' \in {"ok", "guard"}
      BY <1>1 DEF Next, LoopStep, SetupSchedules, RunStarts, LoopChecksGuard,
             LoopTakes, LoopFindsEmpty, LoopWakes, HandlerReturns, HandlerTripsLimit,
             HandlerSchedules, ScheduleStep, ScheduleChecksSize, SchedulePushes, OtherReads,
             OtherSchedules, StopCancels, StopClears, engineVars, Return
    <2> QED BY <2>1 DEF LoopChecksContext, LoopEnds, Return
  <1> QED BY <1>1, PTL DEF Spec, LimitReported

-----------------------------------------------------------------------------
(* The bound on the queue is an induction of its own, over cardinalities.  *)

\* At most one event of each goroutine is between check and push.
LEMMA PushingFinite ==
  IsFiniteSet(Procs) /\ Cardinality(Procs) = Cardinality(Others) + 1
  /\ IsFiniteSet(Pushing) /\ Cardinality(Pushing) \in Nat /\ Cardinality(Others) \in Nat
  /\ Cardinality(Pushing) <= Cardinality(Others) + 1
  <1>1. Procs = Others \cup {Loop} /\ Pushing \subseteq Procs
    BY DEF Procs, Pushing
  <1>2. IsFiniteSet(Procs) /\ Cardinality(Procs) = Cardinality(Others) + 1
    BY <1>1, EngineConstants, FS_AddElement
  <1>3. IsFiniteSet(Pushing) /\ Cardinality(Pushing) <= Cardinality(Procs)
    BY <1>1, <1>2, FS_Subset
  <1> QED BY <1>2, <1>3, EngineConstants, FS_CardinalityType

\* A step that neither adds an event nor passes the size check keeps the bound.
LEMMA FewerPlaces ==
  ASSUME Inv, Places, queue' \subseteq queue, Pushing' \subseteq Pushing
  PROVE  Places'
  <1>1. /\ Cardinality(queue) \in Nat /\ Cardinality(queue') \in Nat
        /\ Cardinality(queue') <= Cardinality(queue)
    BY FS_Subset, FS_CardinalityType DEF Inv, TypeOK
  <1>2. /\ Cardinality(Pushing) \in Nat /\ Cardinality(Pushing') \in Nat
        /\ Cardinality(Pushing') <= Cardinality(Pushing) /\ Cardinality(Others) \in Nat
    BY PushingFinite, FS_Subset, FS_CardinalityType
  <1> QED BY <1>1, <1>2, EngineConstants DEF Places

\* A step keeps the count of the places.
LEMMA NextPlaces ==
  ASSUME Inv, Places, [Next]_engineVars
  PROVE  Places'
  <1> USE DEF Inv
  <1>0. Cardinality(queue) \in Nat
    BY FS_CardinalityType DEF TypeOK
  <1>1. ASSUME NEW p \in Procs, ScheduleChecksSize(p)
        PROVE  Places'
    <2>1. CASE sched' = [sched EXCEPT ![p].step = "idle"]
      <3>1. Pushing' \subseteq Pushing /\ queue' = queue
        BY <1>1, <2>1 DEF ScheduleChecksSize, Pushing, TypeOK
      <3> QED BY <3>1, FewerPlaces
    <2>2. CASE MaxEventQueueSize > 0 => Cardinality(queue) + 1 <= MaxEventQueueSize
      <3>1. queue' = queue
        BY <1>1 DEF ScheduleChecksSize
      <3>2. Cardinality(Pushing') <= Cardinality(Others) + 1 /\ Cardinality(Pushing') \in Nat
        <4>1. Pushing' \subseteq Procs
          BY DEF Pushing
        <4> QED BY <4>1, PushingFinite, FS_Subset, FS_CardinalityType
      <3> QED BY <1>0, <2>2, <3>1, <3>2, PushingFinite, EngineConstants DEF Places
    <2> QED BY <1>0, <1>1, <2>1, <2>2, EngineConstants DEF ScheduleChecksSize
  <1>2. ASSUME NEW p \in Procs, SchedulePushes(p)
        PROVE  Places'
    <2>1. p \in Pushing /\ Pushing' = Pushing \ {p} /\ queue' = queue \cup {sched[p].ev}
      BY <1>2 DEF SchedulePushes, Pushing, TypeOK
    <2>2. Cardinality(Pushing') = Cardinality(Pushing) - 1
      BY <2>1, PushingFinite, FS_RemoveElement
    <2>3. Cardinality(queue') \in Nat /\ Cardinality(queue') <= Cardinality(queue) + 1
      <3> DEFINE d == sched[p].ev
      <3> HIDE DEF d
      <3>1. IsFiniteSet(queue) /\ queue' = queue \cup {d}
        BY <2>1 DEF TypeOK, d
      <3>2. Cardinality(queue \cup {d}) = IF d \in queue THEN Cardinality(queue)
                                          ELSE Cardinality(queue) + 1
        BY <3>1, FS_AddElement
      <3> QED BY <1>0, <3>1, <3>2
    <2> QED BY <1>0, <2>2, <2>3, PushingFinite, EngineConstants DEF Places
  <1>3. \/ \E p \in Procs : ScheduleChecksSize(p) \/ SchedulePushes(p)
        \/ queue' \subseteq queue /\ Pushing' \subseteq Pushing
    <2>1. CASE \E p \in Procs : ScheduleStep(p)
      BY <2>1 DEF ScheduleStep
    <2>2. ASSUME NEW p \in Procs, NEW type, NEW time, NEW prio, ScheduleEvent(p, type, time, prio)
          PROVE  Pushing' \subseteq Pushing
      <3>1. sched' = sched \/ \E e : sched' = [sched EXCEPT ![p] = [step |-> "size", ev |-> e]]
        BY <2>2 DEF ScheduleEvent
      <3> QED BY <3>1 DEF Pushing, TypeOK
    <2>3. CASE ~ \E p \in Procs : ScheduleStep(p)
      <3>1. queue' \subseteq queue
        BY <2>3 DEF Next, LoopStep, SetupSchedules, RunStarts, LoopChecksGuard, LoopChecksContext,
             LoopTakes, LoopFindsEmpty, LoopWakes, HandlerReturns, LoopEnds, HandlerTripsLimit,
             HandlerSchedules, OtherReads, OtherSchedules, StopCancels, StopClears, engineVars
      <3>2. \/ UNCHANGED sched
            \/ \E p \in Procs : \E type, time, prio : ScheduleEvent(p, type, time, prio)
        BY <2>3 DEF Next, LoopStep, SetupSchedules, RunStarts, LoopChecksGuard, LoopChecksContext,
             LoopTakes, LoopFindsEmpty, LoopWakes, HandlerReturns, LoopEnds, HandlerTripsLimit,
             HandlerSchedules, OtherReads, OtherSchedules, StopCancels, StopClears, engineVars, Procs
      <3> QED BY <2>2, <3>1, <3>2 DEF Pushing
    <2> QED BY <2>1, <2>3
  <1> QED BY <1>1, <1>2, <1>3, FewerPlaces

\* QueueNearLimit: size check and push are two steps, and the queue outgrows its limit
\* by at most one event for each goroutine beside the loop.
THEOREM QueueStaysNearLimit == Spec => []QueueNearLimit
  <1>1. EngineInit => Places
    <2> SUFFICES ASSUME EngineInit PROVE Places
      OBVIOUS
    <2>1. queue = {} /\ Pushing = {}
      BY DEF EngineInit, Pushing
    <2> QED BY <2>1, FS_EmptySet, PushingFinite, EngineConstants DEF Places
  <1>2. Inv /\ Places => QueueNearLimit
    <2> SUFFICES ASSUME Inv, Places PROVE QueueNearLimit
      OBVIOUS
    <2>1. Cardinality(queue) \in Nat
      BY FS_CardinalityType DEF Inv, TypeOK
    <2> QED BY <2>1, PushingFinite, EngineConstants DEF Places, QueueNearLimit
  <1> QED BY <1>1, <1>2, NextPlaces, EngineInvariant, PTL DEF Spec
=============================================================================
