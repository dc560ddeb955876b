------------------------------ MODULE Workload ------------------------------
(***************************************************************************)
(* Workload generation for a run (internal/simd/workload_state.go): the    *)
(* arrivals of each pattern are scheduled ahead of the simulation clock,   *)
(* by a goroutine with a ticker (real-time mode) or by an event that       *)
(* comes back at the end of each window (standard mode), while rates and   *)
(* patterns are changed through the API.                                   *)
(*                                                                         *)
(* A pattern is locked while its arrivals are generated, and one arrival   *)
(* is one step, because the clock goes on and the context can be cancelled *)
(* in between.  There is never more than one generator: Start generates    *)
(* the first window before the ticker goroutine and the loop exist.        *)
(*                                                                         *)
(* Of the engine this module keeps the clock, the pending events (counted  *)
(* by pattern and time; events for the same time are taken in any order)   *)
(* and the limit on the length of its queue; module Engine has the rest.   *)
(* Times are instants of a grid on which the smallest gap is 1, and a rate *)
(* is a fraction of it.                                                    *)
(***************************************************************************)
EXTENDS Integers, Sequences, FiniteSets, FiniteSetsExt

CONSTANTS
  Patterns,        \* the workload patterns of the scenario
  Arrivals,        \* the arrival specifications used: [type, num, den]
  Modes,           \* the values of realTimeMode that are explored
  RunEnd,         \* endTime; the run starts at 0
  Window,          \* EventGenerationLookaheadWindow
  BurstDuration,   \* the burst and quiet phases of bursty arrivals
  QuietDuration,
  Compaction,      \* uniformCompactionThreshold
  MaxQueue,        \* MaxEventQueueSize; 0 disables it
  MaxUpdates       \* bound on the calls of UpdateRate and UpdatePattern

ASSUME WorkloadConstants ==
  /\ Modes \subseteq BOOLEAN /\ RunEnd \in Nat \ {0} /\ Window \in Nat \ {0}
  /\ BurstDuration \in Nat \ {0} /\ QuietDuration \in Nat
  /\ Compaction \in Nat \ {0} /\ MaxQueue \in Nat /\ MaxUpdates \in Nat
  /\ \A a \in Arrivals :
       /\ a.type \in {"poisson", "normal", "constant", "bursty", "uniform"}
       /\ a.num \in Nat \ {0} /\ a.den \in Nat \ {0}
       /\ a.type = "constant" => a.num <= a.den  \* up to one arrival per instant

VARIABLES
  realTime,  \* realTimeMode
  now,       \* the simulation time of the engine
  pending,   \* the arrivals in the event queue, by pattern and time
  genAt,     \* when the workload_generate event is due, or None
  guard,     \* has the engine latched a limit?
  done,      \* ctx of the workload state
  pat,       \* WorkloadPatternState of each pattern
  gen,       \* the generator: where it is, its window, the patterns it has left
  phase,     \* where the event loop is: "setup", "running", "ended", "failed"
  updates,   \* history: number of updates
  total      \* history: uniform arrivals due since Start or the last update

workloadVars == <<realTime, now, pending, genAt, guard, done, pat, gen, phase, updates, total>>

None == -1
Times == 0..(RunEnd - 1)
Earlier(a, b) == IF a < b THEN a ELSE b

WorkloadTypeOK ==
  /\ realTime \in BOOLEAN /\ guard \in BOOLEAN /\ done \in BOOLEAN
  /\ now \in 0..RunEnd
  /\ pending \in [Patterns -> [Times -> Nat]]
  /\ genAt \in Times \cup {None}
  /\ \A p \in Patterns :
       /\ pat[p].arrival \in Arrivals /\ pat[p].next \in Nat /\ pat[p].epoch \in 0..RunEnd
       /\ pat[p].times \in Seq(Times) /\ pat[p].cursor \in 0..Len(pat[p].times)
       /\ pat[p].watermark \in 0..RunEnd /\ pat[p].remaining \in Nat
       /\ pat[p].taken \in Nat
  /\ gen.step \in {"idle", "choosing", "generating"} /\ gen.todo \in SUBSET Patterns
  /\ gen.upto \in 0..RunEnd /\ gen.read \in 0..RunEnd
  /\ phase \in {"setup", "running", "ended", "failed"}
  /\ updates \in 0..MaxUpdates
  /\ total \in [Patterns -> Nat]

-----------------------------------------------------------------------------
(* Arrival times.                                                          *)

Uniform(ps) == ps.arrival.type = "uniform"

\* floor and round (half up) of rate * duration.
FloorOf(a, d) == (a.num * d) \div a.den
RoundOf(a, d) == (2 * a.num * d + a.den) \div (2 * a.den)

\* Bursts start at the epoch and come back after every quiet phase.
InBurst(t, epoch) == (t - epoch) % (BurstDuration + QuietDuration) < BurstDuration

\* calculateNextArrivalTime: the gap is random and at least the smallest one,
\* or 1/rate; a bursty arrival falls into a burst.  An arrival past the end
\* is as good as one at the end.
NextArrivals(a, t, epoch) ==
  CASE a.type \in {"poisson", "normal"} -> (t + 1)..Max({RunEnd, t + 1})
    [] a.type = "constant" -> {t + (a.den \div a.num)}
    [] a.type = "bursty" ->
         {u \in (t + 1)..RunEnd : InBurst(u, epoch)} \cup {Max({RunEnd, t + 1})}

\* uniformPlaceNInInterval: n sorted times of [from, to).
Placements(from, to, n) ==
  {s \in [1..n -> from..(to - 1)] : \A i \in 1..(n - 1) : s[i] <= s[i + 1]}

\* Without the rule that the last chunk gets all that remains.
ChunkCountsAtRandom(ps, from, to) ==
  IF realTime
  THEN {FloorOf(ps.arrival, to - ps.epoch) - FloorOf(ps.arrival, from - ps.epoch)}
  ELSE 0..ps.remaining

\* sampleGlobalUniformChunkCount, sampleLazyUniformChunk: how many arrivals
\* the chunk may get.  A binomial sample is any number up to what remains.
ChunkCounts(ps, from, to) ==
  IF realTime
  THEN {FloorOf(ps.arrival, to - ps.epoch) - FloorOf(ps.arrival, from - ps.epoch)}
  ELSE IF to >= RunEnd THEN {ps.remaining} ELSE 0..ps.remaining

\* compactUniformSchedule.
Compact(ps) ==
  IF ps.cursor < Compaction THEN ps
  ELSE [ps EXCEPT !.times = SubSeq(ps.times, ps.cursor + 1, Len(ps.times)), !.cursor = 0]

RECURSIVE Extend(_, _)

\* ensureUniformHorizon: the states of a pattern after its schedule has been
\* extended, chunk by chunk, over cover.  A chunk lies behind the ones before
\* it, so that appending keeps the schedule sorted.
Extend(ps, cover) ==
  IF ps.watermark >= Earlier(cover, RunEnd) THEN {Compact(ps)}
  ELSE LET to == Earlier(ps.watermark + Window, RunEnd)
       IN UNION {UNION {Extend([ps EXCEPT !.times = @ \o s,
                                          !.watermark = to,
                                          !.remaining = IF realTime THEN @ ELSE @ - n], cover)
                        : s \in Placements(ps.watermark, to, n)}
                 : n \in ChunkCounts(ps, ps.watermark, to)}

\* A uniform pattern that starts at t: its first chunk, and its first arrival.
UniformFrom(ps, a, t) ==
  {[qs EXCEPT !.next = IF Len(qs.times) > 0 THEN qs.times[1] ELSE RunEnd]
     : qs \in Extend([ps EXCEPT !.arrival = a, !.times = << >>, !.cursor = 0, !.taken = 0,
                                !.watermark = t, !.epoch = t,
                                !.remaining = IF realTime THEN 0 ELSE RoundOf(a, RunEnd - t)],
                     t + Window)}

\* advanceToNextArrival, after the arrival ps.next has been scheduled.
Advance(ps) ==
  IF ~Uniform(ps)
  THEN {[ps EXCEPT !.next = t] : t \in NextArrivals(ps.arrival, ps.next, ps.epoch)}
  ELSE LET Step(qs) == Compact([qs EXCEPT !.cursor = @ + 1, !.taken = @ + 1])
           Found(qs) == qs.cursor < Len(qs.times)
           Set(qs) == [qs EXCEPT !.next = IF Found(qs) THEN qs.times[qs.cursor + 1] ELSE RunEnd]
       IN UNION {IF Found(Step(qs)) \/ qs.watermark >= RunEnd
                 THEN {Set(Step(qs))}
                 ELSE {Set(rs) : rs \in Extend(Step(qs), qs.watermark + Window)}
                 : qs \in Extend(ps, ps.next + Window)}

-----------------------------------------------------------------------------
(* Start.                                                                  *)

Fresh(a) == [arrival |-> a, next |-> 0, epoch |-> 0, times |-> << >>, cursor |-> 0,
             watermark |-> 0, remaining |-> 0, taken |-> 0]

\* initPatternsLocked.
FirstStates(a) ==
  IF a.type = "uniform" THEN UniformFrom(Fresh(a), a, 0)
  ELSE {[Fresh(a) EXCEPT !.next = t] : t \in NextArrivals(a, 0, 0)}

\* The generator starts a round: its window ends ahead of the time it has read.
Round(t) == [step |-> "choosing", read |-> t, upto |-> Earlier(t + Window, RunEnd),
             todo |-> Patterns, cur |-> CHOOSE p \in Patterns : TRUE]

WorkloadInit ==
  /\ realTime \in Modes
  /\ now = 0 /\ genAt = None /\ guard = FALSE /\ done = FALSE
  /\ pending = [p \in Patterns |-> [t \in Times |-> 0]]
  /\ pat \in [Patterns -> UNION {FirstStates(a) : a \in Arrivals}]
  /\ gen = Round(0)
  /\ phase = "setup" /\ updates = 0
  /\ total = [p \in Patterns |-> IF Uniform(pat[p]) THEN RoundOf(pat[p].arrival, RunEnd) ELSE 0]

-----------------------------------------------------------------------------
(* Generation: generateUpToHorizon in standard mode, generateNextEvents in *)
(* real-time mode.  The context that the former looks at is cancelled only *)
(* by the cleanup, when the loop, its caller, has returned.                *)

Count == MapThenSumSet(LAMBDA p : MapThenSumSet(LAMBDA t : pending[p][t], Times), Patterns)
Queued == Count + IF genAt = None THEN 0 ELSE 1

\* ScheduleAt: a full queue latches the limit and drops the event.
Full == MaxQueue > 0 /\ Queued >= MaxQueue

\* The next pattern is locked and a uniform schedule extended.
GenLocks(p) ==
  /\ gen.step = "choosing" /\ p \in gen.todo
  /\ gen' = [gen EXCEPT !.step = "generating", !.cur = p, !.todo = @ \ {p}]
  /\ IF Uniform(pat[p])
     THEN \E ps \in Extend(pat[p], gen.upto) : pat' = [pat EXCEPT ![p] = ps]
     ELSE UNCHANGED pat
  /\ UNCHANGED <<realTime, now, pending, genAt, guard, done, phase, updates, total>>

Ahead == pat[gen.cur].next < gen.upto

\* One arrival is scheduled, and the pattern advanced; in standard mode a
\* latched limit ends the round first.
GenSchedules ==
  /\ gen.step = "generating" /\ Ahead
  /\ IF Full THEN guard' = TRUE /\ UNCHANGED pending
     ELSE /\ pending' = [pending EXCEPT ![gen.cur][pat[gen.cur].next] = @ + 1]
          /\ UNCHANGED guard
  /\ IF ~realTime /\ guard'
     THEN gen' = [gen EXCEPT !.step = "choosing", !.todo = {}] /\ UNCHANGED pat
     ELSE /\ \E ps \in Advance(pat[gen.cur]) : pat' = [pat EXCEPT ![gen.cur] = ps]
          /\ UNCHANGED gen
  /\ UNCHANGED <<realTime, now, genAt, done, phase, updates, total>>

GenUnlocks ==
  /\ gen.step = "generating" /\ ~Ahead
  /\ gen' = [gen EXCEPT !.step = "choosing"]
  /\ UNCHANGED <<realTime, now, pending, genAt, guard, done, pat, phase, updates, total>>

\* The next round comes one instant late.
GenEndsLate ==
  /\ gen.step = "choosing" /\ gen.todo = {}
  /\ gen' = [gen EXCEPT !.step = "idle"]
  /\ phase' = IF phase = "setup" THEN "running" ELSE phase
  /\ IF ~realTime /\ gen.upto < RunEnd
     THEN IF Full THEN guard' = TRUE /\ UNCHANGED genAt
          ELSE genAt' = Earlier(gen.upto + 1, RunEnd - 1) /\ UNCHANGED guard
     ELSE UNCHANGED <<genAt, guard>>
  /\ UNCHANGED <<realTime, now, pending, done, pat, updates, total>>

\* The round is over.  In standard mode the next one is scheduled for the end
\* of the window.
GenEnds ==
  /\ gen.step = "choosing" /\ gen.todo = {}
  /\ gen' = [gen EXCEPT !.step = "idle"]
  /\ phase' = IF phase = "setup" THEN "running" ELSE phase
  /\ IF ~realTime /\ gen.upto < RunEnd
     THEN IF Full THEN guard' = TRUE /\ UNCHANGED genAt
          ELSE genAt' = gen.upto /\ UNCHANGED guard
     ELSE UNCHANGED <<genAt, guard>>
  /\ UNCHANGED <<realTime, now, pending, done, pat, updates, total>>

\* generateEventsLoop: the ticker fires.
TickerFires ==
  /\ realTime /\ ~done /\ phase # "setup" /\ gen.step = "idle"
  /\ gen' = Round(now)
  /\ UNCHANGED <<realTime, now, pending, genAt, guard, done, pat, phase, updates, total>>

-----------------------------------------------------------------------------
(* The event loop.                                                         *)

LoopReady == phase = "running" /\ ~guard /\ (realTime \/ gen.step = "idle")
Due(t) ==
  /\ \A p \in Patterns : \A u \in Times : pending[p][u] > 0 => t <= u
  /\ genAt = None \/ t <= genAt

LoopTakesArrival(p, t) ==
  /\ LoopReady /\ pending[p][t] > 0 /\ Due(t)
  /\ now' = t
  /\ pending' = [pending EXCEPT ![p][t] = @ - 1]
  /\ UNCHANGED <<realTime, genAt, guard, done, pat, gen, phase, updates, total>>

\* handleWorkloadGenerate (its context is open, as above).
LoopTakesGenerate ==
  /\ LoopReady /\ genAt # None /\ Due(genAt)
  /\ now' = genAt /\ genAt' = None
  /\ gen' = Round(genAt)
  /\ UNCHANGED <<realTime, pending, guard, done, pat, phase, updates, total>>

LoopTakesEnd ==
  /\ LoopReady /\ Due(RunEnd)
  /\ now' = RunEnd /\ phase' = "ended"
  /\ UNCHANGED <<realTime, pending, genAt, guard, done, pat, gen, updates, total>>

\* The loop returns with a latched limit.
LoopFails ==
  /\ phase = "running" /\ guard /\ (realTime \/ gen.step = "idle")
  /\ phase' = "failed"
  /\ UNCHANGED <<realTime, now, pending, genAt, guard, done, pat, gen, updates, total>>

\* Stop, from the cleanup of the run.
Stop ==
  /\ phase \in {"ended", "failed"} /\ ~done
  /\ done' = TRUE
  /\ UNCHANGED <<realTime, now, pending, genAt, guard, pat, gen, phase, updates, total>>

-----------------------------------------------------------------------------
(* Updates through the API, for a run that has been registered.            *)

\* A pattern is updated under its lock, at the time the clock shows.
UpdatePattern(p, a) ==
  /\ phase # "setup" /\ ~done /\ updates < MaxUpdates
  /\ ~(gen.step = "generating" /\ gen.cur = p)
  /\ updates' = updates + 1
  /\ IF a.type = "uniform"
     THEN /\ \E ps \in UniformFrom(pat[p], a, now) : pat' = [pat EXCEPT ![p] = ps]
          /\ total' = [total EXCEPT ![p] = RoundOf(a, RunEnd - now)]
     ELSE /\ pat' = [pat EXCEPT ![p] = [Fresh(a) EXCEPT !.next = now, !.epoch = now]]
          /\ total' = [total EXCEPT ![p] = 0]
  /\ UNCHANGED <<realTime, now, pending, genAt, guard, done, gen, phase>>

\* UpdateRate keeps the type, and the epoch of a pattern that is not uniform.
UpdateRate(p, a) ==
  /\ phase # "setup" /\ ~done /\ updates < MaxUpdates
  /\ a.type = pat[p].arrival.type /\ a # pat[p].arrival
  /\ ~(gen.step = "generating" /\ gen.cur = p)
  /\ updates' = updates + 1
  /\ IF a.type = "uniform"
     THEN /\ \E ps \in UniformFrom(pat[p], a, now) : pat' = [pat EXCEPT ![p] = ps]
          /\ total' = [total EXCEPT ![p] = RoundOf(a, RunEnd - now)]
     ELSE /\ pat' = [pat EXCEPT ![p].arrival = a, ![p].next = now]
          /\ UNCHANGED total
  /\ UNCHANGED <<realTime, now, pending, genAt, guard, done, gen, phase>>

-----------------------------------------------------------------------------

GenStep == (\E p \in Patterns : GenLocks(p)) \/ GenSchedules \/ GenUnlocks \/ GenEnds

LoopProceeds ==
  \/ \E p \in Patterns, t \in Times : LoopTakesArrival(p, t)
  \/ LoopTakesGenerate \/ LoopTakesEnd \/ LoopFails

WorkloadNext ==
  \/ GenStep \/ TickerFires \/ LoopProceeds \/ Stop
  \/ \E p \in Patterns, a \in Arrivals : UpdatePattern(p, a) \/ UpdateRate(p, a)

WorkloadSpec == WorkloadInit /\ [][WorkloadNext]_workloadVars

\* The generator and the loop are goroutines that run.
WorkloadFairSpec == WorkloadSpec /\ WF_workloadVars(GenStep) /\ WF_workloadVars(LoopProceeds)

-----------------------------------------------------------------------------
(* Properties.                                                             *)

\* In standard mode, until a pattern is updated, the clock does not overtake
\* an arrival that has still to be scheduled: the event that generates the
\* next window comes no later than the first arrival of it.
ClockBehindGeneration ==
  (~realTime /\ updates = 0) => \A p \in Patterns : now <= pat[p].next

\* Chunk by chunk, a uniform pattern is given as many arrivals as its rate
\* asks for: in standard mode what was sampled and what remains make up
\* round(rate * rest of the run), in real-time mode what was sampled is
\* floor(rate * time covered).  Compaction of the schedule loses none.
UniformCounts ==
  \A p \in Patterns : Uniform(pat[p]) =>
    LET ps == pat[p]
        sampled == ps.taken + Len(ps.times) - ps.cursor
    IN IF realTime THEN sampled = FloorOf(ps.arrival, ps.watermark - ps.epoch)
       ELSE /\ sampled + ps.remaining = total[p]
            /\ ps.watermark = RunEnd => ps.remaining = 0

\* A uniform pattern that still has something to do before the end is at the
\* arrival its cursor points at: the sorted schedule is walked in order, also
\* when it is extended or compacted in between.
CursorAtNext ==
  \A p \in Patterns : Uniform(pat[p]) /\ pat[p].next < RunEnd =>
    /\ pat[p].cursor < Len(pat[p].times)
    /\ pat[p].times[pat[p].cursor + 1] = pat[p].next

\* A round of the generator ends, and so does the run.
GenerationEnds ==
  /\ gen.step # "idle" ~> gen.step = "idle"
  /\ <>(phase \in {"ended", "failed"})

\* A uniform schedule is sampled, extended, compacted and walked without losing
\* or repeating an arrival.
UniformSchedule == WorkloadTypeOK /\ UniformCounts /\ CursorAtNext
=============================================================================
