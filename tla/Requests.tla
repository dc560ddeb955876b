------------------------------ MODULE Requests ------------------------------
(***************************************************************************)
(* The requests of one trace: the handlers of internal/simd/handlers.go,   *)
(* handlers_finalization.go, handlers_timeout.go, handlers_retry.go and    *)
(* handlers_downstream_caller.go, with the request table of                *)
(* internal/engine/run.go.                                                 *)
(*                                                                         *)
(* An ingress request does its local work and then calls the endpoints     *)
(* downstream of it: synchronously (it waits for them, counted by          *)
(* pendingSync), asynchronously, or by publishing to a broker, whose       *)
(* consumer is one more request of the trace.  Callers time out, failed    *)
(* attempts are retried after a backoff, and the caller's own CPU overhead *)
(* comes before the call.  The handlers run one at a time in the order of  *)
(* the event queue.  What the resource manager, the policies and the       *)
(* random draws answer is left open.                                       *)
(***************************************************************************)
EXTENDS Integers, Sequences, FiniteSets, SequencesExt

CONSTANTS
  Scenarios,      \* the traces explored: for each endpoint, the calls it makes, in order
  Ingress,        \* the endpoint the workload calls
  Cached,         \* endpoints of services with a cache
  LocalTimeout,   \* timeout_ms of the endpoints; 0 disables it
  MaxTraceDepth,  \* simulation_limits.max_trace_depth; 0 disables it
  MaxAsyncHops,   \* simulation_limits.max_async_hops; 0 disables it
  MaxRetries,     \* policies.retries.max_retries; 0 when retries are disabled
  Backoff,        \* delay before a retry
  Waits,          \* how long a request may wait for CPU
  Durations,      \* how long local work may take
  MaxKeep,        \* maxCompletedKeep: finalized requests kept as samples
  MaxFaults       \* bound on the failures drawn in one trace

VARIABLES
  now,      \* the simulation time
  calls,    \* the calls each endpoint makes in this scenario
  events,   \* the event queue, first event first
  req,      \* the requests created, in order of creation
  pending,  \* pendingSync, 0 where the map has no entry
  samples,  \* completedOrder
  faults,   \* failures drawn so far
  trouble   \* history: requests one of whose calls lost its bookkeeping, see Troubled

vars == <<now, calls, events, req, pending, samples, faults, trouble>>

Modes == {"sync", "async", "queue"}
Call == [to : STRING, mode : Modes, timeout : Nat, retryable : BOOLEAN, overhead : Nat,
         forget : BOOLEAN]
\* The spec resolveDownstreamCallSpec returns when the edge is not found.
NoSpec(to) == [to |-> to, mode |-> "sync", timeout |-> 0, retryable |-> TRUE, overhead |-> 0,
               forget |-> FALSE]

ASSUME RequestsConstants ==
  /\ \A c \in Scenarios : Ingress \in DOMAIN c /\ \A ep \in DOMAIN c : c[ep] \in Seq(Call)
  /\ {LocalTimeout, MaxTraceDepth, MaxAsyncHops, MaxRetries, Backoff, MaxKeep, MaxFaults} \subseteq Nat
  /\ Waits \subseteq Nat \ {0} /\ Durations \subseteq Nat

None == -1
Ids == DOMAIN req
Statuses == {"pending", "processing", "completed", "failed"}

\* A request: its place in the trace, its status and the metadata the handlers keep on it.
NewRequest(ep, parent, k, async, attempt, td, ad) ==
  [ep |-> ep, parent |-> parent, call |-> k, async |-> async, attempt |-> attempt, td |-> td,
   ad |-> ad, consumer |-> FALSE, status |-> "pending", deferred |-> FALSE, hit |-> FALSE,
   localTimeout |-> FALSE, resolved |-> FALSE, waitTimedOut |-> FALSE, opTimedOut |-> FALSE,
   abandoned |-> FALSE, subtreeFailed |-> FALSE, ackAt |-> None, final |-> FALSE, active |-> TRUE,
   praised |-> 0, blamed |-> 0, ingressFailures |-> 0]

Kinds == {"arrival", "start", "complete", "call", "retry", "overhead_start", "overhead_end",
          "enqueue", "timeout", "finalize"}

TypeOK ==
  /\ now \in Nat /\ calls \in Scenarios
  /\ \A i \in DOMAIN events :
       /\ events[i].kind \in Kinds /\ events[i].at >= now /\ events[i].prio \in {0, 1}
       /\ events[i].r \in Ids \cup {0} /\ events[i].attempt \in 0..MaxRetries
  /\ \A i \in Ids : req[i].parent \in 0..(i - 1) /\ req[i].status \in Statuses
  /\ pending \in [Ids -> Nat]
  /\ ToSet(samples) \subseteq Ids /\ Len(samples) <= MaxKeep
  /\ faults \in 0..MaxFaults /\ trouble \subseteq Ids

-----------------------------------------------------------------------------
(* The event queue and the request table.  A handler computes the state    *)
(* it leaves behind, a record with the variables it may change.            *)

\* r: the request the event is about; for a call, the caller and the index of the call.
Event(kind, at, prio, r, k, attempt, again) ==
  [kind |-> kind, at |-> at, prio |-> prio, r |-> r, k |-> k, attempt |-> attempt, again |-> again]

NotAfter(d, e) == d.at < e.at \/ (d.at = e.at /\ d.prio <= e.prio)

Schedule(s, e) ==
  LET n == Cardinality({i \in DOMAIN s.events : NotAfter(s.events[i], e)})
  IN [s EXCEPT !.events = SubSeq(@, 1, n) \o <<e>> \o SubSeq(@, n + 1, Len(@))]

\* An event about a request, and one about a call of it.
About(kind, at, i) == Event(kind, at, 0, i, 0, 0, FALSE)

AddRequest(s, r) == [s EXCEPT !.req = Append(@, r), !.pending = Append(@, 0)]
Newest(s) == Len(s.req)

GetRequest(s, i) == i # 0 /\ (s.req[i].active \/ i \in ToSet(s.samples))

\* FinalizeRequest: off the active table; the last MaxKeep of them are kept as samples.
FinalizeRequest(s, i) ==
  LET kept == Append(s.samples, i)
  IN [s EXCEPT !.req[i].active = FALSE,
               !.samples = SubSeq(kept, Len(kept) - (IF Len(kept) > MaxKeep THEN MaxKeep ELSE Len(kept)) + 1,
                                  Len(kept))]

RecordSuccess(s, i) == [s EXCEPT !.req[i].praised = @ + 1]
RecordFailure(s, i) == [s EXCEPT !.req[i].blamed = @ + 1]
\* Counted for a request anywhere in the trace.
RecordLogicalFailure(s, i) == [s EXCEPT !.req[i].ingressFailures = @ + 1]

RecordIngressLogicalFailure(s, i) ==
  IF s.req[i].parent = 0 THEN [s EXCEPT !.req[i].ingressFailures = @ + 1] ELSE s

Troubled(s, i) == [s EXCEPT !.trouble = @ \cup {i}]

-----------------------------------------------------------------------------
(* handlers_finalization.go                                                *)

RECURSIVE finalizeRequestFailure(_, _)
RECURSIVE finalizeRequestCompletion(_, _)

\* A failed subtree is forgotten.
ParentSettlesWell(s, p) ==
  IF ~GetRequest(s, p) THEN s
  ELSE IF s.req[p].ackAt # None /\ now < s.req[p].ackAt THEN s
  ELSE finalizeRequestCompletion([s EXCEPT !.req[p].ackAt = None], p)

\* The last sync child has reported: the caller fails, waits for its publish-ack deadline
\* or completes.
ParentSettles(s, p) ==
  IF ~GetRequest(s, p) THEN s
  ELSE IF s.req[p].subtreeFailed THEN finalizeRequestFailure(s, p)
  ELSE IF s.req[p].ackAt # None /\ now < s.req[p].ackAt THEN s
  ELSE finalizeRequestCompletion([s EXCEPT !.req[p].ackAt = None], p)

\* Without the latch that an attempt was given up.
notifyParentOfEveryAnswer(s, c, failed) ==
  LET p == s.req[c].parent
      latched == [s EXCEPT !.req[c].resolved = TRUE]
      counted == [latched EXCEPT !.pending[p] = @ - 1,
                                 !.req[p].subtreeFailed = @ \/ (failed /\ GetRequest(s, p))]
  IN IF s.req[c].async THEN s
     ELSE IF s.pending[p] = 0 THEN latched
     ELSE IF s.pending[p] > 1 THEN counted
     ELSE ParentSettles(counted, p)

\* A sync child has succeeded or failed: its caller waits for one call less.
notifyParentSyncChildResolved(s, c, failed) ==
  LET p == s.req[c].parent
      latched == [s EXCEPT !.req[c].resolved = TRUE]
      counted == [latched EXCEPT !.pending[p] = @ - 1,
                                 !.req[p].subtreeFailed = @ \/ (failed /\ GetRequest(s, p))]
  IN IF s.req[c].async \/ s.req[c].resolved THEN s
     ELSE IF s.pending[p] = 0 THEN latched
     ELSE IF s.pending[p] > 1 THEN counted
     ELSE ParentSettles(counted, p)

\* A request that answers to a caller tells it.
Report(s, i, failed) ==
  IF s.req[i].parent # 0 /\ ~s.req[i].async THEN notifyParentSyncChildResolved(s, i, failed) ELSE s

finalizeRequestFailure(s, i) ==
  LET failed == RecordFailure(RecordIngressLogicalFailure(
                  [s EXCEPT !.req[i].final = TRUE, !.req[i].status = "failed"], i), i)
  IN IF s.req[i].final THEN s ELSE FinalizeRequest(Report(failed, i, TRUE), i)

finalizeRequestCompletion(s, i) ==
  LET r == s.req[i]
      done == [s EXCEPT !.req[i].final = TRUE, !.req[i].status = "completed"]
      judged == IF ~r.waitTimedOut THEN RecordSuccess(done, i)
                ELSE IF ~r.resolved THEN RecordFailure(done, i) ELSE done
  IN IF r.final THEN s
     ELSE IF r.abandoned THEN FinalizeRequest(done, i)
     ELSE IF r.status = "failed" THEN FinalizeRequest([s EXCEPT !.req[i].final = TRUE], i)
     ELSE IF r.opTimedOut /\ r.async THEN RecordFailure(done, i)
     ELSE FinalizeRequest(Report(judged, i, FALSE), i)

\* A child failed before its local work: propagateSyncChildFailureFromStartFailure.  It
\* differs from the notification of a failed child only in what a caller still waiting for
\* an acknowledgement does, and that caller fails in both.
propagateSyncChildFailureFromStartFailure(s, i) ==
  IF s.req[i].parent = 0 THEN s ELSE notifyParentSyncChildResolved(s, i, TRUE)

\* The caller's own CPU overhead could not be started: no child exists yet.
propagateSyncPendingFromCallerOverheadFailure(s, p, async) ==
  LET counted == [s EXCEPT !.pending[p] = @ - 1, !.req[p].subtreeFailed = TRUE]
  IN IF async \/ s.pending[p] = 0 THEN s
     ELSE IF s.pending[p] > 1 THEN counted ELSE finalizeRequestFailure(counted, p)

-----------------------------------------------------------------------------
(* handlers_retry.go                                                       *)

ShouldRetry(attempt) == attempt < MaxRetries

scheduleDownstreamRetryEvent(s, p, k, attempt) ==
  Schedule(s, Event("retry", now + Backoff, 0, p, k, attempt, TRUE))

\* A retry of the call that request c attempted.
Again(s, c) == scheduleDownstreamRetryEvent(s, s.req[c].parent, s.req[c].call, s.req[c].attempt + 1)

\* The failed attempt is left to speak for its call.
leaveFailedSyncAttempt(s, c) == s

isolateFailedSyncAttempt(s, c) == [s EXCEPT !.req[c].resolved = TRUE]

\* Is the request a sync child whose caller can still be found and whose attempts are not used up?
CanRetry(s, c) == ShouldRetry(s.req[c].attempt) /\ GetRequest(s, s.req[c].parent)

\* maybeRetrySyncStartFailure, and what its callers do when it declines.
RetryOr(s, c, declined) ==
  IF s.req[c].parent # 0 /\ ~s.req[c].async /\ CanRetry(s, c)
  THEN Again(isolateFailedSyncAttempt(IF s.req[c].resolved THEN Troubled(s, s.req[c].parent) ELSE s, c), c)
  ELSE declined

\* resolveDownstreamCallSpec: a consumer is not on an edge of the request that published.
Spec0(i, k, again) ==
  LET call == calls[req[i].ep][k] IN IF again /\ call.mode = "queue" THEN NoSpec(call.to) ELSE call

IsAsync(call) == call.mode # "sync"

\* The request an attempt creates.
Child(s, p, k, attempt, async) ==
  LET r == s.req[p] IN
  NewRequest(calls[r.ep][k].to, p, k, async, attempt, r.td + 1,
             r.ad + IF calls[r.ep][k].mode = "sync" THEN 0 ELSE 1)

\* execDownstreamSpawn: the request is created and started, with its timeout.
Spawn(s, p, k, attempt, again) ==
  LET call == Spec0(p, k, again)
      async == IsAsync(call)
      added == AddRequest(s, Child(s, p, k, attempt, async))
      started == Schedule(added, About("start", now, Newest(added)))
  IN IF call.timeout = 0 THEN started
     ELSE Schedule(started, Event("timeout", now + call.timeout, 1, Newest(added), 0, 0, FALSE))

\* execDownstreamSpawn: the call fails in transport.
SpawnFails(s, p, k, attempt, again) ==
  LET call == Spec0(p, k, again)
      async == IsAsync(call)
      added == AddRequest(s, [Child(s, p, k, attempt, async) EXCEPT !.status = "failed"])
      c == Newest(added)
      over == finalizeRequestFailure(added, c)
  IN IF call.retryable THEN RetryOr(added, c, over) ELSE over

\* execDownstreamSpawn: the target has no instance; nothing is added and nobody is told.
SpawnFindsNoInstance(s, p, k, again) ==
  IF IsAsync(Spec0(p, k, again)) THEN s ELSE Troubled(s, p)

-----------------------------------------------------------------------------
(* handlers_downstream_caller.go                                           *)

\* scheduleDownstreamWithCallerOverhead for a first attempt: the state, and the time the
\* next call is scheduled at, which is the acknowledgement of a publish.
scheduleDownstreamWithCallerOverhead(acc, i, k) ==
  LET call == calls[req[i].ep][k]
      End == acc.t + call.overhead
      Ev(kind, at) == Event(kind, at, 0, i, k, 0, FALSE)
  IN IF call.overhead > 0
     THEN [s |-> Schedule(Schedule(acc.s, Ev("overhead_start", acc.t)), Ev("overhead_end", End)),
           t |-> End]
     ELSE [s |-> Schedule(acc.s, Ev(IF call.mode = "queue" THEN "enqueue" ELSE "call", acc.t)),
           t |-> acc.t]

ScheduleCalls(s, i, ks, t) ==
  FoldLeft(LAMBDA acc, k : scheduleDownstreamWithCallerOverhead(acc, i, k), [s |-> s, t |-> t], ks)

-----------------------------------------------------------------------------
(* The handlers.  e is the first event of the queue.                       *)

Taken == [events |-> Tail(events), req |-> req, pending |-> pending, samples |-> samples,
          trouble |-> trouble]

Leaves(e, s) ==
  /\ now' = e.at
  /\ events' = s.events /\ req' = s.req /\ pending' = s.pending /\ samples' = s.samples
  /\ trouble' = s.trouble
  /\ UNCHANGED calls

Fault == faults < MaxFaults /\ faults' = faults + 1
NoFault == UNCHANGED faults

\* The clock is set before a handler runs, so that handlers read e.at as the time.
Due(e, kind) == e.kind = kind /\ now = e.at

\* The engine moves the clock to the next event.
ClockAdvances(e) ==
  /\ now < e.at
  /\ now' = e.at
  /\ UNCHANGED <<calls, events, req, pending, samples, faults, trouble>>

\* handleRequestArrival: refused by a policy or for lack of an instance, or admitted.
Arrives(s) == AddRequest(s, NewRequest(Ingress, 0, 0, FALSE, 0, 0, 0))

ArrivalRefused(e) ==
  /\ Due(e, "arrival") /\ Fault
  /\ LET s == Arrives(Taken) IN
     Leaves(e, RecordIngressLogicalFailure([s EXCEPT !.req[Newest(s)].status = "failed"], Newest(s)))

ArrivalAdmitted(e) ==
  /\ Due(e, "arrival") /\ NoFault
  /\ LET s == Arrives(Taken) IN Leaves(e, Schedule(s, About("start", now, Newest(s))))

\* handleRequestStart: a local failure is drawn.
StartFailsLocally(e) ==
  /\ Due(e, "start") /\ Fault
  /\ LET s == [Taken EXCEPT !.req[e.r].status = "failed"]
     IN Leaves(e, RetryOr(s, e.r, finalizeRequestFailure(s, e.r)))

\* handleRequestStart: no CPU or no memory is to be had.
StartRefused(e) ==
  /\ Due(e, "start") /\ Fault
  /\ LET s == RecordFailure(RecordIngressLogicalFailure(
                [Taken EXCEPT !.req[e.r].status = "failed"], e.r), e.r)
     IN Leaves(e, RetryOr(s, e.r, propagateSyncChildFailureFromStartFailure(s, e.r)))

\* handleRequestStart: the CPU is busy until later; the request starts then.
StartDeferred(e, w) ==
  /\ Due(e, "start") /\ ~req[e.r].deferred /\ NoFault
  /\ Leaves(e, Schedule([Taken EXCEPT !.req[e.r].deferred = TRUE], About("start", now + w, e.r)))

\* handleRequestStart: the work is under way and its end is known.
StartRuns(e, d, hit) ==
  LET late == LocalTimeout > 0 /\ d > LocalTimeout IN
  /\ Due(e, "start") /\ NoFault
  /\ hit => req[e.r].ep \in Cached
  /\ Leaves(e, Schedule([Taken EXCEPT !.req[e.r].status = "processing", !.req[e.r].deferred = FALSE,
                                      !.req[e.r].hit = hit, !.req[e.r].localTimeout = late],
                        About("complete", now + (IF late THEN LocalTimeout ELSE d), e.r)))

\* partitionDownstreamFiltered: the calls of request i within the depth limits, of a kind.
partitionDownstreamFiltered(i, async) ==
  LET r == req[i]
      cs == calls[r.ep]
  IN SelectSeq([k \in DOMAIN cs |-> k],
               LAMBDA k : /\ IsAsync(cs[k]) = async
                          /\ MaxTraceDepth = 0 \/ r.td + 1 <= MaxTraceDepth
                          /\ MaxAsyncHops = 0 \/ ~async \/ r.ad + 1 <= MaxAsyncHops)

Finalizes(i, at) == About("finalize", at, i)

\* handleRequestComplete: local work is over, downstream calls begin.
handleRequestComplete(e) ==
  LET i == e.r
      cs == calls[req[i].ep]
      asyncCalls == partitionDownstreamFiltered(i, TRUE)
      syncCalls == partitionDownstreamFiltered(i, FALSE)
      deferQueueFinalize == \E k \in ToSet(asyncCalls) : cs[k].mode = "queue" /\ ~cs[k].forget
      published == ScheduleCalls(Taken, i, asyncCalls, now)
      marked == IF deferQueueFinalize THEN [published.s EXCEPT !.req[i].ackAt = published.t]
                                      ELSE published.s
      waiting == [marked EXCEPT !.pending[i] = Len(syncCalls)]
      armed == IF deferQueueFinalize THEN Schedule(waiting, Finalizes(i, published.t)) ELSE waiting
  IN /\ Due(e, "complete") /\ NoFault
     /\ Leaves(e, IF req[i].localTimeout THEN finalizeRequestFailure(Taken, i)
                  ELSE IF req[i].hit THEN finalizeRequestCompletion(Taken, i)
                  ELSE IF syncCalls # <<>> THEN ScheduleCalls(armed, i, syncCalls, published.t).s
                  ELSE IF deferQueueFinalize THEN armed
                  ELSE finalizeRequestCompletion(marked, i))

\* handleDownstreamCall and, with no overhead of the caller's, handleDownstreamRetry.
Spawns(e) ==
  \/ Due(e, "call")
  \/ Due(e, "retry") /\ Spec0(e.r, e.k, TRUE).overhead = 0
  \/ Due(e, "overhead_end") /\ e.again

CallSpawns(e) == Spawns(e) /\ NoFault /\ Leaves(e, Spawn(Taken, e.r, e.k, e.attempt, e.again))
CallFails(e) == Spawns(e) /\ Fault /\ Leaves(e, SpawnFails(Taken, e.r, e.k, e.attempt, e.again))
CallFindsNoInstance(e) ==
  Spawns(e) /\ Fault /\ Leaves(e, SpawnFindsNoInstance(Taken, e.r, e.k, e.again))

\* handleDownstreamRetry: the caller pays its overhead once more.
RetryPaysOverhead(e) ==
  LET call == Spec0(e.r, e.k, TRUE)
      Ev(kind, at) == [e EXCEPT !.kind = kind, !.at = at]
  IN /\ Due(e, "retry") /\ call.overhead > 0 /\ NoFault
     /\ Leaves(e, Schedule(Schedule(Taken, Ev("overhead_start", now)),
                           Ev("overhead_end", now + call.overhead)))

\* handleDownstreamCallerOverheadStart
OverheadStarts(e) == Due(e, "overhead_start") /\ NoFault /\ Leaves(e, Taken)

OverheadStartFails(e) ==
  LET async == IsAsync(calls[req[e.r].ep][e.k])
      s == IF async THEN Taken ELSE Troubled(Taken, e.r)
  IN /\ Due(e, "overhead_start") /\ Fault
     /\ Leaves(e, IF ~async /\ ShouldRetry(e.attempt)
                  THEN scheduleDownstreamRetryEvent(s, e.r, e.k, e.attempt + 1)
                  ELSE propagateSyncPendingFromCallerOverheadFailure(s, e.r, async))

\* handleDownstreamCallerOverheadEnd of a first attempt; a retry is spawned at once.
OverheadEnds(e) ==
  /\ Due(e, "overhead_end") /\ ~e.again /\ NoFault
  /\ Leaves(e, Schedule(Taken, [e EXCEPT !.kind =
                                  IF calls[req[e.r].ep][e.k].mode = "queue" THEN "enqueue" ELSE "call"]))

\* The broker (module Broker) hands the message to a consumer, if the publisher is known.
Delivered(e) ==
  LET r == [Child(Taken, e.r, e.k, 0, TRUE) EXCEPT !.async = FALSE, !.consumer = TRUE]
      s == AddRequest(Taken, r)
  IN /\ Due(e, "enqueue") /\ NoFault
     /\ Leaves(e, IF GetRequest(Taken, e.r) THEN Schedule(s, About("start", now, Newest(s))) ELSE Taken)

\* handleDownstreamTimeout of a call the caller does not wait for.
AsyncTimeout(e) ==
  LET c == e.r
      r == req[c]
      blamed == RecordFailure(Taken, c)
  IN /\ Due(e, "timeout") /\ r.async /\ NoFault
     /\ Leaves(e, IF ~GetRequest(Taken, c) \/ r.resolved \/ r.status \in {"completed", "failed"} \/ r.opTimedOut
                  THEN Taken
                  ELSE IF CanRetry(blamed, c) THEN Again([blamed EXCEPT !.req[c].abandoned = TRUE], c)
                  ELSE [blamed EXCEPT !.req[c].opTimedOut = TRUE])

\* handleDownstreamTimeout of a call the caller waits for.
SyncTimeout(e) ==
  LET c == e.r
      r == req[c]
      blamed == RecordFailure([Taken EXCEPT !.req[c].waitTimedOut = TRUE], c)
  IN /\ Due(e, "timeout") /\ ~r.async /\ NoFault
     /\ Leaves(e, IF ~GetRequest(Taken, c) \/ r.resolved \/ r.status = "completed" THEN Taken
                  ELSE IF CanRetry(blamed, c) THEN Again(isolateFailedSyncAttempt(blamed, c), c)
                  ELSE notifyParentSyncChildResolved(blamed, c, TRUE))

\* handleAsyncParentFinalize: the publish-ack deadline of a request has come.
handleAsyncParentFinalize(e) ==
  /\ Due(e, "finalize") /\ NoFault
  /\ Leaves(e, IF pending[e.r] > 0 THEN Taken
               ELSE finalizeRequestCompletion([Taken EXCEPT !.req[e.r].ackAt = None], e.r))

-----------------------------------------------------------------------------
Init ==
  /\ now = 0 /\ calls \in Scenarios
  /\ events = <<About("arrival", 0, 0)>>
  /\ req = <<>> /\ pending = <<>> /\ samples = <<>>
  /\ faults = 0 /\ trouble = {}

Next ==
  /\ events # <<>>
  /\ LET e == Head(events) IN
     \/ ClockAdvances(e)
     \/ ArrivalRefused(e) \/ ArrivalAdmitted(e)
     \/ StartFailsLocally(e) \/ StartRefused(e)
     \/ \E w \in Waits : StartDeferred(e, w)
     \/ \E d \in Durations, hit \in BOOLEAN : StartRuns(e, d, hit)
     \/ handleRequestComplete(e)
     \/ CallSpawns(e) \/ CallFails(e) \/ CallFindsNoInstance(e) \/ RetryPaysOverhead(e)
     \/ OverheadStarts(e) \/ OverheadStartFails(e) \/ OverheadEnds(e)
     \/ Delivered(e)
     \/ AsyncTimeout(e) \/ SyncTimeout(e)
     \/ handleAsyncParentFinalize(e)

\* Event handlers run to completion and the engine goes on to the next event.
Spec == Init /\ [][Next]_vars

-----------------------------------------------------------------------------
(* Properties.                                                             *)

Children(p, k) == {c \in Ids : req[c].parent = p /\ req[c].call = k}
SyncCalls(p) == {k \in DOMAIN calls[req[p].ep] : calls[req[p].ep][k].mode = "sync"}
Publishes(p) == \E k \in DOMAIN calls[req[p].ep] : calls[req[p].ep][k].mode = "queue"

\* The attempts of a call under way: scheduled, or a request its caller waits for.
Attempts(p, k) ==
  {<<"event", i>> : i \in {j \in DOMAIN events : /\ events[j].r = p /\ events[j].k = k
                                                 /\ events[j].kind \in {"call", "retry", "overhead_end"}}}
    \cup {<<"child", c>> : c \in {d \in Children(p, k) : ~req[d].resolved}}

\* The bookkeeping of these callers is known to go wrong: a consumer of what they publish
\* reports to them as if it were a call they wait for, or a call of theirs met an overhead that
\* could not start, a target without instances, or a late failure of an attempt already replaced.
Sound(p) == p \notin trouble /\ ~(Publishes(p) /\ SyncCalls(p) # {})

\* pendingSync counts exactly the calls still under way: a caller is neither finalized while
\* one is open nor left waiting for none, whatever timeouts, retries and late answers do
\* (handlers_finalization.go, handlers_timeout.go).
PendingExact ==
  \A p \in Ids : Sound(p) => pending[p] = Cardinality({k \in SyncCalls(p) : Attempts(p, k) # {}})

\* A call has one attempt under way at a time, and never more than 1 + max_retries attempts in
\* all (handlers_retry.go: an attempt is isolated before its retry is scheduled).
OneLiveAttempt ==
  \A p \in Ids : p \notin trouble =>
    \A k \in SyncCalls(p) : /\ Cardinality(Attempts(p, k)) <= 1
                            /\ Cardinality(Children(p, k)) <= 1 + MaxRetries

\* A request completes only if an attempt of each call it waits for has completed in time
\* (handlers_finalization.go: a failed subtree fails the caller).
CompletedMeansAnswered ==
  \A p \in Ids :
    (req[p].status = "completed" /\ ~req[p].hit /\ Sound(p)) =>
      \A k \in ToSet(partitionDownstreamFiltered(p, FALSE)) :
        \E c \in Children(p, k) : req[c].status = "completed" /\ ~req[c].waitTimedOut

\* An attempt the circuit breaker counts as a success is counted once and never as a failure:
\* what timed out is not praised for its late answer (finalizeRequestCompletion).
OneVerdict == \A i \in Ids : req[i].praised > 0 => req[i].praised = 1 /\ req[i].blamed = 0

\* Every failed external trace, and no other, is counted as an ingress failure exactly once,
\* wherever in the trace it failed (RecordIngressLogicalFailure).
IngressFailureOnce ==
  \A i \in Ids : req[i].ingressFailures = (IF req[i].parent = 0 /\ req[i].status = "failed" THEN 1 ELSE 0)

\* When no event is left, every request has been finalized and taken off the active table,
\* except those that failed before their local work, which the code leaves there, and those
\* whose asynchronous operation timed out, finalized but left there.
NothingForgotten ==
  (events = <<>> /\ trouble = {}) =>
    \A i \in Ids : \/ req[i].final /\ ~req[i].active
                   \/ req[i].status = "failed"
                   \/ req[i].final /\ req[i].opTimedOut

\* The answer of an attempt that was given up changes nothing for its caller
\* (isolateFailedSyncAttempt, metaCallerSyncResolved).
LateAnswersIgnored ==
  [][\A c \in Ids : (req[c].resolved /\ ~req[c].final /\ req'[c].final) =>
        /\ pending'[req[c].parent] = pending[req[c].parent]
        /\ req'[req[c].parent].status = req[req[c].parent].status]_vars

\* The calls of a request are accounted for, whatever is retried or comes late.
CallsAccounted == TypeOK /\ PendingExact /\ OneLiveAttempt

\* A request completes only on answers, and none is left behind at the end.
RequestsSettle == CompletedMeansAnswered /\ NothingForgotten

\* What happened to a request is counted once, by the breaker and at the ingress.
CountedOnce == OneVerdict /\ IngressFailureOnce
=============================================================================
