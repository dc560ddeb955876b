----------------------------- MODULE EventStream -----------------------------
(***************************************************************************)
(* One client that follows a run: the SSE stream of http_server.go         *)
(* (handleMetricsStream) or the gRPC stream of grpc_server.go              *)
(* (StreamRunEvents).  Both poll the run store at a tick and send what has *)
(* changed; the SSE stream reads the store and the collector several times *)
(* in one tick, and the run goes on in between.                            *)
(*                                                                         *)
(* A sent event is kept by what the properties ask of it: the optimization *)
(* steps that were delivered, the last status, the last counter update and *)
(* the event that ended the stream.                                        *)
(***************************************************************************)
EXTENDS RunView

VARIABLE strm   \* the stream

Closed == [kind |-> "sse", pc |-> "none", gen |-> 0, rec |-> NoRecord(0), prev |-> "ABSENT",
           col |-> 0, sentSteps |-> 0, at |-> 0, latest |-> 0,
           steps |-> <<>>, update |-> [at |-> 0, value |-> 0, gen |-> 0],
           snapshot |-> "none", last |-> ""]

StreamInit == strm = Closed

Polling == strm.pc \in {"tick", "got", "final", "metrics", "sum"}

\* The statuses at which a stream ends, and a list that lacks one.
EndsStreamNotStopped == {"COMPLETED", "FAILED"}
EndsStream == {"COMPLETED", "FAILED", "STOPPED"}

Done(e) == [strm EXCEPT !.pc = "done", !.last = e]

\* The tick is over: the record it read is dropped.
Waits(s) == [s EXCEPT !.pc = "tick", !.rec = Closed.rec, !.latest = 0]

\* The collector the store holds for the run now, by the run that filled it.
GetCollector == IF run.collector THEN run.gen ELSE 0

\* The steps of a record that were not sent yet; the count sent is remembered.
NewSteps(s, r) == [i \in 1..(r.steps - s.sentSteps) |-> [gen |-> r.gen, no |-> s.sentSteps + i]]

\* The count is not advanced.
SendsStepsAgain(s, r) ==
  IF r.steps > s.sentSteps THEN [s EXCEPT !.steps = @ \o NewSteps(s, r)] ELSE s

SendsSteps(s, r) ==
  IF r.steps > s.sentSteps
  THEN [s EXCEPT !.steps = @ \o NewSteps(s, r), !.sentSteps = r.steps]
  ELSE s

SendsStatus(s, r) == [s EXCEPT !.prev = r.status]

\* A stream is opened on a run that exists; the initial status is sent.
Opens ==
  /\ strm.pc = "none" /\ Present
  /\ \E k \in {"sse", "grpc"} :
       strm' = [Closed EXCEPT !.kind = k, !.pc = "tick", !.gen = run.gen,
                              !.prev = run.status,
                              !.col = IF k = "sse" THEN GetCollector ELSE 0]

\* The client goes away, or a write fails.
Disconnects == Polling /\ strm' = Done("gone")

\* sseWriteMetricsSnapshot: the stored metrics, or for a real-time run those the collector
\* yields so far.
Snapshot(r, streamLive, col) ==
  IF r.metrics THEN "stored" ELSE IF streamLive /\ col # 0 THEN "live" ELSE "none"

-----------------------------------------------------------------------------
(***************************************************************************)
(* One tick of the SSE stream.                                             *)
(***************************************************************************)
SseGets ==
  /\ strm.kind = "sse" /\ strm.pc = "tick"
  /\ strm' = IF Present THEN [strm EXCEPT !.pc = "got", !.rec = run] ELSE Done("error")

\* The collector is looked for until there is one; the status and the steps of the record
\* are sent, the progress with them.  A change to a terminal status skips both.
SseSends ==
  LET r == strm.rec
      s == [strm EXCEPT !.col = IF @ = 0 THEN GetCollector ELSE @]
      sent == SendsStatus(s, r) IN
  /\ strm.kind = "sse" /\ strm.pc = "got"
  /\ strm' = IF r.status # strm.prev /\ r.status \in EndsStream
             THEN [sent EXCEPT !.pc = "final"]
             ELSE [SendsSteps(sent, r) EXCEPT
                     !.pc = "metrics", !.rec = [Closed.rec EXCEPT !.realTime = r.realTime]]

\* The record is read again, its metrics are sent, then the complete event.
SseCompletes ==
  LET r == IF Present THEN run ELSE strm.rec IN
  /\ strm.kind = "sse" /\ strm.pc = "final"
  /\ strm' = [Done("complete") EXCEPT !.rec = r,
                                       !.snapshot = Snapshot(r, strm.rec.realTime, strm.col)]

\* The snapshot of a tick that goes on; for a real-time run the newest point of the counter's
\* series is read, and is news when its timestamp is not the one sent last.
SseReads ==
  LET live == strm.rec.realTime /\ strm.col # 0
      c == IF live THEN counter[strm.col] ELSE <<>> IN
  /\ strm.kind = "sse" /\ strm.pc = "metrics"
  /\ strm' = IF c = <<>> \/ c[Len(c)] = strm.at
             THEN Waits(strm)
             ELSE [strm EXCEPT !.pc = "sum", !.latest = c[Len(c)]]

\* metricUpdateValue: a counter is sent as the running sum of its series.
SeriesSum(c) == Len(c)

SseUpdates ==
  /\ strm.kind = "sse" /\ strm.pc = "sum"
  /\ strm' = [Waits(strm) EXCEPT !.at = strm.latest,
                          !.update = [at |-> strm.latest, gen |-> strm.col,
                                      value |-> SeriesSum(counter[strm.col])]]

-----------------------------------------------------------------------------
(***************************************************************************)
(* One tick of the gRPC stream: one read of the store, then the sends.     *)
(***************************************************************************)

GrpcTicks ==
  LET sent == SendsSteps(SendsStatus(strm, run), run) IN
  /\ strm.kind = "grpc" /\ strm.pc = "tick"
  /\ strm' = IF ~Present THEN Done("error")
             ELSE IF run.status \in EndsStream
             THEN [sent EXCEPT !.rec = run, !.snapshot = Snapshot(run, FALSE, 0),
                               !.pc = "done", !.last = "eof"]
             ELSE sent

StreamTicks == SseGets \/ SseSends \/ SseCompletes \/ SseReads \/ SseUpdates \/ GrpcTicks
StreamSteps == Opens \/ Disconnects \/ StreamTicks

-----------------------------------------------------------------------------

\* The steps delivered are those of the run in the order they were recorded, each once and
\* none left out, whatever was appended between two polls (lastOptStepCount).  After the
\* identifier was given to a new run the count goes on with the steps of that one.
StepsInOrder ==
  \A i \in DOMAIN strm.steps :
    /\ strm.steps[i].no = i
    /\ \A j \in 1..i : strm.steps[j].gen <= strm.steps[i].gen

\* A gRPC stream that ends with the run has delivered every step recorded before the end,
\* the ones appended since the last poll too.
GrpcDeliversAllSteps ==
  strm.last = "eof" /\ strm.rec.gen = strm.gen =>
    Len(strm.steps) >= atEnd[strm.gen]

\* The complete event of an SSE stream comes after a terminal status_change and names a
\* terminal status; the final metrics of a run it calls completed were sent before it, and so
\* were those a stopped worker stored after the stream had seen the run stop.
CompleteIsFinal ==
  strm.last = "complete" =>
    /\ strm.prev \in Terminal
    /\ strm.rec.gen = strm.gen =>
         /\ strm.rec.status \in Terminal
         /\ strm.rec.status = "COMPLETED" \/ strm.rec.metrics => strm.snapshot = "stored"

\* A counter update counts every sample older than its timestamp and the newest one, though
\* the simulation records on between the two reads of the collector.
UpdateCoversTimestamp ==
  LET u == strm.update
      older == {i \in DOMAIN counter[u.gen] : counter[u.gen][i] < u.at} IN
  u.gen # 0 => u.value > Cardinality(older)

\* A stream whose run ends is ended by the server, unless the identifier is given to a new
\* run first.  An SSE stream must have been opened, or have polled, before the end.
StreamEnds ==
  (Polling /\ Ended /\ run.gen = strm.gen /\ (strm.kind = "grpc" \/ strm.prev \notin Terminal))
    ~> (strm.pc = "done" \/ run.gen # strm.gen)

\* What a stream delivers is what happened: steps, final state and counters.
StreamFaithful ==
  StepsInOrder /\ GrpcDeliversAllSteps /\ CompleteIsFinal /\ UpdateCoversTimestamp
=============================================================================
