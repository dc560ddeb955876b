----------------------------- MODULE ApiProofs ------------------------------
(***************************************************************************)
(* Proofs about what the clients of the service observe (modules           *)
(* EventStream, RunCalls, Notifier and RunList), for any number of runs    *)
(* that bear the identifier, of steps, samples, entries, retries and       *)
(* listed runs.                                                            *)
(***************************************************************************)
EXTENDS MCApi, FiniteSetTheorems, TLAPS

clientVars == <<runVars, strm, callVars, note, listVars>>

\* The clients of one identifier and one list, all at work at the same time.
\* Module MCApi explores them one at a time and under bounds.
ClientInit == RunInit /\ StreamInit /\ CallInit /\ NoteInit /\ ListInit

ClientNext ==
  \/ (RunSteps \/ OthersCall) /\ UNCHANGED <<strm, callVars, note, listVars>>
  \/ StreamSteps /\ UNCHANGED <<runVars, callVars, note, listVars>>
  \/ CallSteps /\ UNCHANGED <<strm, note, listVars>>
  \/ NoteSteps /\ UNCHANGED <<runVars, strm, callVars, listVars>>
  \/ ListNext /\ UNCHANGED <<runVars, strm, callVars, note>>

ClientSpec == ClientInit /\ [][ClientNext]_clientVars

\* What the run of module MCApi explores are behaviours of the clients.
THEOREM ExploredAreClients == ApiSpec => ClientSpec
  <1>1. ApiInit => ClientInit
    BY DEF ApiInit, ClientInit
  <1>2. [ApiNext]_apiVars => [ClientNext]_clientVars
    BY DEF ApiNext, ClientNext, apiVars, clientVars, SmallRunSteps
  <1> QED BY <1>1, <1>2, PTL DEF ApiSpec, ClientSpec

-----------------------------------------------------------------------------
(* The run.                                                                *)

Statuses == {"ABSENT", "PENDING", "RUNNING"} \cup Terminal
Records ==
  [gen : Nat, status : Statuses, realTime : BOOLEAN, metrics : BOOLEAN, collector : BOOLEAN,
   steps : Nat]

USE RunViewConstants

\* A completed run has its metrics, which its worker stored before it looked at the status;
\* the steps recorded at its end are among those it has; its samples are in order of time.
RunOK ==
  /\ run \in Records /\ run.gen <= MaxGens
  /\ worker \in {"none", "begin", "wired", "running", "measured", "completing", "ended"}
  /\ control \in {"none", "idle", "acted"}
  /\ counter \in [Gens -> Seq(Nat)] /\ atEnd \in [Gens -> Nat]
  /\ Present \/ worker # "none" => run.gen \in Gens
  /\ run.status = "COMPLETED" => run.metrics
  /\ Present /\ worker \in {"measured", "completing"} => run.metrics
  /\ Ended => atEnd[run.gen] <= run.steps
  /\ \A g \in Gens : \A i, j \in 1..Len(counter[g]) : i <= j => counter[g][i] <= counter[g][j]

\* The run with number g has ended, or was never there.
Over(r, g) == r.gen > g \/ (r.gen = g /\ r.status \in Terminal \cup {"ABSENT"})

Extends(c, d) == Len(c) <= Len(d) /\ \A i \in 1..Len(c) : d[i] = c[i]

\* What no step takes back: what is over stays over with the steps it had, and samples stay.
Forward ==
  /\ run'.gen >= run.gen
  /\ \A g \in Nat : Over(run, g) => Over(run', g) /\ (g \in Gens => atEnd'[g] = atEnd[g])
  /\ \A g \in Gens : Extends(counter[g], counter'[g])

\* A step that leaves the record, the counters and the worker alone.
LEMMA Unmoved ==
  ASSUME RunOK, UNCHANGED <<run, worker, counter, atEnd>>, control' \in {"none", "idle", "acted"}
  PROVE  RunOK' /\ Forward
  BY DEF RunOK, Forward, Over, Extends, Records, Present, Ended, Gens

\* SetStatus with a terminal status, by whoever calls it.
LEMMA EndsAsSafe ==
  ASSUME RunOK, NEW s \in Terminal, EndsAs(s), s = "COMPLETED" /\ Present => run.metrics,
         UNCHANGED <<control, counter>>,
         worker' \in {"none", "begin", "wired", "running", "measured", "completing", "ended"},
         worker' # "none" => worker # "none",
         worker' \in {"measured", "completing"} => worker' = worker
  PROVE  RunOK' /\ Forward
  <1>1. run' \in Records /\ run'.gen = run.gen /\ run'.steps = run.steps /\ run'.metrics = run.metrics
        /\ run'.status = (IF Present THEN s ELSE "ABSENT")
    BY DEF RunOK, EndsAs, Records, Present, Statuses
  <1>2. atEnd' \in [Gens -> Nat] /\ (Ended' => atEnd'[run.gen] <= run.steps)
    BY <1>1 DEF RunOK, EndsAs, Records, Present, Ended, Terminal, Gens
  <1>3. \A g \in Gens : Over(run, g) => atEnd'[g] = atEnd[g]
    BY <1>1 DEF RunOK, EndsAs, Records, Present, Ended, Over, Gens
  <1>4. RunOK'
    BY <1>1, <1>2 DEF RunOK, Present, Ended, Terminal, Records
  <1>5. Forward
    BY <1>1, <1>3 DEF RunOK, Forward, Over, Extends, Records, Terminal, Present, Gens
  <1> QED BY <1>4, <1>5

\* Every step of the run's own goroutines, and of the clients nobody watches.
LEMMA RunStep ==
  ASSUME RunOK, RunSteps \/ OthersCall
  PROVE  RunOK' /\ Forward
  <1>1. CASE Created
    <2>1. run' \in Records /\ run'.gen = run.gen + 1 /\ run'.status = "PENDING" /\ run'.gen \in Gens
      <3>1. run.gen \in Nat /\ run.gen < MaxGens
        BY <1>1 DEF Created, RunOK, Records
      <3>2. PICK live \in BOOLEAN :
              run' = [NoRecord(run.gen + 1) EXCEPT !.status = "PENDING", !.realTime = live]
        BY <1>1 DEF Created
      <3>3. NoRecord(run.gen + 1) \in Records /\ NoRecord(run.gen + 1).gen = run.gen + 1
        BY <3>1 DEF NoRecord, Records, Statuses
      <3>4. run' \in Records /\ run'.gen = run.gen + 1 /\ run'.status = "PENDING"
        BY <3>2, <3>3 DEF Records, Statuses
      <3> QED BY <3>1, <3>4 DEF Gens
    <2>2. worker' = "none" /\ UNCHANGED <<control, counter, atEnd>>
      BY <1>1 DEF Created, Quiet
    <2> QED BY <2>1, <2>2 DEF RunOK, Forward, Over, Extends, Records, Present, Ended, Terminal, Gens
  <1>2. CASE Started
    <2>1. run' \in Records /\ run'.gen = run.gen /\ run'.status = "RUNNING" /\ run.status = "PENDING"
      BY <1>2 DEF Started, RunOK, Records, Statuses
    <2>2. worker' = "begin" /\ UNCHANGED <<control, counter, atEnd>>
      BY <1>2 DEF Started
    <2> QED BY <2>1, <2>2 DEF RunOK, Forward, Over, Extends, Records, Present, Ended, Terminal
  <1>3. CASE StartRefused
    BY <1>3, EndsAsSafe DEF StartRefused, Terminal, RunOK
  <1>4. CASE StopCancels
    BY <1>4, Unmoved DEF StopCancels, RunOK
  <1>5. CASE StopMarks
    BY <1>5, EndsAsSafe DEF StopMarks, Terminal, RunOK
  <1>6. CASE WorkerBegins
    <2>1. CASE EndsAs("FAILED") /\ worker' = "ended"
      BY <1>6, <2>1, EndsAsSafe DEF WorkerBegins, Terminal
    <2>2. CASE /\ worker' \in {"wired", "ended"} /\ UNCHANGED atEnd
               /\ run' = run \/ (Present /\ run' = [run EXCEPT !.collector = TRUE])
      <3>1. run' \in Records /\ run'.gen = run.gen /\ run'.status = run.status
            /\ run'.steps = run.steps /\ run'.metrics = run.metrics
        BY <2>2 DEF RunOK, Records
      <3>2. UNCHANGED <<control, counter, atEnd>> /\ worker = "begin"
        BY <1>6, <2>2 DEF WorkerBegins
      <3> QED BY <2>2, <3>1, <3>2 DEF RunOK, Forward, Over, Extends, Records, Present, Ended
    <2> QED BY <1>6, <2>1, <2>2 DEF WorkerBegins
  <1>7. CASE WorkerRegisters
    BY <1>7 DEF WorkerRegisters, RunOK, Forward, Over, Extends, Present, Ended, Records, Gens
  <1>8. CASE Samples
    <2> DEFINE g0 == run.gen
               c == counter[g0]
    <2>1. g0 \in Gens /\ c \in Seq(Nat)
      BY <1>8 DEF Samples, RunOK
    <2>2. PICK t \in 1..MaxSamples :
            /\ IF c = <<>> THEN t = 1 ELSE t \in {c[Len(c)], c[Len(c)] + 1}
            /\ counter' = [counter EXCEPT ![g0] = Append(c, t)]
      BY <1>8 DEF Samples
    <2>3. \A i \in 1..Len(c) : c[i] <= t
      <3> SUFFICES ASSUME NEW i \in 1..Len(c) PROVE c[i] <= t
        OBVIOUS
      <3>1. c # <<>> /\ Len(c) \in 1..Len(c) /\ c[Len(c)] \in Nat
        BY <2>1
      <3>2. c[i] <= c[Len(c)] /\ c[i] \in Nat
        BY <2>1, <3>1 DEF RunOK
      <3> QED BY <2>2, <3>1, <3>2
    <2>4. t \in Nat
      OBVIOUS
    <2>5. /\ Append(c, t) \in Seq(Nat) /\ Len(Append(c, t)) = Len(c) + 1
          /\ \A i \in 1..Len(c) : Append(c, t)[i] = c[i]
          /\ Append(c, t)[Len(c) + 1] = t
      BY <2>1, <2>4
    <2>6. \A i, j \in 1..Len(Append(c, t)) : i <= j => Append(c, t)[i] <= Append(c, t)[j]
      <3> SUFFICES ASSUME NEW i \in 1..Len(Append(c, t)), NEW j \in 1..Len(Append(c, t)), i <= j
                   PROVE  Append(c, t)[i] <= Append(c, t)[j]
        OBVIOUS
      <3>1. CASE j \in 1..Len(c)
        BY <2>1, <2>5, <3>1 DEF RunOK
      <3>2. CASE j = Len(c) + 1 /\ i \in 1..Len(c)
        BY <2>3, <2>5, <3>2
      <3>3. CASE j = Len(c) + 1 /\ i = Len(c) + 1
        BY <2>4, <2>5, <3>3
      <3> QED BY <2>1, <2>5, <3>1, <3>2, <3>3
    <2>7. /\ counter' \in [Gens -> Seq(Nat)]
          /\ \A g \in Gens : counter'[g] = IF g = g0 THEN Append(c, t) ELSE counter[g]
      BY <2>1, <2>2, <2>5 DEF RunOK
    <2>8. UNCHANGED <<run, worker, control, atEnd>>
      BY <1>8 DEF Samples
    <2> HIDE DEF c, g0
    <2>9. RunOK'
      BY <2>6, <2>7, <2>8 DEF RunOK, Present, Ended
    <2>10. \A g \in Gens : Extends(counter[g], counter'[g])
      <3> SUFFICES ASSUME NEW g \in Gens PROVE Extends(counter[g], counter'[g])
        OBVIOUS
      <3>1. CASE g = g0
        BY <2>1, <2>5, <2>7, <3>1 DEF Extends, c
      <3>2. CASE g # g0
        <4>1. counter'[g] = counter[g] /\ Len(counter[g]) \in Nat
          BY <2>7, <3>2 DEF RunOK
        <4> QED BY <4>1 DEF Extends
      <3> QED BY <3>1, <3>2
    <2> QED BY <2>8, <2>9, <2>10 DEF Forward, RunOK, Records, Over
  <1>9. CASE WorkerMeasures
    <2>1. run' \in Records /\ run'.gen = run.gen /\ run'.status = run.status
          /\ run'.steps = run.steps /\ (Present => run'.metrics) /\ (run.metrics => run'.metrics)
      BY <1>9 DEF WorkerMeasures, RunOK, Records
    <2> QED BY <1>9, <2>1 DEF WorkerMeasures, RunOK, Forward, Over, Extends, Present, Ended, Records, Gens
  <1>10. CASE WorkerChecks
    BY <1>10 DEF WorkerChecks, RunOK, Forward, Over, Extends, Present, Ended, Records, Gens
  <1>11. CASE WorkerCompletes
    BY <1>11, EndsAsSafe DEF WorkerCompletes, Terminal, RunOK
  <1>12. CASE WorkerFails
    BY <1>12, EndsAsSafe DEF WorkerFails, Terminal, RunOK
  <1>13. CASE WorkerStopped
    <2>1. run' \in Records /\ run'.gen = run.gen /\ run'.status = run.status
          /\ run'.steps = run.steps /\ (run.metrics => run'.metrics)
      BY <1>13 DEF WorkerStopped, RunOK, Records
    <2> QED BY <1>13, <2>1 DEF WorkerStopped, RunOK, Forward, Over, Extends, Present, Ended, Records, Gens
  <1>14. CASE Cleanup
    BY <1>14 DEF Cleanup, RunOK, Forward, Over, Extends, Present, Ended, Records, Gens
  <1>15. CASE ControlActs \/ ControlStops
    BY <1>15, Unmoved DEF ControlActs, ControlStops
  <1>16. CASE ControlRecords
    <2>1. run' \in Records /\ run'.gen = run.gen /\ run'.status = run.status
          /\ run'.steps >= run.steps /\ run'.metrics = run.metrics
      <3>1. run.steps \in Nat /\ run \in Records
        BY DEF RunOK, Records
      <3>2. CASE run' = run
        BY <3>1, <3>2
      <3>3. CASE run' = [run EXCEPT !.steps = @ + 1]
        BY <3>1, <3>3 DEF Records
      <3> QED BY <1>16, <3>2, <3>3 DEF ControlRecords
    <2> QED BY <1>16, <2>1 DEF ControlRecords, RunOK, Forward, Over, Extends, Present, Ended, Records, Gens
  <1>17. CASE Evicted
    <2>1. run' \in Records /\ run'.gen = run.gen /\ run'.status = "ABSENT"
      BY <1>17 DEF Evicted, RunOK, Records, Statuses, NoRecord
    <2> QED BY <1>17, <2>1 DEF Evicted, RunOK, Forward, Over, Extends, Present, Ended, Terminal, Records, Gens
  <1> QED BY <1>1, <1>2, <1>3, <1>4, <1>5, <1>6, <1>7, <1>8, <1>9, <1>10, <1>11, <1>12, <1>13,
             <1>14, <1>15, <1>16, <1>17 DEF RunSteps, OthersCall

\* The steps of the call that is watched do to the run what those of the others do.
LEMMA CallRunStep ==
  ASSUME RunOK, CallSteps
  PROVE  RunOK' /\ Forward
  <1>1. CASE UNCHANGED runVars
    BY <1>1, Unmoved DEF runVars, RunOK
  <1>2. CASE Created \/ Started \/ StartRefused
    BY <1>2, RunStep DEF OthersCall
  <1>3. CASE StopsFirst
    BY <1>3, Unmoved DEF StopsFirst, RunOK
  <1>4. CASE Stops
    BY <1>4, EndsAsSafe DEF Stops, Terminal, RunOK
  <1> QED BY <1>1, <1>2, <1>3, <1>4 DEF CallSteps, SomeCall, Calls, Creates, Starts, Renews,
       GrpcChecks, GrpcChecksRate, HttpChecks, HttpChecksRate, LooksUp, Applies, AllApplied,
       Answers, HttpAnswersStart, HttpAnswersStop, GrpcAnswersUpdate, GrpcAnswersRate,
       AnswersRenew, AnswersPlainly, Rereads, Reads, ReadsOn

\* The run is sound in every reachable state, and no step takes back what it did.
LEMMA ClientRunStep ==
  ASSUME RunOK, [ClientNext]_clientVars
  PROVE  RunOK' /\ Forward
  BY RunStep, CallRunStep, Unmoved
     DEF ClientNext, clientVars, runVars, RunOK

-----------------------------------------------------------------------------
(* The stream.                                                             *)

Sent == [gen : Nat, no : Nat]
Updates == [at : Nat, value : Nat, gen : Nat]
Streams ==
  [kind : {"sse", "grpc"}, pc : {"none", "tick", "got", "final", "metrics", "sum", "done"},
   gen : Nat, rec : Records, prev : Statuses, col : Nat, sentSteps : Nat, at : Nat, latest : Nat,
   steps : Seq(Sent), update : Updates, snapshot : {"none", "stored", "live"},
   last : {"", "gone", "error", "complete", "eof"}]

\* The count of the steps sent is their number, and each carries its own; they are of runs
\* up to the one whose record is at hand.
Numbered(s, g) ==
  /\ Len(s.steps) = s.sentSteps
  /\ \A i \in 1..Len(s.steps) :
       /\ s.steps[i].no = i /\ s.steps[i].gen \in Nat /\ s.steps[i].gen <= g
       /\ \A j \in 1..i : s.steps[j].gen <= s.steps[i].gen

\* The record the stream holds was the run's when it was read.
HeldRecord ==
  /\ strm.rec.gen <= run.gen
  /\ strm.pc \in {"got", "final"} =>
       /\ strm.rec.gen >= strm.gen
       /\ strm.rec.status \in Terminal => Over(run, strm.rec.gen)
       /\ strm.rec.status = "COMPLETED" => strm.rec.metrics
  /\ strm.pc = "final" => strm.rec.status \in Terminal /\ strm.prev = strm.rec.status

\* What was read of the counter is still there.
HeldSum ==
  strm.pc = "sum" =>
    /\ strm.col \in Gens
    /\ \E i \in 1..Len(counter[strm.col]) : counter[strm.col][i] = strm.latest

HeldUpdate ==
  strm.update.gen # 0 =>
    \E i \in 1..Len(counter[strm.update.gen]) :
      i <= strm.update.value /\ counter[strm.update.gen][i] = strm.update.at

\* How the stream has ended.
StreamEnd ==
  /\ strm.last # "" => strm.pc = "done"
  /\ CompleteIsFinal
  /\ strm.last = "eof" /\ strm.rec.gen = strm.gen =>
       Over(run, strm.gen) /\ strm.gen \in Gens /\ Len(strm.steps) >= atEnd[strm.gen]

StreamOK ==
  /\ strm \in Streams
  /\ strm.col \in Gens \cup {0} /\ strm.update.gen \in Gens \cup {0}
  /\ strm.pc # "none" => strm.gen \in Gens /\ strm.gen <= run.gen
  /\ strm.pc = "none" => strm = Closed
  /\ Numbered(strm, run.gen)
  /\ strm.pc = "got" => Numbered(strm, strm.rec.gen)
  /\ HeldRecord /\ HeldSum /\ HeldUpdate /\ StreamEnd

\* The run goes on: what the stream holds stays true.
LEMMA StreamStands ==
  ASSUME RunOK, StreamOK, RunOK', Forward, UNCHANGED strm
  PROVE  StreamOK'
  <1>1. run.gen \in Nat /\ run'.gen \in Nat /\ run'.gen >= run.gen /\ strm.rec.gen \in Nat
        /\ strm.gen \in Nat
    BY DEF RunOK, Forward, Records, StreamOK, Streams
  <1>2. Numbered(strm, run'.gen)
    BY <1>1 DEF StreamOK, Numbered
  <1>3. HeldRecord'
    BY <1>1 DEF StreamOK, HeldRecord, Forward
  <1>4. HeldSum' /\ HeldUpdate'
    <2>1. \A g \in Gens : \A i \in 1..Len(counter[g]) :
            i \in 1..Len(counter'[g]) /\ counter'[g][i] = counter[g][i]
      BY DEF Forward, Extends, RunOK
    <2>2. strm.update.gen # 0 => strm.update.gen \in Gens
      BY DEF StreamOK, Streams, Gens
    <2> QED BY <2>1, <2>2 DEF StreamOK, HeldSum, HeldUpdate
  <1>5. StreamEnd'
    BY <1>1 DEF StreamOK, StreamEnd, CompleteIsFinal, Forward
  <1> QED BY <1>1, <1>2, <1>3, <1>4, <1>5 DEF StreamOK

\* A sequence that is continued by a numbered one.
LEMMA Continued ==
  ASSUME NEW S, NEW a \in Seq(S), NEW b \in Seq(S)
  PROVE  /\ a \o b \in Seq(S) /\ Len(a \o b) = Len(a) + Len(b)
         /\ \A i \in 1..Len(a) : (a \o b)[i] = a[i]
         /\ \A i \in 1..Len(b) : (a \o b)[Len(a) + i] = b[i]
  OBVIOUS

\* SendsSteps: the steps of the record that were not sent, numbered on.
LEMMA StepsSent ==
  ASSUME NEW s \in Streams, NEW r \in Records, Numbered(s, r.gen)
  PROVE  /\ SendsSteps(s, r) \in Streams
         /\ Numbered(SendsSteps(s, r), r.gen)
         /\ Len(SendsSteps(s, r).steps) >= r.steps
         /\ SendsSteps(s, r).kind = s.kind /\ SendsSteps(s, r).pc = s.pc
         /\ SendsSteps(s, r).gen = s.gen /\ SendsSteps(s, r).rec = s.rec
         /\ SendsSteps(s, r).prev = s.prev /\ SendsSteps(s, r).col = s.col
         /\ SendsSteps(s, r).at = s.at /\ SendsSteps(s, r).latest = s.latest
         /\ SendsSteps(s, r).update = s.update /\ SendsSteps(s, r).snapshot = s.snapshot
         /\ SendsSteps(s, r).last = s.last
  <1>0. s.sentSteps \in Nat /\ r.steps \in Nat /\ r.gen \in Nat /\ s.steps \in Seq(Sent)
        /\ Len(s.steps) = s.sentSteps
    BY DEF Streams, Records, Numbered
  <1>1. CASE ~(r.steps > s.sentSteps)
    <2>1. SendsSteps(s, r) = s
      BY <1>1 DEF SendsSteps
    <2> QED BY <1>0, <1>1, <2>1
  <1>2. CASE r.steps > s.sentSteps
    <2> DEFINE n == NewSteps(s, r)
               k == r.steps - s.sentSteps
               t == s.steps \o n
    <2>1. k \in Nat /\ k > 0
      BY <1>0, <1>2
    <2>2. /\ n \in Seq(Sent) /\ Len(n) = k
          /\ \A i \in 1..k : n[i].gen = r.gen /\ n[i].no = s.sentSteps + i
      <3>1. \A i \in 1..k : [gen |-> r.gen, no |-> s.sentSteps + i] \in Sent
        BY <1>0, <2>1 DEF Sent
      <3> QED BY <1>0, <2>1, <3>1 DEF NewSteps
    <2> HIDE DEF n, k
    <2>3. /\ t \in Seq(Sent) /\ Len(t) = s.sentSteps + k
          /\ \A i \in 1..s.sentSteps : t[i] = s.steps[i]
          /\ \A i \in 1..k : t[s.sentSteps + i] = n[i]
      <3>1. /\ t \in Seq(Sent) /\ Len(t) = Len(s.steps) + Len(n)
            /\ \A i \in 1..Len(s.steps) : t[i] = s.steps[i]
            /\ \A i \in 1..Len(n) : t[Len(s.steps) + i] = n[i]
        <4>1. s.steps \in Seq(Sent) /\ n \in Seq(Sent)
          BY <1>0, <2>2
        <4>2. /\ s.steps \o n \in Seq(Sent) /\ Len(s.steps \o n) = Len(s.steps) + Len(n)
              /\ \A i \in 1..Len(s.steps) : (s.steps \o n)[i] = s.steps[i]
              /\ \A i \in 1..Len(n) : (s.steps \o n)[Len(s.steps) + i] = n[i]
          BY ONLY <4>1, Continued
        <4> QED BY <4>2
      <3> QED BY <1>0, <2>2, <3>1
    <2> HIDE DEF t
    <2>8. Len(t) = r.steps
      BY <1>0, <2>1, <2>3 DEF k
    <2>9. ASSUME NEW i \in (s.sentSteps + 1)..r.steps PROVE t[i].gen = r.gen /\ t[i].no = i
      <3>1. i - s.sentSteps \in 1..k /\ s.sentSteps + (i - s.sentSteps) = i
        BY <1>0, <2>1 DEF k
      <3>2. t[s.sentSteps + (i - s.sentSteps)] = n[i - s.sentSteps]
        BY <2>3, <3>1
      <3>3. n[i - s.sentSteps].gen = r.gen /\ n[i - s.sentSteps].no = s.sentSteps + (i - s.sentSteps)
        BY <2>2, <3>1
      <3> QED BY <3>1, <3>2, <3>3
    <2>4. SendsSteps(s, r) = [s EXCEPT !.steps = t, !.sentSteps = r.steps]
      BY <1>2 DEF SendsSteps, t, n
    <2>5. SendsSteps(s, r) \in Streams /\ SendsSteps(s, r).steps = t
          /\ SendsSteps(s, r).sentSteps = r.steps
      BY <1>0, <2>3, <2>4 DEF Streams
    <2>6. SendsSteps(s, r).kind = s.kind /\ SendsSteps(s, r).pc = s.pc
       /\ SendsSteps(s, r).gen = s.gen /\ SendsSteps(s, r).rec = s.rec
       /\ SendsSteps(s, r).prev = s.prev /\ SendsSteps(s, r).col = s.col
       /\ SendsSteps(s, r).at = s.at /\ SendsSteps(s, r).latest = s.latest
       /\ SendsSteps(s, r).update = s.update /\ SendsSteps(s, r).snapshot = s.snapshot
       /\ SendsSteps(s, r).last = s.last
      BY <2>4 DEF Streams
    <2>7. ASSUME NEW i \in 1..Len(t)
          PROVE  /\ t[i].no = i /\ t[i].gen \in Nat /\ t[i].gen <= r.gen
                 /\ \A j \in 1..i : t[j].gen <= t[i].gen
      <3>1. \A j \in 1..s.sentSteps :
              /\ t[j].no = j /\ t[j].gen \in Nat /\ t[j].gen <= r.gen
              /\ \A m \in 1..j : t[m].gen <= t[j].gen
        <4> SUFFICES ASSUME NEW j \in 1..s.sentSteps
                     PROVE  /\ t[j].no = j /\ t[j].gen \in Nat /\ t[j].gen <= r.gen
                            /\ \A m \in 1..j : t[m].gen <= t[j].gen
          OBVIOUS
        <4>1. t[j] = s.steps[j] /\ \A m \in 1..j : t[m] = s.steps[m]
          BY <1>0, <2>3
        <4>2. /\ s.steps[j].no = j /\ s.steps[j].gen \in Nat /\ s.steps[j].gen <= r.gen
              /\ \A m \in 1..j : s.steps[m].gen <= s.steps[j].gen
          BY <1>0 DEF Numbered
        <4> QED BY <4>1, <4>2
      <3>2. CASE i \in 1..s.sentSteps
        BY <3>1, <3>2
      <3>3. CASE i \in (s.sentSteps + 1)..r.steps
        <4>1. t[i].gen = r.gen /\ t[i].no = i
          BY <2>9, <3>3
        <4>2. ASSUME NEW j \in 1..i PROVE t[j].gen <= r.gen
          <5>1. CASE j \in 1..s.sentSteps
            BY <3>1, <5>1
          <5>2. CASE j \in (s.sentSteps + 1)..r.steps
            BY <1>0, <2>9, <5>2
          <5> QED BY <1>0, <3>3, <5>1, <5>2
        <4> QED BY <1>0, <4>1, <4>2
      <3> QED BY <1>0, <2>8, <3>2, <3>3
    <2> QED BY <1>0, <2>5, <2>6, <2>7, <2>8 DEF Numbered
  <1> QED BY <1>1, <1>2

\* The numbering is one of the steps and their count, and of any later run.
LEMMA NumberedOn ==
  ASSUME NEW s, NEW t, NEW g \in Nat, NEW h \in Nat, g <= h, Numbered(s, g),
         t.steps = s.steps, t.sentSteps = s.sentSteps
  PROVE  Numbered(t, h)
  BY DEF Numbered

\* What a step of the stream has to show for itself, the run standing still.
LEMMA StreamAgain ==
  ASSUME RunOK, StreamOK, UNCHANGED runVars, strm.pc # "none",
         strm' \in Streams, strm'.pc # "none", strm'.gen = strm.gen, strm'.col \in Gens \cup {0},
         \/ strm'.update = strm.update
         \/ HeldUpdate' /\ strm'.update.gen \in Gens \cup {0},
         \/ strm'.steps = strm.steps /\ strm'.sentSteps = strm.sentSteps
         \/ Numbered(strm', run.gen),
         strm'.pc = "got" => Numbered(strm', strm'.rec.gen),
         strm'.pc = "sum" => HeldSum',
         strm'.rec.gen <= run.gen,
         strm'.pc \in {"got", "final"} => HeldRecord',
         strm'.last # "" => StreamEnd'
  PROVE  StreamOK'
  <1>1. run' = run /\ counter' = counter /\ atEnd' = atEnd
    BY DEF runVars
  <1>2. strm'.gen \in Gens /\ strm'.gen <= run.gen
    BY DEF StreamOK
  <1>3. Numbered(strm', run.gen)
    BY DEF StreamOK, Numbered
  <1>4. HeldUpdate' /\ strm'.update.gen \in Gens \cup {0}
    BY <1>1 DEF StreamOK, HeldUpdate
  <1>5. HeldSum'
    BY DEF HeldSum
  <1>6. HeldRecord'
    BY <1>1 DEF HeldRecord
  <1>7. StreamEnd'
    BY DEF StreamEnd, CompleteIsFinal
  <1> QED BY <1>1, <1>2, <1>3, <1>4, <1>5, <1>6, <1>7 DEF StreamOK

\* A stream that ends without a last word of the run's.
LEMMA StreamDone ==
  ASSUME RunOK, StreamOK, UNCHANGED runVars, NEW e \in {"gone", "error"}, strm.pc # "none",
         strm' = Done(e)
  PROVE  StreamOK'
  <1>1. strm \in Streams /\ strm.rec.gen <= run.gen /\ strm.col \in Gens \cup {0}
    BY DEF StreamOK, HeldRecord
  <1>2. strm' \in Streams /\ strm'.pc = "done" /\ strm'.last = e /\ strm'.gen = strm.gen
        /\ strm'.col = strm.col /\ strm'.update = strm.update /\ strm'.steps = strm.steps
        /\ strm'.sentSteps = strm.sentSteps /\ strm'.rec = strm.rec
    BY <1>1 DEF Done, Streams
  <1>3. StreamEnd'
    BY <1>2 DEF StreamEnd, CompleteIsFinal
  <1> QED BY <1>1, <1>2, <1>3, StreamAgain

\* The record a tick leaves behind.
LEMMA BlankRecord == Closed.rec \in Records /\ Closed.rec.gen = 0
  BY DEF Closed, NoRecord, Records, Statuses

\* One step of the stream, while the run stands still.
LEMMA StreamStep ==
  ASSUME RunOK, StreamOK, StreamSteps, UNCHANGED runVars
  PROVE  StreamOK'
  <1>0. /\ run \in Records /\ run.gen \in Nat /\ run.gen <= MaxGens /\ run.status \in Statuses
        /\ run' = run /\ counter' = counter /\ atEnd' = atEnd
        /\ 0 <= run.gen /\ run.gen <= run.gen
    BY DEF RunOK, Records, runVars
  <1>1. /\ strm \in Streams /\ strm.rec \in Records /\ strm.rec.gen <= run.gen
        /\ strm.gen \in Nat /\ strm.latest \in Nat
        /\ strm.col \in Gens \cup {0} /\ strm.col \in Nat
        /\ strm.pc # "done" => strm.last = ""
    BY DEF StreamOK, Streams, HeldRecord, StreamEnd
  <1>2. strm.rec.gen \in Nat /\ strm.rec.status \in Statuses /\ strm.rec.metrics \in BOOLEAN
        /\ strm.rec.realTime \in BOOLEAN
    BY <1>1 DEF Records
  <1>3. GetCollector \in Gens \cup {0} /\ GetCollector \in Nat
    BY <1>0 DEF GetCollector, Gens
  <1>4. CASE Opens
    <2>1. PICK k \in {"sse", "grpc"} :
            strm' = [Closed EXCEPT !.kind = k, !.pc = "tick", !.gen = run.gen, !.prev = run.status,
                                   !.col = IF k = "sse" THEN GetCollector ELSE 0]
      BY <1>4 DEF Opens
    <2>2. Closed \in Streams /\ Closed.steps = <<>> /\ Closed.sentSteps = 0 /\ Closed.last = ""
          /\ Closed.update.gen = 0
      BY BlankRecord DEF Closed, Streams, Updates, Statuses
    <2>3. (IF k = "sse" THEN GetCollector ELSE 0) \in Nat
          /\ (IF k = "sse" THEN GetCollector ELSE 0) \in Gens \cup {0}
      BY <1>3
    <2>4. strm' \in Streams
      BY <1>0, <2>1, <2>2, <2>3 DEF Streams
    <2>5. /\ strm'.steps = <<>> /\ strm'.sentSteps = 0 /\ strm'.last = "" /\ strm'.rec.gen = 0
          /\ strm'.update.gen = 0 /\ strm'.pc = "tick" /\ strm'.gen = run.gen
          /\ strm'.col \in Gens \cup {0}
      BY <2>1, <2>2, <2>3, BlankRecord DEF Streams
    <2>6. run.gen \in Gens
      BY <1>4 DEF Opens, RunOK
    <2>7. Numbered(strm', run'.gen)
      <3>1. Len(strm'.steps) = 0 /\ Len(strm'.steps) = strm'.sentSteps
        BY <2>5
      <3>2. \A i \in 1..Len(strm'.steps) : FALSE
        BY <3>1
      <3> QED BY <3>1, <3>2, Zenon DEF Numbered
    <2>8. HeldRecord'
      <3>1. strm'.rec.gen <= run'.gen
        BY <1>0, <2>5, Zenon
      <3> QED BY <2>5, <3>1 DEF HeldRecord
    <2>9. HeldSum' /\ HeldUpdate' /\ StreamEnd'
      BY <2>5 DEF HeldSum, HeldUpdate, StreamEnd, CompleteIsFinal
    <2>10. strm'.gen \in Gens /\ strm'.gen <= run'.gen
      BY <1>0, <2>5, <2>6, Zenon
    <2> QED BY <2>4, <2>5, <2>7, <2>8, <2>9, <2>10 DEF StreamOK
  <1>5. CASE Disconnects
    BY <1>5, StreamDone DEF Disconnects, Polling
  <1>6. CASE SseGets
    <2>1. CASE ~Present
      BY <1>6, <2>1, StreamDone DEF SseGets
    <2>2. CASE Present
      <3>1. strm' = [strm EXCEPT !.pc = "got", !.rec = run] /\ strm.pc = "tick"
        BY <1>6, <2>2 DEF SseGets
      <3>2. strm' \in Streams /\ strm'.pc = "got" /\ strm'.rec = run /\ strm'.last = ""
            /\ strm'.gen = strm.gen /\ strm'.col = strm.col /\ strm'.update = strm.update
            /\ strm'.steps = strm.steps /\ strm'.sentSteps = strm.sentSteps
        BY <1>0, <1>1, <3>1 DEF Streams
      <3>3. Numbered(strm', strm'.rec.gen)
        BY <3>2 DEF StreamOK, Numbered
      <3>4. HeldRecord'
        <4>1. strm.gen <= run.gen
          BY <3>1 DEF StreamOK
        <4>2. run.status = "COMPLETED" => run.metrics
          BY DEF RunOK
        <4>3. run.status \in Terminal => Over(run', run.gen)
          BY <1>0 DEF Over
        <4>4. run.gen <= run'.gen
          BY <1>0
        <4>5. run.gen >= strm.gen
          BY <1>0, <1>1, <4>1
        <4> QED BY <3>2, <4>2, <4>3, <4>4, <4>5 DEF HeldRecord
      <3>5. strm'.rec.gen <= run.gen
        BY <1>0, <3>2, Zenon
      <3> QED BY <1>1, <3>1, <3>2, <3>3, <3>4, <3>5, StreamAgain
    <2> QED BY <2>1, <2>2
  <1>7. CASE SseSends
    <2> DEFINE r == strm.rec
               s == [strm EXCEPT !.col = IF @ = 0 THEN GetCollector ELSE @]
               sent == SendsStatus(s, r)
               all == SendsSteps(sent, r)
               blank == [Closed.rec EXCEPT !.realTime = r.realTime]
    <2>1. strm.pc = "got" /\ strm.last = ""
      BY <1>1, <1>7 DEF SseSends
    <2>2. /\ s \in Streams /\ s.col \in Gens \cup {0} /\ s.rec = r /\ s.gen = strm.gen
          /\ s.steps = strm.steps /\ s.sentSteps = strm.sentSteps /\ s.update = strm.update
          /\ s.last = strm.last
      BY <1>1, <1>3 DEF Streams
    <2>3. \/ /\ r.status \in Terminal /\ strm' = [sent EXCEPT !.pc = "final"]
          \/ strm' = [all EXCEPT !.pc = "metrics", !.rec = blank]
      BY <1>7 DEF SseSends, EndsStream, Terminal
    <2>4. blank \in Records /\ blank.gen = 0
      BY <1>2, BlankRecord DEF Records
    <2> HIDE DEF s, blank
    <2>5. /\ sent \in Streams /\ sent.prev = r.status /\ sent.col = s.col /\ sent.rec = r
          /\ sent.gen = strm.gen /\ sent.steps = strm.steps /\ sent.sentSteps = strm.sentSteps
          /\ sent.update = strm.update /\ sent.last = ""
      BY <1>2, <2>1, <2>2 DEF SendsStatus, Streams
    <2> HIDE DEF sent
    <2>6. Numbered(sent, r.gen)
      BY <2>1, <2>5 DEF StreamOK, Numbered
    <2>7. /\ all \in Streams /\ Numbered(all, r.gen)
          /\ all.gen = sent.gen /\ all.rec = sent.rec /\ all.col = sent.col
          /\ all.update = sent.update /\ all.last = sent.last
      BY <1>1, <2>5, <2>6, StepsSent
    <2> HIDE DEF all
    <2>8. CASE r.status \in Terminal /\ strm' = [sent EXCEPT !.pc = "final"]
      <3>1. /\ strm' \in Streams /\ strm'.pc = "final" /\ strm'.prev = r.status
            /\ strm'.rec = r /\ strm'.gen = strm.gen /\ strm'.steps = strm.steps
            /\ strm'.sentSteps = strm.sentSteps /\ strm'.update = strm.update /\ strm'.last = ""
            /\ strm'.col = s.col
        BY <2>5, <2>8 DEF Streams
      <3>2. HeldRecord'
        BY <1>0, <2>1, <2>8, <3>1 DEF StreamOK, HeldRecord
      <3> QED BY <1>0, <1>1, <2>1, <2>2, <3>1, <3>2, StreamAgain
    <2>9. CASE strm' = [all EXCEPT !.pc = "metrics", !.rec = blank]
      <3>1. /\ strm' \in Streams /\ strm'.pc = "metrics" /\ strm'.rec = blank
            /\ strm'.gen = strm.gen /\ strm'.steps = all.steps /\ strm'.sentSteps = all.sentSteps
            /\ strm'.update = strm.update /\ strm'.last = "" /\ strm'.col = s.col
        BY <2>4, <2>5, <2>7, <2>9 DEF Streams
      <3>2. Numbered(strm', run.gen)
        BY <1>0, <1>1, <1>2, <2>7, <3>1, NumberedOn
      <3>3. strm'.rec.gen <= run.gen
        BY <1>0, <2>4, <3>1, Zenon
      <3> QED BY <2>1, <2>2, <3>1, <3>2, <3>3, StreamAgain
    <2> QED BY <2>3, <2>8, <2>9
  <1>8. CASE SseCompletes
    <2> DEFINE r == IF Present THEN run ELSE strm.rec
               snap == Snapshot(r, strm.rec.realTime, strm.col)
    <2>1. strm.pc = "final" /\ strm' = [strm EXCEPT !.pc = "done", !.last = "complete", !.rec = r,
                                                    !.snapshot = snap]
      BY <1>8 DEF SseCompletes, Done
    <2>2. /\ strm.rec.gen >= strm.gen /\ strm.rec.status \in Terminal
          /\ Over(run, strm.rec.gen) /\ strm.prev \in Terminal
          /\ strm.rec.status = "COMPLETED" => strm.rec.metrics
      BY <2>1 DEF StreamOK, HeldRecord
    <2>3. r \in Records /\ r.gen <= run.gen /\ (r.status = "COMPLETED" => r.metrics)
      <3>1. run.status = "COMPLETED" => run.metrics
        BY DEF RunOK
      <3>2. run.gen <= run.gen
        BY <1>0
      <3> QED BY <1>0, <1>1, <2>2, <3>1, <3>2, Zenon
    <2>4. r.gen = strm.gen => r.status \in Terminal
      <3>1. CASE Present
        <4>1. run.gen = strm.gen => run.status \in Terminal
          <5>1. run.gen = strm.gen => ~(run.gen > strm.rec.gen)
            <6>1. \A a, b, c \in Nat : a = b /\ c >= b => ~(a > c)
              OBVIOUS
            <6> QED BY <1>0, <1>1, <1>2, <2>2, <6>1, Zenon
          <5> QED BY <2>2, <3>1, <5>1 DEF Over, Present
        <4> QED BY <3>1, <4>1
      <3>2. CASE ~Present
        BY <2>2, <3>2
      <3> QED BY <3>1, <3>2
    <2>5. snap \in {"none", "stored", "live"} /\ (r.metrics => snap = "stored")
      BY DEF Snapshot
    <2> HIDE DEF r, snap
    <2>6. /\ strm' \in Streams /\ strm'.pc = "done" /\ strm'.last = "complete" /\ strm'.rec = r
          /\ strm'.snapshot = snap /\ strm'.gen = strm.gen /\ strm'.prev = strm.prev
          /\ strm'.steps = strm.steps /\ strm'.sentSteps = strm.sentSteps
          /\ strm'.update = strm.update /\ strm'.col = strm.col
      BY <1>1, <2>1, <2>3, <2>5 DEF Streams
    <2>7. StreamEnd'
      BY <2>2, <2>3, <2>4, <2>5, <2>6 DEF StreamEnd, CompleteIsFinal
    <2> QED BY <1>0, <1>1, <2>1, <2>3, <2>6, <2>7, StreamAgain
  <1>9. CASE SseReads
    <2> DEFINE c == counter[strm.col]
    <2>1. strm.pc = "metrics" /\ strm.last = ""
      BY <1>1, <1>9 DEF SseReads
    <2>2. CASE strm' = Waits(strm)
      <3>1. /\ strm' \in Streams /\ strm'.pc = "tick" /\ strm'.rec.gen = 0
            /\ strm'.gen = strm.gen /\ strm'.steps = strm.steps
            /\ strm'.sentSteps = strm.sentSteps /\ strm'.update = strm.update /\ strm'.last = ""
            /\ strm'.col = strm.col
        BY <1>1, <2>1, <2>2, BlankRecord DEF Waits, Streams
      <3>2. strm'.rec.gen <= run.gen
        BY <1>0, <3>1, Zenon
      <3> QED BY <1>1, <2>1, <3>1, <3>2, StreamAgain
    <2>3. CASE /\ strm.col # 0 /\ c # <<>>
               /\ strm' = [strm EXCEPT !.pc = "sum", !.latest = c[Len(c)]]
      <3>1. strm.col \in Gens
        BY <1>1, <2>3
      <3>2. Len(c) \in 1..Len(c) /\ c[Len(c)] \in Nat
        BY <2>3, <3>1 DEF RunOK
      <3>3. /\ strm' \in Streams /\ strm'.pc = "sum" /\ strm'.latest = c[Len(c)]
            /\ strm'.rec = strm.rec /\ strm'.gen = strm.gen /\ strm'.steps = strm.steps
            /\ strm'.sentSteps = strm.sentSteps /\ strm'.update = strm.update /\ strm'.last = ""
            /\ strm'.col = strm.col
        BY <1>1, <2>1, <2>3, <3>2 DEF Streams
      <3>4. HeldSum'
        BY <1>0, <3>1, <3>2, <3>3 DEF HeldSum
      <3> QED BY <1>0, <1>1, <2>1, <3>3, <3>4, StreamAgain
    <2> QED BY <1>9, <2>2, <2>3 DEF SseReads
  <1>10. CASE SseUpdates
    <2> DEFINE n == Len(counter[strm.col])
               u == [at |-> strm.latest, gen |-> strm.col, value |-> n]
    <2>1. strm.pc = "sum" /\ strm.last = "" /\ strm.col \in Gens
      BY <1>1, <1>10 DEF SseUpdates, StreamOK, HeldSum
    <2>2. n \in Nat
      <3>1. counter[strm.col] \in Seq(Nat)
        BY <2>1 DEF RunOK
      <3> QED BY <3>1
    <2>3. strm' = [Waits(strm) EXCEPT !.at = strm.latest, !.update = u]
      BY <1>10 DEF SseUpdates, SeriesSum
    <2>4. u \in Updates /\ u.at = strm.latest /\ u.gen = strm.col /\ u.value = n
      BY <1>1, <2>2 DEF Updates
    <2> HIDE DEF n, u
    <2>5. /\ Waits(strm) \in Streams /\ Waits(strm).pc = "tick" /\ Waits(strm).rec.gen = 0
          /\ Waits(strm).gen = strm.gen /\ Waits(strm).steps = strm.steps
          /\ Waits(strm).sentSteps = strm.sentSteps /\ Waits(strm).last = ""
          /\ Waits(strm).col = strm.col
      BY <1>1, <2>1, BlankRecord DEF Waits, Streams
    <2>6. /\ strm' \in Streams /\ strm'.pc = "tick" /\ strm'.rec.gen = 0 /\ strm'.update = u
          /\ strm'.gen = strm.gen /\ strm'.steps = strm.steps
          /\ strm'.sentSteps = strm.sentSteps /\ strm'.last = "" /\ strm'.col = strm.col
      BY <1>1, <2>3, <2>4, <2>5 DEF Streams
    <2>7. HeldUpdate'
      <3>1. PICK i \in 1..Len(counter[strm.col]) : counter[strm.col][i] = strm.latest
        BY <2>1 DEF StreamOK, HeldSum
      <3>2. i <= u.value /\ counter'[u.gen][i] = u.at /\ i \in 1..Len(counter'[u.gen])
        BY <1>0, <2>2, <2>4, <3>1 DEF n
      <3> QED BY <2>6, <3>2 DEF HeldUpdate
    <2>8. strm'.rec.gen <= run.gen /\ strm'.update.gen \in Gens \cup {0}
      BY <1>0, <2>1, <2>4, <2>6, Zenon
    <2> QED BY <1>1, <2>1, <2>6, <2>7, <2>8, StreamAgain
  <1>11. CASE GrpcTicks
    <2> DEFINE st == SendsStatus(strm, run)
               sent == SendsSteps(st, run)
               snap == Snapshot(run, FALSE, 0)
    <2>1. strm.pc = "tick" /\ strm.last = ""
      BY <1>1, <1>11 DEF GrpcTicks
    <2>2. /\ st \in Streams /\ st.gen = strm.gen /\ st.rec = strm.rec /\ st.col = strm.col
          /\ st.steps = strm.steps /\ st.sentSteps = strm.sentSteps /\ st.pc = "tick"
          /\ st.update = strm.update /\ st.last = ""
      BY <1>0, <1>1, <2>1 DEF SendsStatus, Streams
    <2>3. snap \in {"none", "stored", "live"}
      BY DEF Snapshot
    <2>4. \/ strm' = Done("error")
          \/ /\ run.status \in Terminal
             /\ strm' = [sent EXCEPT !.rec = run, !.snapshot = snap, !.pc = "done", !.last = "eof"]
          \/ strm' = sent
      BY <1>11 DEF GrpcTicks, EndsStream, Terminal
    <2> HIDE DEF st, snap
    <2>5. Numbered(st, run.gen)
      BY <2>2 DEF StreamOK, Numbered
    <2>6. /\ sent \in Streams /\ Numbered(sent, run.gen) /\ Len(sent.steps) >= run.steps
          /\ sent.gen = strm.gen /\ sent.rec = strm.rec /\ sent.col = strm.col
          /\ sent.pc = "tick" /\ sent.update = strm.update /\ sent.last = ""
      BY <1>0, <2>2, <2>5, StepsSent
    <2> HIDE DEF sent
    <2>7. CASE strm' = Done("error")
      BY <2>1, <2>7, StreamDone
    <2>8. CASE strm' = sent
      BY <1>0, <1>1, <2>1, <2>6, <2>8, StreamAgain
    <2>9. CASE /\ run.status \in Terminal
               /\ strm' = [sent EXCEPT !.rec = run, !.snapshot = snap, !.pc = "done", !.last = "eof"]
      <3>1. /\ strm' \in Streams /\ strm'.pc = "done" /\ strm'.last = "eof" /\ strm'.rec = run
            /\ strm'.steps = sent.steps /\ strm'.sentSteps = sent.sentSteps
            /\ strm'.gen = strm.gen /\ strm'.update = strm.update /\ strm'.col = strm.col
        BY <1>0, <2>3, <2>6, <2>9 DEF Streams
      <3>2. Numbered(strm', run.gen)
        BY <2>6, <3>1 DEF Numbered
      <3>3. run.gen \in Gens /\ run.steps \in Nat
            /\ atEnd[run.gen] \in Nat /\ atEnd[run.gen] <= run.steps
        BY <1>0, <2>9 DEF RunOK, Present, Ended, Terminal, Records
      <3>4. Len(sent.steps) \in Nat
        <4>1. sent.steps \in Seq(Sent)
          BY <2>6 DEF Streams
        <4> QED BY <4>1
      <3>5. Over(run', run.gen)
        BY <1>0, <2>9 DEF Over
      <3>6. Len(strm'.steps) >= atEnd'[run.gen]
        <4>1. Len(sent.steps) >= atEnd[run.gen]
          <5>1. \A a, b, c \in Nat : a >= b /\ c <= b => a >= c
            OBVIOUS
          <5> QED BY <2>6, <3>3, <3>4, <5>1, Zenon
        <4> QED BY <1>0, <3>1, <4>1, Zenon
      <3>7. StreamEnd'
        BY <3>1, <3>3, <3>5, <3>6 DEF StreamEnd, CompleteIsFinal
      <3>8. strm'.rec.gen <= run.gen
        BY <1>0, <3>1, Zenon
      <3> QED BY <1>1, <2>1, <3>1, <3>2, <3>7, <3>8, StreamAgain
    <2> QED BY <2>4, <2>7, <2>8, <2>9
  <1> QED BY <1>4, <1>5, <1>6, <1>7, <1>8, <1>9, <1>10, <1>11 DEF StreamSteps, StreamTicks

\* What a stream holds implies what it delivers.
LEMMA StreamDelivers ==
  ASSUME RunOK, StreamOK
  PROVE  StreamFaithful
  <1>1. StepsInOrder
    <2>1. strm.steps \in Seq(Sent)
      BY DEF StreamOK, Streams
    <2>2. DOMAIN strm.steps = 1..Len(strm.steps)
      BY <2>1
    <2> QED BY <2>2 DEF StreamOK, Numbered, StepsInOrder
  <1>2. GrpcDeliversAllSteps
    BY DEF StreamOK, StreamEnd, GrpcDeliversAllSteps
  <1>3. UpdateCoversTimestamp
    <2> DEFINE u == strm.update
               c == counter[u.gen]
               older == {i \in DOMAIN c : c[i] < u.at}
    <2> SUFFICES ASSUME u.gen # 0 PROVE u.value > Cardinality(older)
      BY DEF UpdateCoversTimestamp
    <2>1. u.gen \in Gens /\ u.value \in Nat /\ u.at \in Nat
      BY DEF StreamOK, Streams, Updates
    <2>2. c \in Seq(Nat) /\ DOMAIN c = 1..Len(c) /\ Len(c) \in Nat
      BY <2>1 DEF RunOK
    <2>3. PICK i \in 1..Len(c) : i <= u.value /\ c[i] = u.at
      BY DEF StreamOK, HeldUpdate
    <2>4. \A j \in older : j \in 1..(i - 1)
      <3> SUFFICES ASSUME NEW j \in older, j >= i PROVE FALSE
        BY <2>2, <2>3
      <3>1. c[i] <= c[j]
        BY <2>1, <2>2, <2>3 DEF RunOK
      <3>2. c[j] < u.at /\ c[j] \in Nat
        BY <2>2
      <3> QED BY <2>1, <2>3, <3>1, <3>2
    <2>5. IsFiniteSet(1..(i - 1)) /\ Cardinality(1..(i - 1)) = i - 1
      <3>1. i \in Nat /\ i - 1 \in Int /\ 1 \in Int /\ 1 <= i
        BY <2>2
      <3>2. /\ IsFiniteSet(1..(i - 1))
            /\ Cardinality(1..(i - 1)) = IF 1 > i - 1 THEN 0 ELSE (i - 1) - 1 + 1
        BY ONLY <3>1, FS_Interval
      <3> QED BY <3>1, <3>2
    <2>6. Cardinality(older) <= i - 1 /\ IsFiniteSet(older)
      BY <2>4, <2>5, FS_Subset
    <2>7. Cardinality(older) \in Nat
      BY <2>6, FS_CardinalityType
    <2> HIDE DEF older
    <2> QED BY <2>1, <2>2, <2>3, <2>6, <2>7
  <1> QED BY <1>1, <1>2, <1>3 DEF StreamFaithful, StreamOK, StreamEnd

-----------------------------------------------------------------------------
(* The call.                                                               *)

EntryKinds == {"good", "bad", "refused"}
AnswerKinds == {"", "ok", "conflict", "not_found", "too_many", "internal", "precondition",
                "invalid", "refused", "panic"}
CallRecords ==
  [op : {"", "create", "start", "stop", "renew", "configuration", "metrics", "series", "update",
         "rate"},
   via : {"http", "grpc"},
   pc : {"idle", "called", "mark", "entry", "apply", "answer", "read", "done"},
   entries : Seq(EntryKinds), next : Nat, gen : Nat, saw : BOOLEAN, answer : AnswerKinds]

\* The entries an update has applied are those before the one it is at, in order.
CallCounts ==
  /\ call.op \in {"update", "rate"} => call.next = Len(applied) + 1
  /\ call.pc = "apply" => call.next <= Len(call.entries)
  /\ call.pc = "entry" => call.next <= Len(call.entries) + 1
  /\ call.op \in {"update", "rate"} /\ call.pc = "answer" => Len(applied) = Len(call.entries)

\* A call that goes on has seen the run and remembers which one; a stop that has marked it
\* finds it over.
CallFlow ==
  /\ call.pc # "done" => call.answer = ""
  /\ call.pc \in {"idle", "called", "mark"} => applied = <<>>
  /\ call.pc \in {"entry", "apply"} => call.op \in {"update", "rate"}
  /\ call.pc \in {"entry", "apply", "answer"} => call.saw
  /\ call.pc = "read" => call.op \in {"configuration", "series"}
  /\ call.op = "stop" /\ call.saw => Over(run, call.gen)
  /\ call.answer = "panic" => call.saw
  /\ call.op = "stop" /\ call.answer = "ok" => call.saw

CountsUp(q) == q \in Seq(Nat) /\ \A i \in 1..Len(q) : q[i] = i

CallOK ==
  /\ call \in CallRecords /\ CountsUp(applied)
  /\ CallCounts /\ CallFlow
  /\ call.pc = "done" => PatchAppliesPrefix

\* The numbers from one on are what they count.
LEMMA CountedUp ==
  ASSUME NEW q, CountsUp(q)
  PROVE  Len(q) \in Nat /\ q = [i \in 1..Len(q) |-> i]
  <1>1. Len(q) \in Nat /\ q \in [1..Len(q) -> Nat]
    BY DEF CountsUp
  <1> QED BY <1>1 DEF CountsUp

\* So are they with the next one.
LEMMA CountedOn ==
  ASSUME NEW q, CountsUp(q)
  PROVE  CountsUp(Append(q, Len(q) + 1)) /\ Len(Append(q, Len(q) + 1)) = Len(q) + 1
  <1>1. q \in Seq(Nat) /\ Len(q) \in Nat /\ Len(q) + 1 \in Nat
    BY DEF CountsUp
  <1>2. /\ Append(q, Len(q) + 1) \in Seq(Nat) /\ Len(Append(q, Len(q) + 1)) = Len(q) + 1
        /\ \A i \in 1..Len(q) : Append(q, Len(q) + 1)[i] = q[i]
        /\ Append(q, Len(q) + 1)[Len(q) + 1] = Len(q) + 1
    BY <1>1
  <1> QED BY <1>1, <1>2 DEF CountsUp

\* A step of others keeps it.
LEMMA CallStands ==
  ASSUME CallOK, Forward, UNCHANGED callVars
  PROVE  CallOK'
  <1>1. call' = call /\ applied' = applied
    BY DEF callVars
  <1>2. call.gen \in Nat /\ (Over(run, call.gen) => Over(run', call.gen))
    BY DEF CallOK, CallRecords, Forward
  <1>3. CallCounts' /\ (call.pc = "done" => PatchAppliesPrefix')
    BY <1>1 DEF CallOK, CallCounts, PatchAppliesPrefix
  <1>4. CallFlow'
    BY <1>1, <1>2 DEF CallOK, CallFlow
  <1> QED BY <1>1, <1>3, <1>4 DEF CallOK

\* The call returns.
LEMMA CallReturns ==
  ASSUME CallOK, Forward, NEW a \in AnswerKinds, call' = Answered(a), UNCHANGED applied,
         call.op \in {"update", "rate"} /\ a = "ok" => Len(applied) = Len(call.entries),
         call.op \in {"update", "rate"} /\ a \in {"invalid", "refused"} =>
           Len(applied) < Len(call.entries) /\ call.entries[Len(applied) + 1] # "good",
         a = "panic" => call.saw,
         call.op = "stop" /\ a = "ok" => call.saw
  PROVE  CallOK'
  <1>1. call.gen \in Nat /\ (Over(run, call.gen) => Over(run', call.gen))
    BY DEF CallOK, CallRecords, Forward
  <1>2. /\ call' \in CallRecords /\ call'.pc = "done" /\ call'.answer = a
        /\ call'.op = call.op /\ call'.entries = call.entries /\ call'.next = call.next
        /\ call'.gen = call.gen /\ call'.saw = call.saw
    BY DEF CallOK, CallRecords, Answered
  <1>3. applied = [i \in 1..Len(applied) |-> i]
    BY CountedUp DEF CallOK
  <1>4. PatchAppliesPrefix'
    BY <1>2, <1>3 DEF PatchAppliesPrefix
  <1>5. CallCounts'
    BY <1>2 DEF CallOK, CallCounts
  <1>6. CallFlow'
    BY <1>1, <1>2 DEF CallOK, CallFlow
  <1> QED BY <1>2, <1>4, <1>5, <1>6 DEF CallOK

\* The call looks at the run, and goes on.
LEMMA CallSees ==
  ASSUME CallOK, RunOK, NEW p \in {"answer", "entry", "read"}, call' = [Seen EXCEPT !.pc = p],
         UNCHANGED applied, call.pc # "done", call.op # "stop",
         call.op \in {"update", "rate"} => p = "entry" /\ call.pc = "called",
         call.op \notin {"update", "rate"} => p # "entry",
         p = "read" => call.op \in {"configuration", "series"}
  PROVE  CallOK'
  <1>1. run.gen \in Nat
    BY DEF RunOK, Records
  <1>2. /\ call' \in CallRecords /\ call'.pc = p /\ call'.answer = call.answer
        /\ call'.op = call.op /\ call'.entries = call.entries /\ call'.next = call.next
        /\ call'.saw = TRUE
    BY <1>1 DEF CallOK, CallRecords, Seen
  <1>3. CallCounts'
    <2>1. call.pc = "called" => Len(applied) = 0
      <3>1. call.pc = "called" => applied = <<>>
        BY Zenon DEF CallOK, CallFlow
      <3>2. Len(<<>>) = 0
        OBVIOUS
      <3> QED BY <3>1, <3>2, Zenon
    <2>2. Len(call.entries) \in Nat
      <3>1. call.entries \in Seq(EntryKinds)
        BY DEF CallOK, CallRecords
      <3> QED BY <3>1
    <2> QED BY <1>2, <2>1, <2>2 DEF CallOK, CallCounts
  <1>4. CallFlow'
    BY <1>2 DEF CallOK, CallFlow
  <1> QED BY <1>2, <1>3, <1>4 DEF CallOK

\* One step of the call.
LEMMA CallStep ==
  ASSUME CallOK, RunOK, RunOK', Forward, CallSteps
  PROVE  CallOK'
  <1>0. /\ call \in CallRecords /\ call.gen \in Nat /\ (Over(run, call.gen) => Over(run', call.gen))
        /\ call.entries \in Seq(EntryKinds) /\ call.next \in Nat
    BY DEF CallOK, CallRecords, Forward
  <1>00. Len(call.entries) \in Nat /\ Len(applied) \in Nat /\ CountsUp(applied)
    BY <1>0, CountedUp DEF CallOK
  <1>1. CASE SomeCall
    <2>1. PICK op \in {"create", "start", "stop", "renew", "configuration", "metrics", "series",
                       "update", "rate"}, via \in {"http", "grpc"}, e \in Seq(EntryKinds) :
            Calls(op, via, e)
      <3>1. <<>> \in Seq(EntryKinds) /\ \A k \in EntryKinds : <<k>> \in Seq(EntryKinds)
        OBVIOUS
      <3>2. Entries \subseteq Seq(EntryKinds)
        BY RunCallsConstants DEF Entries, EntryKinds
      <3> QED BY <1>1, <3>1, <3>2 DEF SomeCall, EntryKinds
    <2>2. /\ call' \in CallRecords /\ call'.pc = "called" /\ call'.answer = "" /\ call'.next = 1
          /\ call'.saw = FALSE
      BY <2>1 DEF Calls, NoCall, CallRecords, AnswerKinds
    <2>3. applied' = <<>>
      BY <2>1 DEF Calls, CallOK, CallFlow
    <2>4. CountsUp(applied') /\ Len(applied') = 0
      BY <2>3 DEF CountsUp
    <2>5. CallCounts'
      <3>1. call'.next = Len(applied') + 1
        <4>1. 1 = 0 + 1
          OBVIOUS
        <4> QED BY <2>2, <2>4, <4>1, Zenon
      <3>2. call'.pc \notin {"apply", "entry", "answer"}
        BY <2>2
      <3> QED BY <3>1, <3>2, Zenon DEF CallCounts
    <2>6. CallFlow'
      BY <2>2, <2>3 DEF CallFlow
    <2> QED BY <2>2, <2>4, <2>5, <2>6 DEF CallOK
  <1>2. CASE Creates
    BY <1>2, CallReturns DEF Creates, AnswerKinds
  <1>3. CASE Starts
    <2>1. CASE call' = [Seen EXCEPT !.pc = "answer"]
      BY <1>3, <2>1, CallSees DEF Starts
    <2>2. CASE \E a \in {"not_found", "conflict", "too_many", "internal"} : call' = Answered(a)
      BY <1>3, <2>2, CallReturns DEF Starts, AnswerKinds
    <2> QED BY <1>3, <2>1, <2>2 DEF Starts
  <1>4. CASE StopsFirst
    <2>1. /\ call' \in CallRecords /\ call'.pc = "mark" /\ call'.answer = call.answer
          /\ call'.op = "stop" /\ call'.gen = call.gen /\ call'.saw = call.saw
          /\ call.pc = "called" /\ call.op = "stop" /\ UNCHANGED applied
      BY <1>0, <1>4 DEF StopsFirst, CallRecords
    <2>2. CallCounts'
      BY <2>1 DEF CallCounts
    <2>3. CallFlow'
      BY <1>0, <2>1 DEF CallOK, CallFlow
    <2> QED BY <2>1, <2>2, <2>3 DEF CallOK
  <1>5. CASE Stops
    <2>1. CASE Present
      <3>1. call' = [Seen EXCEPT !.pc = "answer"] /\ call.op = "stop" /\ call.pc = "mark"
            /\ UNCHANGED applied
        BY <1>5, <2>1 DEF Stops
      <3>2. run.gen \in Nat
        BY DEF RunOK, Records
      <3>3. /\ call' \in CallRecords /\ call'.pc = "answer" /\ call'.answer = call.answer
            /\ call'.op = "stop" /\ call'.gen = run.gen /\ call'.saw = TRUE
        BY <1>0, <3>1, <3>2 DEF Seen, CallRecords
      <3>4. run'.gen = run.gen /\ run'.status \in Terminal
        BY <1>5, <2>1 DEF Stops, EndsAs, RunOK, Records, Terminal
      <3>5. Over(run', run.gen)
        BY <3>4 DEF Over
      <3>6. CallCounts'
        BY <3>3 DEF CallCounts
      <3>7. CallFlow'
        BY <3>1, <3>3, <3>5 DEF CallOK, CallFlow
      <3> QED BY <3>1, <3>3, <3>6, <3>7 DEF CallOK
    <2>2. CASE ~Present
      BY <1>5, <2>2, CallReturns DEF Stops, AnswerKinds
    <2> QED BY <2>1, <2>2
  <1>6. CASE Renews
    <2>1. CASE call' = [Seen EXCEPT !.pc = "answer"]
      BY <1>6, <2>1, CallSees DEF Renews
    <2>2. CASE \E a \in {"not_found", "precondition"} : call' = Answered(a)
      BY <1>6, <2>2, CallReturns DEF Renews, AnswerKinds
    <2> QED BY <1>6, <2>1, <2>2 DEF Renews
  <1>7. CASE GrpcChecks \/ GrpcChecksRate \/ HttpChecks \/ HttpChecksRate
    <2>1. /\ call.op \in {"update", "rate"} /\ call.pc = "called" /\ call' = CheckedRun
          /\ UNCHANGED applied
      BY <1>7 DEF GrpcChecks, GrpcChecksRate, HttpChecks, HttpChecksRate
    <2>2. CASE call' = [Seen EXCEPT !.pc = "entry"]
      BY <2>1, <2>2, CallSees
    <2>3. CASE \E a \in {"not_found", "precondition"} : call' = Answered(a)
      BY <2>1, <2>3, CallReturns DEF AnswerKinds
    <2> QED BY <2>1, <2>2, <2>3 DEF CheckedRun
  <1>8. CASE LooksUp
    <2>1. /\ call.pc = "entry" /\ call.next <= Len(call.entries) /\ UNCHANGED applied
          /\ call.op \in {"update", "rate"} /\ call.next = Len(applied) + 1
      BY <1>8 DEF LooksUp, AtEntry, CallOK, CallCounts, CallFlow
    <2>2. CASE Entry = "bad" /\ call' = Answered("invalid")
      <3>1. Len(applied) < Len(call.entries) /\ call.entries[Len(applied) + 1] # "good"
        BY <1>00, <2>1, <2>2 DEF Entry
      <3> QED BY <2>1, <2>2, <3>1, CallReturns DEF AnswerKinds
    <2>3. CASE call' = Answered("not_found")
      BY <2>1, <2>3, CallReturns DEF AnswerKinds
    <2>4. CASE call' = [call EXCEPT !.pc = "apply"]
      <3>1. /\ call' \in CallRecords /\ call'.pc = "apply" /\ call'.answer = call.answer
            /\ call'.op = call.op /\ call'.gen = call.gen /\ call'.saw = call.saw
            /\ call'.entries = call.entries /\ call'.next = call.next
        BY <1>0, <2>4 DEF CallRecords
      <3>2. CallCounts'
        BY <2>1, <3>1 DEF CallCounts
      <3>3. CallFlow'
        BY <1>0, <2>1, <3>1 DEF CallOK, CallFlow
      <3> QED BY <2>1, <3>1, <3>2, <3>3 DEF CallOK
    <2> QED BY <1>8, <2>2, <2>3, <2>4 DEF LooksUp
  <1>9. CASE Applies
    <2>1. /\ call.pc = "apply" /\ call.op \in {"update", "rate"} /\ call.next = Len(applied) + 1
          /\ call.next <= Len(call.entries) /\ call.saw /\ call.answer = ""
      BY <1>9 DEF Applies, CallOK, CallCounts, CallFlow
    <2>2. CASE Entry # "good"
      <3>1. call' = Answered("refused") /\ UNCHANGED applied
        BY <1>9, <2>2 DEF Applies
      <3>2. Len(applied) < Len(call.entries) /\ call.entries[Len(applied) + 1] # "good"
        <4>1. \A a, b, c \in Nat : a = b + 1 /\ a <= c => b < c
          OBVIOUS
        <4>2. Len(applied) < Len(call.entries)
          BY <1>0, <1>00, <2>1, <4>1, Zenon
        <4> QED BY <2>1, <2>2, <4>2, Zenon DEF Entry
      <3> QED BY <2>1, <3>1, <3>2, CallReturns DEF AnswerKinds
    <2>3. CASE Entry = "good"
      <3>1. call' = [call EXCEPT !.pc = "entry", !.next = call.next + 1]
            /\ applied' = Append(applied, Len(applied) + 1)
        BY <1>9, <2>1, <2>3 DEF Applies
      <3>2. call.next + 1 \in Nat
        BY <1>0
      <3>3. /\ call' \in CallRecords /\ call'.pc = "entry" /\ call'.answer = call.answer
            /\ call'.op = call.op /\ call'.gen = call.gen /\ call'.saw = call.saw
            /\ call'.entries = call.entries /\ call'.next = call.next + 1
        BY <1>0, <3>1, <3>2 DEF CallRecords
      <3>4. CountsUp(applied') /\ Len(applied') = Len(applied) + 1
        BY <1>00, <3>1, CountedOn
      <3>5. call.next + 1 = Len(applied') + 1 /\ call.next + 1 <= Len(call.entries) + 1
        <4>1. \A a, b \in Nat : a <= b => a + 1 <= b + 1
          OBVIOUS
        <4> QED BY <1>0, <1>00, <2>1, <3>4, <4>1, Zenon
      <3>6. CallCounts'
        BY <3>3, <3>5 DEF CallCounts
      <3>7. CallFlow'
        BY <1>0, <2>1, <3>3 DEF CallFlow
      <3> QED BY <3>3, <3>4, <3>6, <3>7 DEF CallOK
    <2> QED BY <2>2, <2>3
  <1>10. CASE AllApplied
    <2>1. /\ call.pc = "entry" /\ call.next > Len(call.entries) /\ UNCHANGED applied
          /\ call.op \in {"update", "rate"} /\ call.next = Len(applied) + 1
          /\ call.next <= Len(call.entries) + 1
      BY <1>10 DEF AllApplied, CallOK, CallCounts, CallFlow
    <2>2. /\ call' \in CallRecords /\ call'.pc = "answer" /\ call'.answer = call.answer
          /\ call'.op = call.op /\ call'.gen = call.gen /\ call'.saw = call.saw
          /\ call'.entries = call.entries /\ call'.next = call.next
      BY <1>0, <1>10 DEF AllApplied, CallRecords
    <2>3. Len(applied) = Len(call.entries)
      BY <1>0, <1>00, <2>1
    <2>4. CallCounts'
      BY <2>1, <2>2, <2>3 DEF CallCounts
    <2>5. CallFlow'
      BY <1>0, <2>1, <2>2 DEF CallOK, CallFlow
    <2> QED BY <2>1, <2>2, <2>4, <2>5 DEF CallOK
  <1>11. CASE Answers
    <2>1. PICK a \in {"ok", "panic", "internal", "not_found"} : call' = Answered(a)
      BY <1>11 DEF Answers, HttpAnswersStart, HttpAnswersStop, GrpcAnswersUpdate, GrpcAnswersRate,
           AnswersRenew, AnswersPlainly, Rereads
    <2>2. call.pc = "answer" /\ UNCHANGED applied
      BY <1>11 DEF Answers, HttpAnswersStart, HttpAnswersStop, GrpcAnswersUpdate, GrpcAnswersRate,
           AnswersRenew, AnswersPlainly, Rereads
    <2>3. call.saw /\ (call.op \in {"update", "rate"} => Len(applied) = Len(call.entries))
      BY <2>2 DEF CallOK, CallCounts, CallFlow
    <2> QED BY <2>1, <2>2, <2>3, CallReturns DEF AnswerKinds
  <1>12. CASE Reads
    <2>1. call.op \in {"configuration", "metrics", "series"} /\ call.pc = "called" /\ UNCHANGED applied
      BY <1>12 DEF Reads
    <2>2. CASE call.op # "metrics" /\ call' = [Seen EXCEPT !.pc = "read"]
      BY <2>1, <2>2, CallSees
    <2>3. CASE \E a \in {"ok", "not_found", "precondition"} : call' = Answered(a)
      BY <2>1, <2>3, CallReturns DEF AnswerKinds
    <2> QED BY <1>12, <2>2, <2>3 DEF Reads
  <1>13. CASE ReadsOn
    <2>1. PICK a \in {"ok", "internal", "precondition"} : call' = Answered(a)
      BY <1>13 DEF ReadsOn
    <2>2. call.pc = "read" /\ UNCHANGED applied
      BY <1>13 DEF ReadsOn
    <2>3. call.op \notin {"update", "rate", "stop"}
      BY <2>2 DEF CallOK, CallCounts, CallFlow
    <2> QED BY <2>1, <2>2, <2>3, CallReturns DEF AnswerKinds
  <1> QED BY <1>1, <1>2, <1>3, <1>4, <1>5, <1>6, <1>7, <1>8, <1>9, <1>10, <1>11, <1>12, <1>13
          DEF CallSteps

\* What a call remembers implies what its answer promises.
LEMMA CallAnswers ==
  ASSUME RunOK, CallOK
  PROVE  CallsAnswered
  <1>1. PatchAppliesPrefix
    <2>1. applied = [i \in 1..Len(applied) |-> i]
      BY CountedUp DEF CallOK
    <2> QED BY <2>1 DEF CallOK, CallFlow, PatchAppliesPrefix
  <1>2. PanicOnlyAfterEviction
    BY DEF CallOK, CallFlow, PanicOnlyAfterEviction
  <1>3. StopAnsweredMeansEnded
    <2>1. call.gen \in Nat /\ run.gen \in Nat
      BY DEF CallOK, CallRecords, RunOK, Records
    <2>2. call.op = "stop" /\ call.answer = "ok" => Over(run, call.gen)
      BY Zenon DEF CallOK, CallFlow
    <2>3. \A g, h \in Nat : g > h => g # h
      OBVIOUS
    <2>4. Over(run, call.gen) => run.gen # call.gen \/ run.status \in Terminal \cup {"ABSENT"}
      BY <2>1, <2>3, Zenon DEF Over
    <2> QED BY <2>2, <2>4 DEF StopAnsweredMeansEnded, Present, Ended
  <1> QED BY <1>1, <1>2, <1>3 DEF CallsAnswered

-----------------------------------------------------------------------------
(* The callback.                                                           *)

Notes ==
  [pc : {"none", "called", "refused", "post", "sent", "gave_up"}, held : Records,
   payload : Records, attempt : Nat, got : SUBSET Records]

\* A record worth reporting: of a run that is over, with its metrics if it has completed.
Final(p) == p.status \in Terminal /\ (p.status = "COMPLETED" => p.metrics)

\* The payload was made once, from the record that was held or the one that took its place.
NoteOK ==
  /\ note \in Notes
  /\ note.pc # "none" => Final(note.held) /\ Over(run, note.held.gen)
  /\ note.pc \in {"none", "called", "refused"} => note.got = {}
  /\ note.pc \in {"post", "sent", "gave_up"} /\ note.payload.gen = note.held.gen =>
       Final(note.payload)
  /\ note.got \subseteq {note.payload}

\* A step of others keeps it.
LEMMA NoteStands ==
  ASSUME NoteOK, Forward, UNCHANGED note
  PROVE  NoteOK'
  <1>1. note.held.gen \in Nat
    BY DEF NoteOK, Notes, Records
  <1> QED BY <1>1 DEF NoteOK, Forward

\* One step of the notifier.
LEMMA NoteStep ==
  ASSUME RunOK, NoteOK, NoteSteps, UNCHANGED runVars
  PROVE  NoteOK'
  <1> USE DEF runVars
  <1>0. note \in Notes /\ run \in Records /\ note.payload \in Records /\ note.got \in SUBSET Records
    BY DEF NoteOK, RunOK, Notes
  <1>1. CASE NotifyCalled
    <2>1. note' \in Notes /\ note'.pc = "called" /\ note'.held = run /\ note'.got = note.got
          /\ note'.payload = note.payload /\ note.pc = "none" /\ Ended
      BY <1>0, <1>1 DEF NotifyCalled, Notes
    <2> QED BY <2>1 DEF NoteOK, RunOK, Final, Over, Ended
  <1>2. CASE Notify
    <2>1. CASE note' = [note EXCEPT !.pc = "refused"]
      <3>1. note' \in Notes /\ note'.pc = "refused" /\ note'.held = note.held
            /\ note'.got = note.got /\ note'.payload = note.payload
        BY <1>0, <2>1 DEF Notes
      <3> QED BY <1>2, <3>1 DEF Notify, NoteOK
    <2>2. CASE note' = [note EXCEPT !.pc = "post", !.payload = IF Present THEN run ELSE note.held]
      <3>1. note' \in Notes /\ note'.pc = "post" /\ note'.held = note.held /\ note'.got = note.got
            /\ note'.payload = IF Present THEN run ELSE note.held
        BY <1>0, <2>2 DEF Notes
      <3>2. Final(note.held) /\ Over(run, note.held.gen) /\ note.got = {}
        BY <1>2 DEF Notify, NoteOK
      <3>3. Present /\ run.gen = note.held.gen => Final(run)
        BY <1>0, <3>2 DEF Final, Over, RunOK, Present, Records
      <3> QED BY <3>1, <3>2, <3>3 DEF NoteOK
    <2> QED BY <1>2, <2>1, <2>2 DEF Notify
  <1>3. CASE Attempts
    <2>1. /\ note' \in Notes /\ note'.pc \in {"post", "sent"} /\ note.pc = "post"
          /\ note'.held = note.held /\ note'.payload = note.payload
          /\ note'.got \subseteq note.got \cup {note.payload}
      <3>1. note.attempt + 1 \in Nat /\ note.got \cup {note.payload} \in SUBSET Records
        BY <1>0 DEF Notes
      <3>2. CASE note' = [note EXCEPT !.pc = "sent", !.got = @ \cup {note.payload}]
        BY <1>0, <1>3, <3>1, <3>2 DEF Attempts, Notes
      <3>3. CASE \E g \in {note.got, note.got \cup {note.payload}} :
                   note' = [note EXCEPT !.got = g, !.attempt = @ + 1]
        <4>1. PICK g \in {note.got, note.got \cup {note.payload}} :
                 note' = [note EXCEPT !.got = g, !.attempt = @ + 1]
          BY <3>3
        <4>2. g \in SUBSET Records /\ g \subseteq note.got \cup {note.payload}
          BY <1>0, <3>1 DEF Notes
        <4>3. note.pc = "post"
          BY <1>3 DEF Attempts
        <4> QED BY <1>0, <3>1, <4>1, <4>2, <4>3 DEF Notes
      <3> QED BY <1>3, <3>2, <3>3 DEF Attempts, Failed, Posted
    <2> QED BY <2>1 DEF NoteOK
  <1>4. CASE GivesUp
    <2>1. /\ note' \in Notes /\ note'.pc = "gave_up" /\ note.pc = "post"
          /\ note'.held = note.held /\ note'.payload = note.payload /\ note'.got = note.got
      BY <1>0, <1>4 DEF GivesUp, Notes
    <2> QED BY <2>1 DEF NoteOK
  <1> QED BY <1>1, <1>2, <1>3, <1>4 DEF NoteSteps

\* One payload, and a final one, is all the receiver can have.
LEMMA NoteReports ==
  ASSUME NoteOK
  PROVE  CallbackIsOneReport
  <1>1. Cardinality(note.got) <= 1
    <2>1. IsFiniteSet({note.payload}) /\ Cardinality({note.payload}) = 1
      BY FS_Singleton
    <2> QED BY <2>1, FS_Subset DEF NoteOK
  <1>2. ASSUME NEW p \in note.got, p.gen = note.held.gen PROVE Final(p)
    BY <1>2 DEF NoteOK, Notes
  <1> QED BY <1>1, <1>2 DEF CallbackIsOneReport, Final

-----------------------------------------------------------------------------
(* The list.                                                               *)

\* Without two runs in one millisecond, the time of the n'th run is n; what the client has
\* not seen of the runs that were there when it began is still ahead of it.
ListOK ==
  /\ listed \in Seq(Nat) /\ \A i \in 1..Len(listed) : listed[i] = i
  /\ pager \in [pc : {"idle", "paging", "end"}, offset : Nat, seen : SUBSET Nat, first : Nat]
  /\ pager.first <= Len(listed)
  /\ \A x \in 1..pager.first : x \in pager.seen \/ Len(listed) + 1 - x > pager.offset
  /\ PagingSeesAll

\* Numbers that fall from step to step and stay within 1..n fall by one.
LEMMA Falling ==
  ASSUME NEW n \in Nat, NEW s \in [1..n -> 1..n], NEW i \in 1..n,
         \A j, k \in 1..n : j < k => s[j] > s[k]
  PROVE  s[i] = n + 1 - i
  <1>1. s[i] \in 1..n /\ s[i] \in Nat /\ i \in Nat /\ i <= n /\ 1 <= i
    OBVIOUS
  <1>0. ASSUME NEW j \in 1..n, NEW k \in 1..n, s[j] = s[k] PROVE j = k
    <2>1. s[j] \in Nat /\ s[k] \in Nat /\ (j < k \/ k < j \/ j = k)
      OBVIOUS
    <2>2. j < k => s[j] > s[k]
      OBVIOUS
    <2>3. k < j => s[k] > s[j]
      OBVIOUS
    <2> QED BY <1>0, <2>1, <2>2, <2>3
  <1>2. s[i] <= n + 1 - i
    <2> DEFINE f == [j \in 1..i |-> s[j]]
    <2>1. ASSUME NEW j \in 1..i PROVE j \in 1..n /\ s[j] \in s[i]..n
      <3>1. j \in 1..n /\ j \in Nat /\ (j < i \/ j = i)
        BY <1>1
      <3>2. s[j] \in 1..n /\ (s[j] > s[i] \/ s[j] = s[i])
        BY <3>1
      <3>3. \A a, b \in 1..n : a > b \/ a = b => a \in b..n
        OBVIOUS
      <3> QED BY <1>1, <3>1, <3>2, <3>3, Zenon
    <2>2. \A j, k \in 1..i : s[j] = s[k] => j = k
      BY <1>0, <2>1
    <2>3. f \in Injection(1..i, s[i]..n)
      BY <2>1, <2>2 DEF Injection, IsInjective
    <2>4. IsFiniteSet(s[i]..n) /\ Cardinality(s[i]..n) = n - s[i] + 1 /\ Cardinality(1..i) = i
      <3>1. s[i] \in Int /\ n \in Int /\ i \in Int /\ 1 \in Int /\ s[i] <= n /\ 1 <= i
        BY <1>1
      <3>2. IsFiniteSet(s[i]..n) /\ Cardinality(s[i]..n) = n - s[i] + 1
        <4>1. ~(s[i] > n)
          BY <3>1
        <4> QED BY ONLY <3>1, <4>1, FS_Interval
      <3>3. Cardinality(1..i) = i
        <4>1. ~(1 > i) /\ i - 1 + 1 = i
          BY <3>1
        <4> QED BY ONLY <3>1, <4>1, FS_Interval
      <3> QED BY <3>2, <3>3
    <2>5. Cardinality(1..i) <= Cardinality(s[i]..n)
      BY <2>3, <2>4, FS_Injection
    <2> QED BY <1>1, <2>4, <2>5
  <1>3. s[i] >= n + 1 - i
    <2> DEFINE f == [j \in i..n |-> s[j]]
    <2>1. ASSUME NEW j \in i..n PROVE j \in 1..n /\ s[j] \in 1..s[i]
      <3>1. j \in 1..n /\ j \in Nat /\ (i < j \/ j = i)
        BY <1>1
      <3>2. s[j] \in 1..n /\ (s[i] > s[j] \/ s[j] = s[i])
        BY <3>1
      <3>3. \A a, b \in 1..n : b > a \/ a = b => a \in 1..b
        OBVIOUS
      <3> QED BY <1>1, <3>1, <3>2, <3>3, Zenon
    <2>2. \A j, k \in i..n : s[j] = s[k] => j = k
      BY <1>0, <2>1
    <2>3. f \in Injection(i..n, 1..s[i])
      BY <2>1, <2>2 DEF Injection, IsInjective
    <2>4. IsFiniteSet(1..s[i]) /\ Cardinality(1..s[i]) = s[i] /\ Cardinality(i..n) = n - i + 1
      BY <1>1, FS_Interval
    <2>5. Cardinality(i..n) <= Cardinality(1..s[i])
      BY <2>3, <2>4, FS_Injection
    <2> QED BY <1>1, <2>4, <2>5
  <1> QED BY <1>1, <1>2, <1>3

\* Then there is one order, newest first.
LEMMA OneOrder ==
  ASSUME ListOK, NEW s \in Sorted, NEW i \in 1..Len(listed)
  PROVE  s[i] = Len(listed) + 1 - i
  <1> DEFINE n == Len(listed)
  <1>1. n \in Nat /\ DOMAIN listed = 1..n /\ \A j \in 1..n : listed[j] = j
    BY DEF ListOK
  <1>2. /\ s \in [1..n -> 1..n] /\ IsInjective(s)
        /\ \A j, k \in 1..n : j < k => listed[s[j]] >= listed[s[k]]
    <2>1. s \in [DOMAIN listed -> DOMAIN listed] /\ IsInjective(s)
      BY DEF Sorted
    <2>2. DOMAIN s = 1..n
      BY <1>1, <2>1
    <2> QED BY <1>1, <2>1, <2>2 DEF Sorted
  <1> HIDE DEF n
  <1>3. ASSUME NEW j \in 1..n, NEW k \in 1..n, j < k PROVE s[j] > s[k]
    <2>1. s[j] \in 1..n /\ s[k] \in 1..n
      BY <1>2
    <2>2. s[j] >= s[k]
      <3>1. listed[s[j]] = s[j] /\ listed[s[k]] = s[k]
        BY <1>1, <2>1
      <3> QED BY <1>2, <1>3, <3>1
    <2>3. s[j] # s[k]
      <3>1. DOMAIN s = 1..n /\ j # k
        BY <1>1, <1>2, <1>3
      <3> QED BY <1>2, <3>1 DEF IsInjective
    <2> QED BY <1>1, <2>1, <2>2, <2>3
  <1>4. i \in 1..n
    BY DEF n
  <1>5. s[i] = n + 1 - i
    BY <1>1, <1>2, <1>3, <1>4, Falling
  <1> QED BY <1>5 DEF n

\* One step of the list: a run is created, or a page is read.
LEMMA ListStep ==
  ASSUME ~SameTime, ListOK, ListNext
  PROVE  ListOK'
  <1>0. Len(listed) \in Nat /\ DOMAIN listed = 1..Len(listed) /\ pager.offset \in Nat
        /\ pager.first \in Nat /\ pager.seen \in SUBSET Nat
    BY DEF ListOK
  <1>1. CASE ListCreates
    <2>1. listed' = Append(listed, Len(listed) + 1) /\ UNCHANGED pager
      <3>1. listed # <<>> => listed[Len(listed)] = Len(listed)
        BY DEF ListOK
      <3> QED BY <1>1, <3>1 DEF ListCreates, ListOK
    <2>2. /\ listed' \in Seq(Nat) /\ Len(listed') = Len(listed) + 1
          /\ \A i \in 1..Len(listed') : listed'[i] = i
      BY <1>0, <2>1 DEF ListOK
    <2> QED BY <1>0, <2>1, <2>2 DEF ListOK, PagingSeesAll
  <1>2. CASE PagerStarts
    <2>1. pager' = [pc |-> "paging", offset |-> 0, seen |-> {}, first |-> Len(listed)] /\ UNCHANGED listed
      BY <1>2 DEF PagerStarts
    <2> QED BY <1>0, <2>1 DEF ListOK, PagingSeesAll
  <1>3. CASE PagerReads
    <2> DEFINE n == Len(listed)
               o == pager.offset
    <2>1. PICK s \in Sorted :
            /\ pager' = [pager EXCEPT !.offset = @ + Limit, !.seen = @ \cup Page(s, o),
                                      !.pc = IF Page(s, o) = {} THEN "end" ELSE "paging"]
            /\ UNCHANGED listed
      BY <1>3 DEF PagerReads
    <2>2. s \in [1..n -> 1..n] /\ Len(s) = n
      BY <1>0, <2>1 DEF Sorted
    <2> DEFINE m == Min({o + Limit, n})
    <2>3. m \in Nat /\ m <= o + Limit /\ m <= n /\ (m = n \/ m = o + Limit)
      BY <1>0, RunListConstants DEF Min
    <2>4. Page(s, o) = {s[i] : i \in (o + 1)..m}
      BY <2>2 DEF Page
    <2>0. n \in Nat /\ o \in Nat /\ Limit \in Nat /\ Limit > 0
      BY <1>0, RunListConstants
    <2> HIDE DEF m, n, o
    <2>5. \A i \in (o + 1)..m : i \in 1..n /\ s[i] = n + 1 - i /\ s[i] \in Nat
      <3>1. \A i \in (o + 1)..m : i \in 1..n
        BY <2>0, <2>3
      <3>2. \A i \in 1..n : s[i] = n + 1 - i
        BY <2>1, OneOrder DEF n
      <3> QED BY <2>0, <3>1, <3>2
    <2>6. /\ pager'.offset = o + Limit /\ pager'.seen = pager.seen \cup Page(s, o)
          /\ pager'.first = pager.first /\ (pager'.pc = "end" => Page(s, o) = {})
          /\ pager' \in [pc : {"idle", "paging", "end"}, offset : Nat, seen : SUBSET Nat, first : Nat]
      <3>1. Page(s, o) \in SUBSET Nat
        BY <2>4, <2>5
      <3>2. o + Limit \in Nat /\ pager.offset + Limit = o + Limit
        BY <2>0 DEF o
      <3>3. pager \in [pc : {"idle", "paging", "end"}, offset : Nat, seen : SUBSET Nat, first : Nat]
        BY DEF ListOK
      <3> QED BY <1>0, <2>1, <3>1, <3>2, <3>3
    <2>7. ASSUME NEW x \in 1..pager.first, x \notin pager'.seen
          PROVE  n + 1 - x > o + Limit
      <3>1. n + 1 - x > o /\ n + 1 - x \in 1..n
        BY <1>0, <2>6, <2>7 DEF ListOK, n, o
      <3>2. n + 1 - x \notin (o + 1)..m
        <4> SUFFICES ASSUME n + 1 - x \in (o + 1)..m PROVE FALSE
          OBVIOUS
        <4>1. s[n + 1 - x] = x
          BY <1>0, <2>0, <2>5
        <4> QED BY <2>4, <2>6, <2>7, <4>1
      <3> QED BY <1>0, <2>0, <2>3, <3>1, <3>2
    <2>8. ASSUME pager'.pc = "end", NEW x \in 1..pager.first PROVE x \in pager'.seen
      <3>1. (o + 1)..m = {}
        BY <2>4, <2>6, <2>8
      <3>2. n <= o
        BY <2>0, <2>3, <3>1
      <3> QED BY <1>0, <2>6, <3>2 DEF ListOK, n, o
    <2> QED BY <1>0, <2>1, <2>6, <2>7, <2>8 DEF ListOK, PagingSeesAll, n, o
  <1> QED BY <1>1, <1>2, <1>3 DEF ListNext

-----------------------------------------------------------------------------
(* The theorems.                                                           *)

\* The invariant of the run and of those who watch it.
WatchedOK == RunOK /\ StreamOK /\ CallOK /\ NoteOK

\* It holds at the start.
LEMMA WatchedInit == ClientInit => WatchedOK
  <1> SUFFICES ASSUME ClientInit PROVE WatchedOK
    OBVIOUS
  <1>1. NoRecord(0) \in Records
    BY DEF NoRecord, Records, Statuses
  <1>2. RunOK
    <2>1. /\ run = NoRecord(0) /\ worker = "none" /\ control = "none"
          /\ counter = [g \in Gens |-> <<>>] /\ atEnd = [g \in Gens |-> 0]
      BY DEF ClientInit, RunInit
    <2>2. run.gen = 0 /\ run.status = "ABSENT"
      BY <2>1 DEF NoRecord
    <2>3. run.gen <= MaxGens /\ 0 \in Nat /\ <<>> \in Seq(Nat) /\ Len(<<>>) = 0
      BY <2>2, RunViewConstants
    <2>4. counter \in [Gens -> Seq(Nat)] /\ atEnd \in [Gens -> Nat]
      BY <2>1, <2>3
    <2>5. \A g \in Gens : Len(counter[g]) = 0
      BY <2>1, <2>3
    <2> QED BY <1>1, <2>1, <2>2, <2>3, <2>4, <2>5 DEF RunOK, Present, Ended, Terminal
  <1>3. StreamOK
    <2>1. strm = Closed
      BY DEF ClientInit, StreamInit
    <2>2. Closed \in Streams
      <3>1. [at |-> 0, value |-> 0, gen |-> 0] \in Updates
        BY DEF Updates
      <3>2. <<>> \in Seq(Sent) /\ 0 \in Nat /\ "ABSENT" \in Statuses
        BY DEF Statuses
      <3> QED BY <1>1, <3>1, <3>2 DEF Closed, Streams
    <2>3. /\ Closed.steps = <<>> /\ Closed.sentSteps = 0 /\ Closed.last = "" /\ Closed.pc = "none"
          /\ Closed.rec.gen = 0 /\ Closed.update.gen = 0 /\ Closed.col = 0
      BY DEF Closed, NoRecord
    <2>4. Len(<<>>) = 0
      OBVIOUS
    <2>5. run.gen \in Nat /\ 0 <= run.gen
      BY <1>2 DEF RunOK, Records
    <2>6. Numbered(strm, run.gen) /\ HeldRecord
      <3>1. Len(strm.steps) = 0 /\ strm.sentSteps = 0
        BY <2>1, <2>3, <2>4, Zenon
      <3>2. strm.rec.gen <= run.gen /\ strm.pc \notin {"got", "final"}
        <4>1. strm.rec.gen = 0 /\ strm.pc = "none"
          BY <2>1, <2>3, Zenon
        <4> QED BY <2>5, <4>1
      <3>3. 1..Len(strm.steps) = {}
        BY <3>1
      <3>4. Numbered(strm, run.gen)
        BY <3>1, <3>3 DEF Numbered
      <3> QED BY <3>2, <3>4 DEF HeldRecord
    <2>7. HeldSum /\ HeldUpdate /\ StreamEnd
      <3>1. strm.pc = "none" /\ strm.update.gen = 0 /\ strm.last = ""
        BY <2>1, <2>3, Zenon
      <3> QED BY <3>1 DEF HeldSum, HeldUpdate, StreamEnd, CompleteIsFinal
    <2> QED BY <2>1, <2>2, <2>3, <2>6, <2>7 DEF StreamOK
  <1>4. CallOK
    <2>1. call = NoCall /\ applied = <<>>
      BY DEF ClientInit, CallInit
    <2>2. NoCall \in CallRecords
      <3>1. <<>> \in Seq(EntryKinds) /\ 0 \in Nat /\ 1 \in Nat /\ "" \in AnswerKinds
        BY DEF AnswerKinds
      <3> QED BY <3>1 DEF NoCall, CallRecords
    <2>3. CountsUp(<<>>)
      BY DEF CountsUp
    <2>4. NoCall.op = "" /\ NoCall.pc = "idle" /\ NoCall.answer = "" /\ NoCall.saw = FALSE
      BY DEF NoCall
    <2>5. CallCounts /\ CallFlow
      BY <2>1, <2>4 DEF CallCounts, CallFlow
    <2> QED BY <2>1, <2>2, <2>3, <2>4, <2>5 DEF CallOK
  <1>5. NoteOK
    BY <1>1 DEF ClientInit, NoteInit, NoNote, NoteOK, Notes
  <1> QED BY <1>2, <1>3, <1>4, <1>5 DEF WatchedOK

\* Every step keeps it, whoever takes it.
LEMMA WatchedStep == WatchedOK /\ [ClientNext]_clientVars => WatchedOK'
  <1> SUFFICES ASSUME WatchedOK, [ClientNext]_clientVars PROVE WatchedOK'
    OBVIOUS
  <1>1. RunOK' /\ Forward
    BY ClientRunStep DEF WatchedOK
  <1>2. StreamOK'
    BY <1>1, StreamStands, StreamStep DEF WatchedOK, ClientNext, clientVars
  <1>3. CallOK'
    BY <1>1, CallStands, CallStep DEF WatchedOK, ClientNext, clientVars, callVars
  <1>4. NoteOK'
    BY <1>1, NoteStands, NoteStep DEF WatchedOK, ClientNext, clientVars
  <1> QED BY <1>1, <1>2, <1>3, <1>4 DEF WatchedOK

\* The run, the stream, the call and the callback keep their invariants.
THEOREM WatchedInvariant == ClientSpec => []WatchedOK
  BY WatchedInit, WatchedStep, PTL DEF ClientSpec

\* StreamFaithful: an SSE or gRPC stream delivers every step once and in order, all of them if
\* it ends with the run, the final state as it is, and counters that cover their timestamp.
THEOREM StreamsAreFaithful == ClientSpec => []StreamFaithful
  <1>1. WatchedOK => StreamFaithful
    BY StreamDelivers DEF WatchedOK
  <1> QED BY <1>1, WatchedInvariant, PTL

\* CallsAnswered: an update applies a prefix of its entries, a handler meets a missing record
\* only when it was evicted during the call, and a stop that was answered has ended the run.
THEOREM CallsAreAnswered == ClientSpec => []CallsAnswered
  <1>1. WatchedOK => CallsAnswered
    BY CallAnswers DEF WatchedOK
  <1> QED BY <1>1, WatchedInvariant, PTL

\* CallbackIsOneReport: however often a callback is posted, its receiver gets one report, of a
\* run that has ended.
THEOREM CallbacksAgree == ClientSpec => []CallbackIsOneReport
  <1>1. WatchedOK => CallbackIsOneReport
    BY NoteReports DEF WatchedOK
  <1> QED BY <1>1, WatchedInvariant, PTL

\* PagingSeesAll: with page sizes of at least one, and no two runs created in the same
\* millisecond, paging to the end misses no run that was there at the beginning.
THEOREM PagingIsComplete == ASSUME ~SameTime PROVE ClientSpec => []PagingSeesAll
  <1>1. ClientInit => ListOK
    BY DEF ClientInit, ListInit, ListOK, PagingSeesAll
  <1>2. ListOK /\ [ClientNext]_clientVars => ListOK'
    <2> SUFFICES ASSUME ListOK, [ClientNext]_clientVars PROVE ListOK'
      OBVIOUS
    <2>1. CASE UNCHANGED listVars
      BY <2>1 DEF listVars, ListOK, PagingSeesAll
    <2> QED BY <2>1, ListStep DEF ClientNext, clientVars
  <1>3. ListOK => PagingSeesAll
    BY DEF ListOK
  <1> QED BY <1>1, <1>2, <1>3, PTL DEF ClientSpec
=============================================================================
