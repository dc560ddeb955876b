------------------------------ MODULE RunCalls ------------------------------
(***************************************************************************)
(* One call on a run, through HTTP (http_server.go) or gRPC                *)
(* (grpc_server.go), down to the executor's update methods                 *)
(* (executor_methods.go).  A handler takes the store's and the executor's  *)
(* locks several times, and the run ends, is cleaned up or evicted in      *)
(* between.                                                                *)
(*                                                                         *)
(* An update carries entries (replicas, resources, rates, policies): each  *)
(* is checked by the handler (bad), or accepted by the run's managers      *)
(* (good), or not (refused).                                               *)
(***************************************************************************)
EXTENDS RunView

CONSTANT MaxEntries   \* entries of one update

ASSUME RunCallsConstants == MaxEntries \in Nat

VARIABLES
  call,     \* the call, before, during and after it
  applied   \* the updates the managers of the run have taken, by entry number

callVars == <<call, applied>>

Entries == UNION {[1..n -> {"good", "bad", "refused"}] : n \in 1..MaxEntries}
NoCall == [op |-> "", via |-> "http", pc |-> "idle", entries |-> <<>>, next |-> 1,
           gen |-> 0, saw |-> FALSE, answer |-> ""]

CallInit == call = NoCall /\ applied = <<>>

Answered(a) == [call EXCEPT !.pc = "done", !.answer = a]
Seen == [call EXCEPT !.saw = TRUE, !.gen = run.gen]

Calls(op, via, entries) ==
  /\ call.pc = "idle"
  /\ call' = [NoCall EXCEPT !.op = op, !.via = via, !.pc = "called", !.entries = entries]
  /\ UNCHANGED <<runVars, applied>>

\* A call whose answer a client waits for.
SomeCall ==
  \E via \in {"http", "grpc"} :
    \/ \E op \in {"create", "start", "stop", "renew", "configuration", "metrics"} :
         Calls(op, via, <<>>)
    \/ via = "http" /\ Calls("series", via, <<>>)
    \/ \E e \in Entries : Calls("update", via, e)
    \/ \E e \in {"good", "bad", "refused"} :
         (via = "http" \/ e # "bad") /\ Calls("rate", via, <<e>>)

-----------------------------------------------------------------------------

\* handleCreateRun, CreateRun.
Creates ==
  /\ call.op = "create" /\ call.pc = "called"
  /\ \/ Present /\ call' = Answered("conflict") /\ UNCHANGED runVars
     \/ Created /\ call' = Answered("ok")
  /\ UNCHANGED applied

\* Start: the run is gone or ended, over the limit of online runs, refused, or launched.
\* A second Start of a running run is left to module RunExecutor.
Starts ==
  /\ call.op = "start" /\ call.pc = "called"
  /\ \/ ~Present /\ call' = Answered("not_found") /\ UNCHANGED runVars
     \/ Ended /\ call' = Answered("conflict") /\ UNCHANGED runVars
     \/ run.status = "PENDING" /\ call' = Answered("too_many") /\ UNCHANGED runVars
     \/ StartRefused /\ call' = Answered("internal")
     \/ Started /\ call' = [Seen EXCEPT !.pc = "answer"]
  /\ UNCHANGED applied

\* Stop cancels the run's context.
StopsFirst ==
  /\ call.op = "stop" /\ call.pc = "called"
  /\ ctxDone' = (ctxDone \/ worker # "none")
  /\ call' = [call EXCEPT !.pc = "mark"]
  /\ UNCHANGED <<run, worker, control, stopping, counter, atEnd, applied>>

\* The run is marked; when it is gone SetStatus' error is not one of those the handlers know.
Stops ==
  /\ call.op = "stop" /\ call.pc = "mark"
  /\ EndsAs("STOPPED")
  /\ call' = IF Present THEN [Seen EXCEPT !.pc = "answer"] ELSE Answered("internal")
  /\ UNCHANGED <<worker, control, ctxDone, stopping, counter, applied>>

\* RenewOnlineLease: the lease's deadline is written after the record was read.
Renews ==
  /\ call.op = "renew" /\ call.pc = "called"
  /\ \/ ~Present /\ call' = Answered("not_found")
     \/ Present /\ run.status # "RUNNING" /\ call' = Answered("precondition")
     \/ run.status = "RUNNING" /\ call' = Answered("precondition")
     \/ run.status = "RUNNING" /\ call' = [Seen EXCEPT !.pc = "answer"]
  /\ UNCHANGED <<runVars, applied>>

\* The update handlers want a running run.
CheckedRun ==
  IF ~Present THEN Answered("not_found")
  ELSE IF run.status # "RUNNING" THEN Answered("precondition")
  ELSE [Seen EXCEPT !.pc = "entry"]

\* UpdateRunConfiguration.
GrpcChecks ==
  /\ call.op = "update" /\ call.via = "grpc" /\ call.pc = "called"
  /\ call' = CheckedRun
  /\ UNCHANGED <<runVars, applied>>

\* UpdateWorkloadRate; its rate has been checked before.
GrpcChecksRate ==
  /\ call.op = "rate" /\ call.via = "grpc" /\ call.pc = "called"
  /\ call' = CheckedRun
  /\ UNCHANGED <<runVars, applied>>

\* handleUpdateRunConfiguration.
HttpChecks ==
  /\ call.op = "update" /\ call.via = "http" /\ call.pc = "called"
  /\ call' = CheckedRun
  /\ UNCHANGED <<runVars, applied>>

\* handleUpdateWorkload.
HttpChecksRate ==
  /\ call.op = "rate" /\ call.via = "http" /\ call.pc = "called"
  /\ call' = CheckedRun
  /\ UNCHANGED <<runVars, applied>>

Entry == call.entries[call.next]
AtEntry == call.pc = "entry" /\ call.next <= Len(call.entries)

\* The executor's method looks the run's manager up.
LooksUp ==
  /\ AtEntry
  /\ call' = IF Entry = "bad" THEN Answered("invalid")
             ELSE IF Registered THEN [call EXCEPT !.pc = "apply"]
             ELSE Answered("not_found")
  /\ UNCHANGED <<runVars, applied>>

\* An entry that is refused is skipped.
AppliesRest ==
  /\ call.pc = "apply"
  /\ applied' = IF Entry = "good" THEN Append(applied, call.next) ELSE applied
  /\ call' = [call EXCEPT !.pc = "entry", !.next = @ + 1]
  /\ UNCHANGED runVars

\* The manager takes the entry or not, also when the run was cleaned up meanwhile.
Applies ==
  /\ call.pc = "apply"
  /\ IF Entry = "good"
     THEN /\ applied' = Append(applied, call.next)
          /\ call' = [call EXCEPT !.pc = "entry", !.next = @ + 1]
     ELSE call' = Answered("refused") /\ UNCHANGED applied
  /\ UNCHANGED runVars

AllApplied ==
  /\ call.pc = "entry" /\ call.next > Len(call.entries)
  /\ call' = [call EXCEPT !.pc = "answer"]
  /\ UNCHANGED <<runVars, applied>>

\* The last step of a call reads the record again for its answer.  HTTP's start and stop and
\* gRPC's update do so without asking whether it is there.
Rereads(missing) ==
  /\ call.pc = "answer"
  /\ call' = Answered(IF Present THEN "ok" ELSE missing)
  /\ UNCHANGED <<runVars, applied>>

HttpAnswersStart == call.op = "start" /\ call.via = "http" /\ Rereads("panic")
HttpAnswersStop == call.op = "stop" /\ call.via = "http" /\ Rereads("panic")
GrpcAnswersUpdate == call.op = "update" /\ call.via = "grpc" /\ Rereads("panic")
GrpcAnswersRate == call.op = "rate" /\ call.via = "grpc" /\ Rereads("internal")
AnswersRenew == call.op = "renew" /\ Rereads("not_found")

\* The others answer with what they have.
AnswersPlainly ==
  /\ \/ call.op \in {"start", "stop"} /\ call.via = "grpc"
     \/ call.op \in {"update", "rate"} /\ call.via = "http"
  /\ Rereads("ok")

Answers ==
  \/ HttpAnswersStart \/ HttpAnswersStop \/ GrpcAnswersUpdate \/ GrpcAnswersRate
  \/ AnswersRenew \/ AnswersPlainly

\* GetRunConfiguration, GetRunMetrics, and the time series of the collector: the record is
\* read, then what the executor or the collector still has.
Reads ==
  /\ call.op \in {"configuration", "metrics", "series"} /\ call.pc = "called"
  /\ call' = IF ~Present THEN Answered("not_found")
             ELSE IF call.op = "configuration" /\ run.status # "RUNNING" THEN Answered("precondition")
             ELSE IF call.op = "metrics"
             THEN Answered(IF run.metrics THEN "ok" ELSE "precondition")
             ELSE [Seen EXCEPT !.pc = "read"]
  /\ UNCHANGED <<runVars, applied>>

ReadsOn ==
  /\ call.pc = "read"
  /\ call' = Answered(IF call.op = "configuration"
                      THEN IF Registered THEN "ok" ELSE "internal"
                      ELSE IF run.collector THEN "ok" ELSE "precondition")
  /\ UNCHANGED <<runVars, applied>>

CallSteps ==
  \/ SomeCall \/ Creates \/ Starts \/ StopsFirst \/ Stops \/ Renews \/ GrpcChecks \/ GrpcChecksRate
  \/ HttpChecks \/ HttpChecksRate \/ LooksUp \/ Applies \/ AllApplied \/ Answers \/ Reads \/ ReadsOn

-----------------------------------------------------------------------------

\* The entries an update has applied are a prefix of those it carries: all of them when it
\* answers ok, and exactly the ones before the offending entry when it does not.
PatchAppliesPrefix ==
  call.op \in {"update", "rate"} =>
    /\ applied = [i \in 1..Len(applied) |-> i]
    /\ call.answer = "ok" => Len(applied) = Len(call.entries)
    /\ call.answer \in {"invalid", "refused"} =>
         Len(applied) < Len(call.entries) /\ call.entries[Len(applied) + 1] # "good"

\* A handler dereferences a missing record only when the run was there earlier in the call and
\* has been evicted since: a run that is gone at the start of the call gets an orderly error.
PanicOnlyAfterEviction ==
  call.answer = "panic" => call.saw

\* A stop that was answered ok has ended the run for good: no worker, controller or second
\* call makes it run again.
StopAnsweredMeansEnded ==
  call.op = "stop" /\ call.answer = "ok" => run.gen # call.gen \/ Ended \/ ~Present

\* What a call answers is what it did.
CallsAnswered == PatchAppliesPrefix /\ PanicOnlyAfterEviction /\ StopAnsweredMeansEnded
=============================================================================
