-------------------------------- MODULE MCApi --------------------------------
(***************************************************************************)
(* What the clients of the service observe, in parts that are explored one *)
(* at a time: a stream that follows the steps or the counter of a run, a   *)
(* call, a callback and a paged list.  The run under the first four is     *)
(* that of module RunView.                                                 *)
(***************************************************************************)
EXTENDS EventStream, RunCalls, Notifier, RunList

VARIABLE part

\* What of the run a part looks at: the other fields keep their first value.
Within ==
  /\ IF part = "updates"
     THEN run.gen <= 1 /\ (Present => run.realTime) /\ strm.kind = "sse"
     ELSE ~run.realTime /\ counter = [g \in Gens |-> <<>>]
  /\ part # "steps" => control # "acted"

\* The run goes on while somebody looks; a stream that was never opened sees no second run.
Watched ==
  /\ strm.pc # "done"
  /\ strm.pc = "none" /\ part \in {"steps", "updates"} => run'.gen <= 1
  /\ call.pc = "done" => call.op = "stop"
  /\ stopping' => stopping \/ Present
  /\ part = "steps" /\ run'.gen > 1 => ~stopping'

SmallRunSteps == (RunSteps \/ OthersCall) /\ Watched

apiVars == <<part, runVars, strm, callVars, note, listVars>>

ApiInit ==
  /\ part \in {"steps", "updates", "call", "callback", "list"}
  /\ RunInit /\ StreamInit /\ CallInit /\ NoteInit /\ ListInit

ApiNext ==
  /\ UNCHANGED part
  /\ \/ /\ part \in {"steps", "updates", "call", "callback"} /\ SmallRunSteps
        /\ UNCHANGED <<strm, callVars, note, listVars>>
     \/ /\ part \in {"steps", "updates"} /\ StreamSteps
        /\ UNCHANGED <<runVars, callVars, note, listVars>>
     \/ /\ part = "call" /\ CallSteps
        /\ UNCHANGED <<strm, note, listVars>>
     \/ /\ part = "callback" /\ NoteSteps
        /\ UNCHANGED <<runVars, strm, callVars, listVars>>
     \/ /\ part = "list" /\ ListNext
        /\ UNCHANGED <<runVars, strm, callVars, note>>
  /\ Within'

\* A stream is polled as long as it is open: its ticker fires again and again.
StreamPolled == StreamTicks /\ UNCHANGED <<part, runVars, callVars, note, listVars>>

ApiSpec == ApiInit /\ [][ApiNext]_apiVars /\ WF_apiVars(StreamPolled)
=============================================================================
