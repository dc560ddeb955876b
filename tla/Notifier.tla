------------------------------ MODULE Notifier ------------------------------
(***************************************************************************)
(* The callback of a run that has ended: sendNotificationIfConfigured of   *)
(* executor.go and internal/simd/notifier.go.  The record is read again,   *)
(* the payload is built from it, and a goroutine posts it with retries     *)
(* while the run's record goes on changing.  The network may lose a        *)
(* request or its response; the receiver may refuse it.                    *)
(***************************************************************************)
EXTENDS RunView

CONSTANT MaxRetries   \* Notifier.maxRetries

VARIABLE note   \* the notification

\* got is what the receiver was given, by this notification.
NoNote == [pc |-> "none", held |-> NoRecord(0), payload |-> NoRecord(0), attempt |-> 0,
           got |-> {}]

NoteInit == note = NoNote

\* A status is terminal and its record, as SetStatus or Get returned it, is to be reported.
NotifyCalled ==
  /\ note.pc = "none" /\ Ended
  /\ note' = [note EXCEPT !.pc = "called", !.held = run]

\* The record is read again; the payload is built from it, or from the one held when it is
\* gone.  A callback URL may be refused.
Notify ==
  /\ note.pc = "called"
  /\ \/ note' = [note EXCEPT !.pc = "post", !.payload = IF Present THEN run ELSE note.held]
     \/ note' = [note EXCEPT !.pc = "refused"]

\* What is posted: the record as it is now.
PostedAnew == IF Present THEN run ELSE note.payload

\* What is posted: the payload that was marshalled before the first attempt.
Posted == note.payload

Failed(got) == [note EXCEPT !.got = got, !.attempt = @ + 1]

\* One attempt: lost on the way, refused by the receiver or answered with an error,
\* received with the response lost, or a success.
Attempts ==
  /\ note.pc = "post"
  /\ \/ note' = Failed(note.got)
     \/ note' = Failed(note.got \cup {Posted})
     \/ note' = [note EXCEPT !.pc = "sent", !.got = @ \cup {Posted}]

\* The loop over the attempts is over.
Exhausted == note.attempt > MaxRetries

GivesUp ==
  /\ note.pc = "post" /\ Exhausted
  /\ note' = [note EXCEPT !.pc = "gave_up"]

NoteSteps == NotifyCalled \/ Notify \/ (~Exhausted /\ Attempts) \/ GivesUp

-----------------------------------------------------------------------------

\* Whatever the receiver gets of one notification, repeated deliveries included, is one and
\* the same report, of a run that has ended and with the metrics of one that has completed;
\* the record may be overwritten, evicted or belong to a new run by then.
CallbackIsOneReport ==
  /\ Cardinality(note.got) <= 1
  /\ \A p \in note.got :
       p.gen = note.held.gen =>
         /\ p.status \in Terminal
         /\ p.status = "COMPLETED" => p.metrics
=============================================================================
