----------------------------- MODULE MCRequests -----------------------------
(* Small instances of module Requests for TLC.                             *)
EXTENDS Requests

Plain(to) == [to |-> to, mode |-> "sync", timeout |-> 0, retryable |-> TRUE, overhead |-> 0,
              forget |-> FALSE]
Timed(to) == [Plain(to) EXCEPT !.timeout = 2]
Once(to) == [Timed(to) EXCEPT !.retryable = FALSE]
Costly(to) == [Timed(to) EXCEPT !.overhead = 1]
Async(to) == [Timed(to) EXCEPT !.mode = "async"]
Publish(to) == [Plain(to) EXCEPT !.mode = "queue", !.overhead = 1]
Forget(to) == [Publish(to) EXCEPT !.forget = TRUE, !.overhead = 0]

\* Two calls side by side, a chain of three, asynchronous calls, a publish beside one, one
\* whose callee calls on, and calls with an overhead of the caller's.
SmallScenarios ==
  {[in |-> <<Timed("a"), Once("b")>>, a |-> <<>>, b |-> <<>>],
   [in |-> <<Timed("a")>>, a |-> <<Timed("b")>>, b |-> <<Plain("in")>>],
   [in |-> <<Async("a"), Plain("b")>>, a |-> <<Forget("b")>>, b |-> <<>>],
   [in |-> <<Publish("a"), Async("b")>>, a |-> <<>>, b |-> <<>>],
   [in |-> <<Async("b")>>, a |-> <<>>, b |-> <<Timed("a")>>],
   [in |-> <<Costly("a"), Plain("b")>>, a |-> <<>>, b |-> <<>>]}

\* A call the caller waits for beside a publish.
MixedScenario == {[in |-> <<Publish("a"), Plain("b")>>, a |-> <<>>, b |-> <<>>]}
=============================================================================
