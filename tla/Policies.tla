------------------------------ MODULE Policies ------------------------------
(***************************************************************************)
(* The policies a run consults (internal/policy): the rate limiter and the *)
(* circuit breaker of one service endpoint, as handleRequestArrival and    *)
(* the handlers that finish requests use them; the back-off of retries;    *)
(* and the autoscaling rule.                                               *)
(*                                                                         *)
(* Times are relative: since the bucket was last refilled, since the       *)
(* circuit last changed, both cut off where they no longer matter, so the  *)
(* model needs no bound on time.                                           *)
(***************************************************************************)
EXTENDS Integers, FiniteSets, FiniteSetsExt

CONSTANTS Rate,              \* rateLimitPerSecond
          TicksPerSecond,
          FailureThreshold, SuccessThreshold,
          OpenTicks,         \* the breaker's timeout
          MaxInFlight,       \* bound: admitted requests whose result is outstanding
          Window,            \* length of the admission history
          Backoffs,          \* retry policies: [kind, base]
          MaxBackoffMs, MaxExponent, IntBits,
          MaxAttempts,       \* bound: retries
          Loads, TargetUtil, ScaleStep, MinReplicas, MaxReplicas

ASSUME PolicyConstants ==
  /\ Rate \in Nat \ {0} /\ TicksPerSecond \in Nat \ {0} /\ FailureThreshold \in Nat \ {0}
  /\ SuccessThreshold \in Nat \ {0} /\ OpenTicks \in Nat /\ MaxInFlight \in Nat /\ Window \in Nat
  /\ Loads \subseteq Nat /\ TargetUtil \in Nat /\ ScaleStep \in Nat \ {0}
  /\ MaxReplicas \in Nat /\ MinReplicas \in 1 .. MaxReplicas

VARIABLES bucket,    \* [tokens, since] or NoBucket
          circuit,   \* [state, fails, succs, since] or NoCircuit
          inflight,  \* requests admitted and not yet finished
          recent,    \* ghost: recent[w] counts the admissions since w - 1 ticks ago
          streak,    \* results since the circuit last changed: [fails, succs] in a row
          retry,     \* [policy, attempt, delay]
          fleet      \* [replicas, load]

vars == <<bucket, circuit, inflight, recent, streak, retry, fleet>>

NoBucket == [tokens |-> -1, since |-> 0]
NoCircuit == [state |-> "none", fails |-> 0, succs |-> 0, since |-> 0]
NewCircuit == [state |-> "closed", fails |-> 0, succs |-> 0, since |-> 0]
LongAgo == TicksPerSecond * (Rate + 1)

\* The time of the refill is not noted.
RefilledAgain(b) ==
  IF b = NoBucket THEN [tokens |-> Rate, since |-> 0]
  ELSE [b EXCEPT !.tokens = Min({@ + (b.since * Rate) \div TicksPerSecond, Rate})]

\* Refill of the token bucket: whole tokens only, and the clock restarts when any was added.
Refilled(b) ==
  LET add == (b.since * Rate) \div TicksPerSecond
  IN IF b = NoBucket THEN [tokens |-> Rate, since |-> 0]
     ELSE IF add > 0 THEN [tokens |-> Min({b.tokens + add, Rate}), since |-> 0]
     ELSE b

\* An open circuit that has waited long enough becomes half-open when it is next looked at.
Looked(c) ==
  IF c.state = "open" /\ c.since >= OpenTicks
  THEN [c EXCEPT !.state = "half-open", !.succs = 0, !.since = 0] ELSE c

Changed(c) == c.state # circuit.state
NewStreak(c, s) == IF Changed(c) THEN [fails |-> 0, succs |-> 0] ELSE s

\* handleRequestArrival asks the limiter, and only then the breaker.
AllowRequest ==
  LET b == Refilled(bucket)
      c == Looked(IF circuit = NoCircuit THEN NewCircuit ELSE circuit)
      admitted == c.state # "open"
  IN /\ inflight < MaxInFlight
     /\ bucket' = IF b.tokens > 0 THEN [b EXCEPT !.tokens = @ - 1] ELSE b
     /\ circuit' = IF b.tokens > 0 THEN c ELSE circuit
     /\ inflight' = IF b.tokens > 0 /\ admitted THEN inflight + 1 ELSE inflight
     /\ recent' = IF b.tokens > 0 THEN [w \in 1 .. Window |-> recent[w] + 1] ELSE recent
     /\ streak' = IF b.tokens > 0 THEN NewStreak(c, streak) ELSE streak
     /\ UNCHANGED <<retry, fleet>>

\* GetRemainingQuota and CheckAndGetState look, and what they find due they change.
Observe ==
  /\ bucket' = IF bucket = NoBucket THEN bucket ELSE Refilled(bucket)
  /\ circuit' = Looked(circuit)
  /\ streak' = NewStreak(Looked(circuit), streak)
  /\ UNCHANGED <<inflight, recent, retry, fleet>>

\* Old failures are remembered.
SucceededOnly(c) ==
  CASE c.state = "half-open" /\ c.succs + 1 >= SuccessThreshold ->
         [c EXCEPT !.state = "closed", !.succs = @ + 1, !.since = 0]
    [] c.state = "half-open" /\ c.succs + 1 < SuccessThreshold -> [c EXCEPT !.succs = @ + 1]
    [] OTHER -> c

\* RecordSuccess
Succeeded(c) ==
  CASE c.state = "half-open" /\ c.succs + 1 >= SuccessThreshold ->
         [c EXCEPT !.state = "closed", !.succs = @ + 1, !.fails = 0, !.since = 0]
    [] c.state = "half-open" /\ c.succs + 1 < SuccessThreshold -> [c EXCEPT !.succs = @ + 1]
    [] c.state = "closed" -> [c EXCEPT !.fails = 0]
    [] OTHER -> c

RecordSuccess ==
  /\ inflight > 0
  /\ inflight' = inflight - 1
  /\ circuit' = Succeeded(circuit)
  /\ streak' = NewStreak(circuit', [fails |-> 0, succs |-> Min({SuccessThreshold, streak.succs + 1})])
  /\ UNCHANGED <<bucket, recent, retry, fleet>>

\* RecordFailure.  The count of failures goes on while the circuit is not closed; it is only
\* compared with the threshold when it is.
Failed(c) ==
  LET f == [c EXCEPT !.fails = Min({FailureThreshold, @ + 1})]
  IN CASE c.state = "half-open" -> [f EXCEPT !.state = "open", !.succs = 0, !.since = 0]
       [] c.state = "closed" /\ c.fails + 1 >= FailureThreshold ->
            [f EXCEPT !.state = "open", !.since = 0]
       [] OTHER -> f

RecordFailure ==
  /\ inflight > 0
  /\ inflight' = inflight - 1
  /\ circuit' = Failed(circuit)
  /\ streak' = NewStreak(circuit', [succs |-> 0, fails |-> Min({FailureThreshold, streak.fails + 1})])
  /\ UNCHANGED <<bucket, recent, retry, fleet>>

\* A request that timed out is reported as failed, and once more when it finishes late.
TimesOut ==
  /\ inflight > 0
  /\ circuit' = Failed(circuit)
  /\ streak' = NewStreak(circuit', [succs |-> 0, fails |-> Min({FailureThreshold, streak.fails + 1})])
  /\ UNCHANGED <<bucket, inflight, recent, retry, fleet>>

Tick ==
  /\ bucket' = IF bucket = NoBucket THEN bucket ELSE [bucket EXCEPT !.since = Min({@ + 1, LongAgo})]
  /\ circuit' = IF circuit = NoCircuit THEN circuit ELSE [circuit EXCEPT !.since = Min({@ + 1, OpenTicks})]
  /\ recent' = [w \in 1 .. Window |-> IF w = 1 THEN 0 ELSE recent[w - 1]]
  /\ UNCHANGED <<inflight, streak, retry, fleet>>

----------------------------------------------------------------------------
(* Back-off and autoscaling *)

\* A product in an int of IntBits bits.
Wrapped(n) == LET m == n % 2^IntBits IN IF m >= 2^(IntBits - 1) THEN m - 2^IntBits ELSE m

Capped(n) == IF n > MaxBackoffMs \/ n < 0 THEN MaxBackoffMs ELSE n

GetBackoffDuration(p, attempt) ==
  CASE attempt <= 0 -> 0
    [] attempt > 0 /\ p.kind = "linear" -> Capped(Wrapped(p.base * attempt))
    [] attempt > 0 /\ p.kind = "constant" -> p.base
    [] attempt > 0 /\ p.kind = "exponential" ->
         IF attempt - 1 > MaxExponent THEN MaxBackoffMs ELSE Capped(Wrapped(p.base * 2^(attempt - 1)))

\* ShouldRetry, and the wait before the next attempt.
Retry ==
  /\ retry.attempt < MaxAttempts
  /\ retry' = [retry EXCEPT !.attempt = @ + 1, !.delay = GetBackoffDuration(retry.policy, retry.attempt + 1)]
  /\ UNCHANGED <<bucket, circuit, inflight, recent, streak, fleet>>

\* Utilisation in hundredths of a fleet under a load in hundredths of a replica.
Util(f) == Min({100, f.load \div f.replicas})
ShouldScaleUp(f) == f.replicas < MaxReplicas /\ Util(f) > TargetUtil
ShouldScaleDown(f) == f.replicas > MinReplicas /\ 10 * Util(f) < 8 * TargetUtil

GetTargetReplicas(f) ==
  CASE ShouldScaleUp(f) -> Max({MinReplicas, Min({MaxReplicas, f.replicas + ScaleStep})})
    [] ~ShouldScaleUp(f) /\ ShouldScaleDown(f) ->
         Max({MinReplicas, Min({MaxReplicas, f.replicas - ScaleStep})})
    [] OTHER -> f.replicas

Autoscale ==
  /\ fleet' = [fleet EXCEPT !.replicas = GetTargetReplicas(fleet)]
  /\ UNCHANGED <<bucket, circuit, inflight, recent, streak, retry>>

----------------------------------------------------------------------------
(* Admission, back-off and autoscaling are independent of each other: a behaviour exercises one. *)

NoRetry == [policy |-> [kind |-> "none", base |-> 0], attempt |-> 0, delay |-> 0]
NoFleet == [replicas |-> 0, load |-> 0]
Fleets == [replicas : MinReplicas .. MaxReplicas + 1, load : Loads]

Init ==
  /\ bucket = NoBucket /\ circuit = NoCircuit /\ inflight = 0
  /\ recent = [w \in 1 .. Window |-> 0]
  /\ streak = [fails |-> 0, succs |-> 0]
  /\ retry \in {NoRetry} \cup {[NoRetry EXCEPT !.policy = p] : p \in Backoffs}
  /\ fleet \in {NoFleet} \cup Fleets
  /\ retry = NoRetry \/ fleet = NoFleet

Admission == retry.policy.kind = "none" /\ fleet.replicas = 0

Next ==
  \/ Admission /\ (AllowRequest \/ Observe \/ RecordSuccess \/ RecordFailure \/ TimesOut \/ Tick)
  \/ retry.policy.kind # "none" /\ Retry
  \/ fleet.replicas > 0 /\ Autoscale

Spec == Init /\ [][Next]_vars

----------------------------------------------------------------------------
(* Properties *)

\* The bucket never holds more than the rate, and the counters of a circuit stay below the
\* thresholds at which they change its state.
TypeOK ==
  /\ bucket = NoBucket \/ (bucket.tokens \in 0 .. Rate /\ bucket.since \in 0 .. LongAgo)
  /\ circuit.state \in {"none", "closed", "open", "half-open"}
  /\ circuit.state = "closed" => circuit.fails < FailureThreshold
  /\ circuit.state = "half-open" => circuit.succs < SuccessThreshold
  /\ inflight \in 0 .. MaxInFlight /\ recent \in [1 .. Window -> Nat]

\* In any stretch of time the limiter lets through at most a full bucket plus what the rate
\* refills in it, rounded up: the fraction of a token that had accrued before the stretch began
\* counts in it, and no look at the bucket adds more (rate_limiting.go refills at every call).
RateBounded ==
  \A w \in 1 .. Window :
    recent[w] <= Rate + ((w - 1) * Rate + TicksPerSecond - 1) \div TicksPerSecond

\* The circuit opens from closed only after FailureThreshold failures since the last success and
\* since it closed; it closes only after SuccessThreshold successes, and no failure, since it
\* became half-open.  Results of requests admitted long before count like any other.
BreakerHonest ==
  [][/\ circuit.state = "closed" /\ circuit'.state = "open" => streak.fails + 1 >= FailureThreshold
     /\ circuit.state = "half-open" /\ circuit'.state = "closed" =>
          streak.succs + 1 >= SuccessThreshold /\ streak.fails = 0
     /\ circuit.state = "open" /\ circuit'.state # "open" =>
          circuit.since >= OpenTicks /\ circuit'.state = "half-open"]_vars

\* An open circuit does not stay open for ever: requests go on arriving, the limiter goes on
\* refilling, and the one that arrives after the timeout is let through as a trial.
BreakerTriesAgain == circuit.state = "open" ~> circuit.state = "half-open"

\* Successive waits of one retry sequence never shrink, also where the product of base and power
\* reaches the cap or the exponent its limit.
BackoffGrows == [][retry.attempt > 0 => retry'.delay >= retry.delay]_vars

\* The autoscaler moves the fleet only towards its target, and into its bounds.
ScalesTowardsTarget ==
  [][/\ fleet'.replicas > fleet.replicas => Util(fleet) > TargetUtil /\ fleet'.replicas <= MaxReplicas
     /\ fleet'.replicas < fleet.replicas => 10 * Util(fleet) < 8 * TargetUtil /\ fleet'.replicas >= MinReplicas]_vars

\* The limiter and the circuit stay within their bounds.
LimitsKept == TypeOK /\ RateBounded

\* Every policy decides on what it has seen: the circuit on results, the retry on its
\* attempts, the autoscaler on the load.
PoliciesHonest == BreakerHonest /\ BackoffGrows /\ ScalesTowardsTarget
=============================================================================
