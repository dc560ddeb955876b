--------------------------- MODULE PoliciesProofs ---------------------------
(***************************************************************************)
(* Proofs about the policies, for any rate, thresholds, timeout, number of *)
(* requests in flight and length of the history.                           *)
(***************************************************************************)
EXTENDS Policies, TLAPS

\* The smaller of two numbers.
LEMMA MinOfTwo ==
  ASSUME NEW a \in Int, NEW b \in Int
  PROVE  Min({a, b}) = IF a <= b THEN a ELSE b
  <1> DEFINE m == IF a <= b THEN a ELSE b
  <1>1. m \in {a, b} /\ \A y \in {a, b} : m <= y
    OBVIOUS
  <1>2. \A x \in {a, b} : (\A y \in {a, b} : x <= y) => x = m
    OBVIOUS
  <1> QED BY <1>1, <1>2 DEF Min

\* And the larger.
LEMMA MaxOfTwo ==
  ASSUME NEW a \in Int, NEW b \in Int
  PROVE  Max({a, b}) = IF a >= b THEN a ELSE b
  <1> DEFINE m == IF a >= b THEN a ELSE b
  <1>1. m \in {a, b} /\ \A y \in {a, b} : m >= y
    OBVIOUS
  <1>2. \A x \in {a, b} : (\A y \in {a, b} : x >= y) => x = m
    OBVIOUS
  <1> QED BY <1>1, <1>2 DEF Max

-----------------------------------------------------------------------------
(* The rate limiter.                                                       *)

T == TicksPerSecond

\* What a window of the history has seen, and what is left in the bucket and still to be
\* refilled, was in a full bucket or has accrued since; a part of a token may be older.
Paid(w) ==
  recent[w] = 0
  \/ T * (recent[w] + bucket.tokens) + bucket.since * Rate <= T * Rate + (w - 1) * Rate + (T - 1)

Buckets == [tokens : Nat, since : Nat]

BucketOK ==
  /\ recent \in [1 .. Window -> Nat]
  /\ \/ bucket = NoBucket /\ \A w \in 1 .. Window : recent[w] = 0
     \/ bucket \in Buckets /\ bucket.tokens <= Rate /\ bucket.since <= LongAgo
  /\ \A w \in 1 .. Window : Paid(w)

\* Whole tokens of a product, and its rest.
LEMMA Division ==
  ASSUME NEW n \in Nat, NEW d \in Nat \ {0}
  PROVE  /\ n \div d \in Nat /\ d * (n \div d) <= n /\ n < d * (n \div d) + d
         /\ (n \div d = 0 => n < d)
  OBVIOUS

\* A quotient is at least what its divisor fits in.
LEMMA Fits ==
  ASSUME NEW n \in Nat, NEW d \in Nat \ {0}, NEW a \in Nat, d * a <= n
  PROVE  a <= n \div d
  <1>1. n \div d \in Nat /\ n < d * (n \div d) + d
    BY Division
  <1> DEFINE q == n \div d
  <1>2. d * a < d * (q + 1)
    BY <1>1
  <1> HIDE DEF q
  <1>3. q \in Nat
    BY <1>1 DEF q
  <1>4. ASSUME a >= q + 1 PROVE FALSE
    <2>1. PICK e \in Nat : a = q + 1 + e
      <3>1. a - (q + 1) \in Nat /\ a = q + 1 + (a - (q + 1))
        BY <1>3, <1>4
      <3> QED BY <3>1
    <2>2. d * a = d * (q + 1) + d * e /\ d * e >= 0
      BY <1>3, <2>1
    <2> QED BY <1>2, <1>3, <2>2
  <1> QED BY <1>3, <1>4 DEF q

\* Refilling.
LEMMA RefilledSafe ==
  ASSUME BucketOK
  PROVE  LET b == Refilled(bucket) IN
         /\ b \in Buckets /\ b.tokens <= Rate /\ b.since <= LongAgo
         /\ b.since * Rate < T
         /\ \A w \in 1 .. Window : recent[w] # 0 =>
              T * (recent[w] + b.tokens) + b.since * Rate <= T * Rate + (w - 1) * Rate + (T - 1)
  <1> DEFINE b == Refilled(bucket)
             add == (bucket.since * Rate) \div TicksPerSecond
  <1>0. Rate \in Nat /\ Rate > 0 /\ T \in Nat /\ T > 0 /\ LongAgo \in Nat
    BY PolicyConstants DEF T, LongAgo
  <1>1. CASE bucket = NoBucket
    <2>1. b = [tokens |-> Rate, since |-> 0]
      BY <1>1 DEF Refilled
    <2>2. \A w \in 1 .. Window : recent[w] = 0
      BY <1>1 DEF BucketOK, NoBucket, Buckets
    <2> QED BY <1>0, <2>1, <2>2 DEF Buckets
  <1>2. CASE bucket # NoBucket
    <2>1. /\ bucket \in Buckets /\ bucket.tokens \in Nat /\ bucket.since \in Nat
          /\ bucket.tokens <= Rate /\ bucket.since <= LongAgo
      BY <1>2 DEF BucketOK, Buckets
    <2>2. bucket.since * Rate \in Nat
      BY <1>0, <2>1
    <2>3. /\ add \in Nat /\ T * add <= bucket.since * Rate
          /\ (add = 0 => bucket.since * Rate < T)
      BY <1>0, <2>2, Division DEF T
    <2> HIDE DEF add
    <2>4. CASE add > 0
      <3>1. b = [tokens |-> Min({bucket.tokens + add, Rate}), since |-> 0]
        BY <1>2, <2>4 DEF Refilled, add
      <3> DEFINE k == Min({bucket.tokens + add, Rate})
      <3>2. k \in Nat /\ k <= Rate /\ k <= bucket.tokens + add
        BY <1>0, <2>1, <2>3, MinOfTwo
      <3> HIDE DEF k
      <3>3. b \in Buckets /\ b.tokens = k /\ b.since = 0
        BY <3>1, <3>2 DEF Buckets, k
      <3>4. ASSUME NEW w \in 1 .. Window, recent[w] # 0
            PROVE  T * (recent[w] + k) <= T * Rate + (w - 1) * Rate + (T - 1)
        <4>1. /\ recent[w] \in Nat
              /\ T * (recent[w] + bucket.tokens) + bucket.since * Rate
                   <= T * Rate + (w - 1) * Rate + (T - 1)
          BY <3>4 DEF BucketOK, Paid
        <4>2. T * (recent[w] + k) <= T * (recent[w] + bucket.tokens + add)
          <5>1. PICK e \in Nat : bucket.tokens + add = k + e
            <6>1. bucket.tokens + add - k \in Nat /\ bucket.tokens + add = k + (bucket.tokens + add - k)
              BY <2>1, <2>3, <3>2
            <6> QED BY <6>1
          <5>2. T * (recent[w] + k + e) = T * (recent[w] + k) + T * e /\ T * e >= 0
            BY <1>0, <3>2, <4>1
          <5>3. recent[w] + bucket.tokens + add = recent[w] + k + e
            BY <2>1, <2>3, <3>2, <4>1, <5>1
          <5> QED BY <1>0, <3>2, <4>1, <5>2, <5>3
        <4>3. T * (recent[w] + bucket.tokens + add) = T * (recent[w] + bucket.tokens) + T * add
          BY <1>0, <2>1, <2>3, <4>1
        <4>4. /\ T * (recent[w] + k) \in Int /\ T * (recent[w] + bucket.tokens) \in Int
              /\ T * add \in Int /\ bucket.since * Rate \in Int
              /\ T * Rate + (w - 1) * Rate + (T - 1) \in Int
          BY <1>0, <2>1, <2>2, <2>3, <3>2, <4>1
        <4>5. \A x, y, z, u, v \in Int : x <= y + z /\ z <= u /\ y + u <= v => x <= v
          OBVIOUS
        <4>6. T * (recent[w] + k) <= T * (recent[w] + bucket.tokens) + T * add
          BY <4>2, <4>3, Zenon
        <4> QED BY <2>3, <4>1, <4>4, <4>5, <4>6, Zenon
      <3>5. 0 * Rate = 0 /\ 0 < T /\ 0 <= LongAgo
        BY <1>0
      <3>6. ASSUME NEW w \in 1 .. Window, recent[w] # 0
            PROVE  T * (recent[w] + k) + 0 <= T * Rate + (w - 1) * Rate + (T - 1)
        <4>1. T * (recent[w] + k) \in Int
          BY <1>0, <3>2 DEF BucketOK
        <4>2. \A x \in Int : x + 0 = x
          OBVIOUS
        <4>3. T * (recent[w] + k) + 0 = T * (recent[w] + k)
          BY <4>1, <4>2, Zenon
        <4> QED BY <3>4, <3>6, <4>3, Zenon
      <3> QED BY <3>2, <3>3, <3>5, <3>6, Zenon
    <2>5. CASE add = 0
      <3>1. b = bucket
        BY <1>2, <2>5 DEF Refilled, add
      <3> QED BY <2>1, <2>3, <2>5, <3>1 DEF BucketOK, Paid
    <2> QED BY <2>3, <2>4, <2>5
  <1> QED BY <1>1, <1>2

\* The limiter's part of one step.
LEMMA BucketStep ==
  ASSUME BucketOK, [Next]_vars
  PROVE  BucketOK'
  <1>0. Rate \in Nat /\ Rate > 0 /\ T \in Nat /\ T > 0 /\ LongAgo \in Nat /\ Window \in Nat
    BY PolicyConstants DEF T, LongAgo
  <1>1. CASE UNCHANGED <<bucket, recent>>
    BY <1>1 DEF BucketOK, Paid
  <1>2. CASE AllowRequest
    <2> DEFINE b == Refilled(bucket)
    <2>1. /\ b \in Buckets /\ b.tokens <= Rate /\ b.since <= LongAgo /\ b.since * Rate < T
          /\ \A w \in 1 .. Window : recent[w] # 0 =>
               T * (recent[w] + b.tokens) + b.since * Rate <= T * Rate + (w - 1) * Rate + (T - 1)
      BY RefilledSafe
    <2>2. /\ bucket' = IF b.tokens > 0 THEN [b EXCEPT !.tokens = @ - 1] ELSE b
          /\ recent' = IF b.tokens > 0 THEN [w \in 1 .. Window |-> recent[w] + 1] ELSE recent
      BY <1>2 DEF AllowRequest
    <2> HIDE DEF b
    <2>3. CASE ~(b.tokens > 0)
      BY <2>1, <2>2, <2>3 DEF BucketOK, Paid
    <2>4. CASE b.tokens > 0
      <3>1. /\ b.tokens \in Nat /\ b.since \in Nat /\ b.tokens - 1 \in Nat
            /\ bucket' \in Buckets /\ bucket'.tokens = b.tokens - 1 /\ bucket'.since = b.since
        BY <2>1, <2>2, <2>4 DEF Buckets
      <3>2. recent' \in [1 .. Window -> Nat] /\ \A w \in 1 .. Window : recent'[w] = recent[w] + 1
        BY <2>2, <2>4 DEF BucketOK
      <3>3. ASSUME NEW w \in 1 .. Window PROVE Paid(w)'
        <4>1. recent[w] \in Nat /\ recent'[w] + bucket'.tokens = recent[w] + b.tokens
          BY <3>1, <3>2 DEF BucketOK
        <4>2. CASE recent[w] # 0
          BY <2>1, <3>1, <4>1, <4>2, Zenon DEF Paid
        <4>3. CASE recent[w] = 0
          <5>1. recent'[w] + bucket'.tokens = b.tokens
            BY <3>1, <4>1, <4>3
          <5>2. T * b.tokens <= T * Rate
            <6>1. PICK e \in Nat : Rate = b.tokens + e
              <7>1. Rate - b.tokens \in Nat /\ Rate = b.tokens + (Rate - b.tokens)
                BY <1>0, <2>1, <3>1
              <7> QED BY <7>1
            <6>2. T * (b.tokens + e) = T * b.tokens + T * e /\ T * e >= 0
              BY <1>0, <3>1
            <6> QED BY <1>0, <3>1, <6>1, <6>2
          <5>3. /\ T * b.tokens \in Int /\ T * Rate \in Int /\ b.since * Rate \in Int
                /\ (w - 1) * Rate \in Nat
            BY <1>0, <3>1
          <5>4. \A x, y, z, v \in Int : \A u \in Nat :
                  x <= y /\ z < v => x + z <= y + u + (v - 1)
            OBVIOUS
          <5>5. T * b.tokens + b.since * Rate <= T * Rate + (w - 1) * Rate + (T - 1)
            <6>1. T \in Int
              BY <1>0
            <6> QED BY <2>1, <5>2, <5>3, <5>4, <6>1, Zenon
          <5> QED BY <3>1, <5>1, <5>5, Zenon DEF Paid
        <4> QED BY <4>2, <4>3
      <3>4. bucket'.tokens <= Rate /\ bucket'.since <= LongAgo
        BY <1>0, <2>1, <3>1
      <3> QED BY <3>1, <3>2, <3>3, <3>4 DEF BucketOK
    <2> QED BY <2>3, <2>4
  <1>3. CASE Observe
    <2>1. CASE bucket = NoBucket
      BY <1>1, <1>3, <2>1 DEF Observe
    <2>2. CASE bucket # NoBucket
      <3>1. bucket' = Refilled(bucket) /\ recent' = recent
        BY <1>3, <2>2 DEF Observe
      <3> QED BY <3>1, RefilledSafe DEF BucketOK, Paid
    <2> QED BY <2>1, <2>2
  <1>4. CASE Tick
    <2>1. recent' = [w \in 1 .. Window |-> IF w = 1 THEN 0 ELSE recent[w - 1]]
      BY <1>4 DEF Tick
    <2>2. recent' \in [1 .. Window -> Nat]
      BY <1>0, <2>1 DEF BucketOK
    <2>3. CASE bucket = NoBucket
      <3>1. bucket' = bucket /\ \A w \in 1 .. Window : recent[w] = 0
        BY <1>4, <2>3 DEF Tick, BucketOK, Buckets, NoBucket
      <3>2. \A w \in 1 .. Window : recent'[w] = 0
        BY <1>0, <2>1, <3>1
      <3> QED BY <2>2, <2>3, <3>1, <3>2 DEF BucketOK, Paid
    <2>4. CASE bucket # NoBucket
      <3>1. /\ bucket \in Buckets /\ bucket.tokens \in Nat /\ bucket.since \in Nat
            /\ bucket.tokens <= Rate /\ bucket.since <= LongAgo
        BY <2>4 DEF BucketOK, Buckets
      <3> DEFINE s == Min({bucket.since + 1, LongAgo})
      <3>2. s \in Nat /\ s <= LongAgo /\ s <= bucket.since + 1
        BY <1>0, <3>1, MinOfTwo
      <3>3. bucket' = [bucket EXCEPT !.since = s]
        BY <1>4, <2>4 DEF Tick
      <3> HIDE DEF s
      <3>4. bucket' \in Buckets /\ bucket'.tokens = bucket.tokens /\ bucket'.since = s
        BY <3>1, <3>2, <3>3 DEF Buckets
      <3>5. s * Rate <= bucket.since * Rate + Rate
        <4>1. PICK e \in Nat : bucket.since + 1 = s + e
          <5>1. bucket.since + 1 - s \in Nat /\ bucket.since + 1 = s + (bucket.since + 1 - s)
            BY <3>1, <3>2
          <5> QED BY <5>1
        <4>2. (s + e) * Rate = s * Rate + e * Rate /\ e * Rate >= 0
          BY <1>0, <3>2
        <4>3. (bucket.since + 1) * Rate = bucket.since * Rate + Rate
          BY <1>0, <3>1
        <4> QED BY <1>0, <3>1, <3>2, <4>1, <4>2, <4>3
      <3>6. ASSUME NEW w \in 1 .. Window, recent'[w] # 0 PROVE Paid(w)'
        <4>1. w # 1 /\ recent'[w] = recent[w - 1] /\ w - 1 \in 1 .. Window
          BY <1>0, <2>1, <3>6
        <4>2. T * (recent'[w] + bucket.tokens) + bucket.since * Rate
                <= T * Rate + ((w - 1) - 1) * Rate + (T - 1)
          BY <3>6, <4>1 DEF BucketOK, Paid
        <4>3. (w - 1) * Rate = ((w - 1) - 1) * Rate + Rate
          BY <1>0
        <4>4. /\ T * (recent'[w] + bucket.tokens) \in Int /\ bucket.since * Rate \in Int
              /\ T * Rate \in Int /\ ((w - 1) - 1) * Rate \in Int /\ T - 1 \in Int
              /\ s * Rate \in Int /\ Rate \in Int
          <5>1. /\ T \in Int /\ Rate \in Int /\ s \in Int /\ bucket.since \in Int /\ T - 1 \in Int
                /\ (w - 1) - 1 \in Int /\ recent'[w] + bucket.tokens \in Int
            BY <1>0, <2>2, <3>1, <3>2
          <5>2. \A x, y \in Int : x * y \in Int
            OBVIOUS
          <5> QED BY <5>1, <5>2, Zenon
        <4>5. \A x, y, z, u, v, p, q \in Int :
                x + y <= z + u + v /\ p <= y + q => x + p <= z + (u + q) + v
          OBVIOUS
        <4>6. T * (recent'[w] + bucket.tokens) + s * Rate
                <= T * Rate + (((w - 1) - 1) * Rate + Rate) + (T - 1)
          BY <3>5, <4>2, <4>4, <4>5, Zenon
        <4> QED BY <3>4, <4>3, <4>6, Zenon DEF Paid
      <3> QED BY <2>2, <3>1, <3>2, <3>4, <3>6 DEF BucketOK, Paid
    <2> QED BY <2>3, <2>4
  <1> QED BY <1>1, <1>2, <1>3, <1>4
          DEF Next, vars, RecordSuccess, RecordFailure, TimesOut, Retry, Autoscale

\* What was let through in a window is what was paid for.
LEMMA WindowBounded ==
  ASSUME BucketOK
  PROVE  RateBounded
  <1>0. Rate \in Nat /\ Rate > 0 /\ T \in Nat \ {0} /\ Window \in Nat
    BY PolicyConstants DEF T
  <1> SUFFICES ASSUME NEW w \in 1 .. Window
               PROVE  recent[w] <= Rate + ((w - 1) * Rate + T - 1) \div T
    BY DEF RateBounded, T
  <1> DEFINE n == (w - 1) * Rate + T - 1
  <1>1. n \in Nat /\ recent[w] \in Nat
    <2>1. (w - 1) * Rate \in Nat
      BY <1>0
    <2> QED BY <1>0, <2>1 DEF BucketOK
  <1>2. n \div T \in Nat
    BY <1>0, <1>1, Division
  <1>3. CASE recent[w] <= Rate
    BY <1>0, <1>1, <1>2, <1>3
  <1>4. CASE recent[w] > Rate
    <2>1. recent[w] # 0 /\ bucket \in Buckets
      BY <1>0, <1>4 DEF BucketOK
    <2>2. bucket.tokens \in Nat /\ bucket.since \in Nat
      BY <2>1 DEF Buckets
    <2>3. T * (recent[w] + bucket.tokens) + bucket.since * Rate <= T * Rate + (w - 1) * Rate + (T - 1)
      BY <2>1 DEF BucketOK, Paid
    <2>4. PICK e \in Nat : recent[w] = Rate + e
      <3>1. recent[w] - Rate \in Nat /\ recent[w] = Rate + (recent[w] - Rate)
        BY <1>0, <1>1, <1>4
      <3> QED BY <3>1
    <2>5. T * (recent[w] + bucket.tokens) = T * Rate + T * e + T * bucket.tokens
      BY <1>0, <2>2, <2>4
    <2>6. T * bucket.tokens >= 0 /\ bucket.since * Rate >= 0
      BY <1>0, <2>2
    <2>7. T * e <= n
      <3>1. /\ T * Rate \in Int /\ T * e \in Int /\ T * bucket.tokens \in Int
            /\ bucket.since * Rate \in Int /\ (w - 1) * Rate \in Int /\ T \in Int
        BY <1>0, <2>2
      <3>2. \A x, y, z, u, v, t \in Int :
              z >= 0 /\ u >= 0 /\ (x + y + z) + u <= x + v + (t - 1) => y <= v + t - 1
        OBVIOUS
      <3> QED BY <2>3, <2>5, <2>6, <3>1, <3>2, Zenon
    <2>8. e <= n \div T
      BY <1>0, <1>1, <2>7, Fits
    <2> QED BY <1>0, <1>1, <1>2, <2>4, <2>8
  <1> QED BY <1>0, <1>1, <1>3, <1>4

-----------------------------------------------------------------------------
(* The circuit breaker.                                                    *)

Circuits == [state : {"none", "closed", "open", "half-open"}, fails : Nat, succs : Nat, since : Nat]
Streaks == [fails : Nat, succs : Nat]

\* The counters the breaker keeps count no more than the results in a row that it has seen
\* since it last changed; a half-open circuit has seen no failure.
CircuitOK ==
  /\ circuit \in Circuits /\ streak \in Streaks
  /\ circuit.state = "none" => circuit = NoCircuit
  /\ circuit.state = "closed" => circuit.fails < FailureThreshold /\ circuit.fails <= streak.fails
  /\ circuit.state = "half-open" =>
       circuit.succs < SuccessThreshold /\ circuit.succs <= streak.succs /\ streak.fails = 0

\* One change of the circuit: what a change of its state takes.
BreakerMoves ==
  /\ circuit.state = "closed" /\ circuit'.state = "open" => streak.fails + 1 >= FailureThreshold
  /\ circuit.state = "half-open" /\ circuit'.state = "closed" =>
       streak.succs + 1 >= SuccessThreshold /\ streak.fails = 0
  /\ circuit.state = "open" /\ circuit'.state # "open" =>
       circuit.since >= OpenTicks /\ circuit'.state = "half-open"

\* The next request or look: an open circuit becomes half-open once its timeout has passed.
LEMMA LookSafe ==
  ASSUME CircuitOK, NEW c, c = circuit \/ (circuit = NoCircuit /\ c = NewCircuit),
         circuit' = Looked(c), streak' = NewStreak(circuit', streak)
  PROVE  CircuitOK' /\ BreakerMoves
  <1>0. FailureThreshold \in Nat \ {0} /\ SuccessThreshold \in Nat \ {0} /\ OpenTicks \in Nat
    BY PolicyConstants
  <1>1. CASE c = circuit /\ circuit.state = "open" /\ circuit.since >= OpenTicks
    <2>1. /\ circuit' \in Circuits /\ circuit'.state = "half-open" /\ circuit'.succs = 0
      BY <1>1 DEF Looked, CircuitOK, Circuits
    <2>2. streak' = [fails |-> 0, succs |-> 0]
      BY <1>1, <2>1 DEF NewStreak, Changed
    <2> QED BY <1>0, <1>1, <2>1, <2>2 DEF CircuitOK, BreakerMoves, Streaks
  <1>2. CASE c = circuit /\ ~(circuit.state = "open" /\ circuit.since >= OpenTicks)
    <2>1. circuit' = circuit /\ streak' = streak
      BY <1>2 DEF Looked, NewStreak, Changed
    <2> QED BY <2>1 DEF CircuitOK, BreakerMoves
  <1>3. CASE circuit = NoCircuit /\ c = NewCircuit
    <2>1. circuit' = NewCircuit /\ circuit.state = "none"
      BY <1>3 DEF Looked, NewCircuit, NoCircuit
    <2>2. streak' = [fails |-> 0, succs |-> 0]
      BY <2>1 DEF NewStreak, Changed, NewCircuit
    <2> QED BY <1>0, <2>1, <2>2 DEF CircuitOK, BreakerMoves, Streaks, Circuits, NewCircuit
  <1> QED BY <1>1, <1>2, <1>3

\* A result in a row, counted up to a threshold.
LEMMA CountedTo ==
  ASSUME NEW n \in Nat \ {0}, NEW a \in Nat, NEW b \in Nat, a < n, a <= b
  PROVE  /\ Min({n, b + 1}) \in Nat
         /\ a + 1 < n => a + 1 <= Min({n, b + 1})
         /\ Min({n, a + 1}) = a + 1
         /\ a + 1 >= n => b + 1 >= n
  BY MinOfTwo

\* An assignment to a field of a circuit.
LEMMA Assigned ==
  ASSUME NEW c \in Circuits, NEW n \in Nat
  PROVE  /\ [c EXCEPT !.fails = n] \in Circuits
         /\ [c EXCEPT !.fails = n].state = c.state /\ [c EXCEPT !.fails = n].fails = n
         /\ [c EXCEPT !.succs = n] \in Circuits
         /\ [c EXCEPT !.succs = n].state = c.state /\ [c EXCEPT !.succs = n].fails = c.fails
         /\ [c EXCEPT !.since = n] \in Circuits
         /\ [c EXCEPT !.since = n].state = c.state /\ [c EXCEPT !.since = n].fails = c.fails
  BY DEF Circuits

\* And to its state.
LEMMA StateAssigned ==
  ASSUME NEW c \in Circuits, NEW s \in {"closed", "open"}
  PROVE  [c EXCEPT !.state = s] \in Circuits /\ [c EXCEPT !.state = s].state = s
  BY DEF Circuits

\* A success.
LEMMA SuccessSafe ==
  ASSUME CircuitOK, circuit' = Succeeded(circuit),
         streak' = NewStreak(circuit', [fails |-> 0, succs |-> Min({SuccessThreshold, streak.succs + 1})])
  PROVE  CircuitOK' /\ BreakerMoves
  <1>0. /\ FailureThreshold \in Nat \ {0} /\ SuccessThreshold \in Nat \ {0} /\ OpenTicks \in Nat
        /\ circuit.succs \in Nat /\ circuit.fails \in Nat /\ streak.succs \in Nat
        /\ circuit.since \in Nat /\ circuit.succs + 1 \in Nat
    BY PolicyConstants DEF CircuitOK, Circuits, Streaks
  <1> DEFINE m == Min({SuccessThreshold, streak.succs + 1})
  <1>1. m \in Nat
    BY <1>0, MinOfTwo
  <1>2. CASE circuit.state = "half-open" /\ circuit.succs + 1 >= SuccessThreshold
    <2>1. circuit' = [circuit EXCEPT !.state = "closed", !.succs = @ + 1, !.fails = 0, !.since = 0]
      BY <1>0, <1>2 DEF Succeeded
    <2>2. circuit' \in Circuits /\ circuit'.state = "closed" /\ circuit'.fails = 0
      <3> DEFINE k == circuit.succs + 1
                 a == [circuit EXCEPT !.state = "closed"]
                 b == [a EXCEPT !.succs = k]
                 c == [b EXCEPT !.fails = 0]
                 d == [c EXCEPT !.since = 0]
      <3>1. a \in Circuits /\ a.state = "closed"
        BY StateAssigned DEF CircuitOK
      <3>2. b \in Circuits /\ b.state = "closed"
        <4>1. k \in Nat
          BY <1>0
        <4> HIDE DEF a, k
        <4> QED BY <3>1, <4>1, Assigned
      <3>3. c \in Circuits /\ c.state = "closed" /\ c.fails = 0
        <4> HIDE DEF b
        <4> QED BY <3>2, Assigned
      <3>4. d \in Circuits /\ d.state = "closed" /\ d.fails = 0
        <4> HIDE DEF c
        <4>0. 0 \in Nat /\ c \in Circuits
          BY <3>3
        <4>1. d \in Circuits /\ d.state = c.state /\ d.fails = c.fails
          BY ONLY <4>0, Assigned, Zenon
        <4> QED BY <3>3, <4>1, Zenon
      <3> QED BY <2>1, <3>4, Zenon
    <2>3. streak' = [fails |-> 0, succs |-> 0]
      BY <1>2, <2>2 DEF NewStreak, Changed
    <2>4. streak.succs + 1 >= SuccessThreshold /\ streak.fails = 0
      BY <1>0, <1>2, CountedTo DEF CircuitOK
    <2> QED BY <1>0, <1>2, <2>2, <2>3, <2>4 DEF CircuitOK, BreakerMoves, Streaks
  <1>3. CASE circuit.state = "half-open" /\ circuit.succs + 1 < SuccessThreshold
    <2>1. circuit' = [circuit EXCEPT !.succs = @ + 1]
      BY <1>3 DEF Succeeded
    <2>2. circuit' \in Circuits /\ circuit'.state = "half-open" /\ circuit'.succs = circuit.succs + 1
      BY <1>0, <1>3, <2>1 DEF CircuitOK, Circuits
    <2>3. streak' = [fails |-> 0, succs |-> m]
      BY <1>3, <2>2 DEF NewStreak, Changed
    <2>4. circuit.succs + 1 <= m
      BY <1>0, <1>3, CountedTo DEF CircuitOK
    <2> HIDE DEF m
    <2> QED BY <1>0, <1>1, <1>3, <2>2, <2>3, <2>4 DEF CircuitOK, BreakerMoves, Streaks
  <1>4. CASE circuit.state = "closed"
    <2>1. circuit' = [circuit EXCEPT !.fails = 0]
      BY <1>4 DEF Succeeded
    <2>2. circuit' \in Circuits /\ circuit'.state = "closed" /\ circuit'.fails = 0
      BY <1>0, <1>4, <2>1 DEF CircuitOK, Circuits
    <2>3. streak' = [fails |-> 0, succs |-> m]
      BY <1>4, <2>2 DEF NewStreak, Changed
    <2> HIDE DEF m
    <2> QED BY <1>0, <1>1, <1>4, <2>2, <2>3 DEF CircuitOK, BreakerMoves, Streaks
  <1>5. CASE circuit.state \in {"none", "open"}
    <2>1. circuit' = circuit
      BY <1>5 DEF Succeeded
    <2>2. streak' = [fails |-> 0, succs |-> m]
      BY <2>1 DEF NewStreak, Changed
    <2> HIDE DEF m
    <2> QED BY <1>1, <1>5, <2>1, <2>2 DEF CircuitOK, BreakerMoves, Streaks
  <1> QED BY <1>0, <1>2, <1>3, <1>4, <1>5 DEF CircuitOK, Circuits

\* A failure.
LEMMA FailureSafe ==
  ASSUME CircuitOK, circuit.state # "none", circuit' = Failed(circuit),
         streak' = NewStreak(circuit', [succs |-> 0, fails |-> Min({FailureThreshold, streak.fails + 1})])
  PROVE  CircuitOK' /\ BreakerMoves
  <1>0. /\ FailureThreshold \in Nat \ {0} /\ SuccessThreshold \in Nat \ {0} /\ OpenTicks \in Nat
        /\ circuit.succs \in Nat /\ circuit.fails \in Nat /\ streak.fails \in Nat
        /\ circuit.since \in Nat
    BY PolicyConstants DEF CircuitOK, Circuits, Streaks
  <1> DEFINE m == Min({FailureThreshold, streak.fails + 1})
             n == Min({FailureThreshold, circuit.fails + 1})
             f == [circuit EXCEPT !.fails = n]
  <1>1. m \in Nat /\ n \in Nat
    BY <1>0, MinOfTwo
  <1>2. CASE circuit.state = "half-open"
    <2>1. circuit' = [f EXCEPT !.state = "open", !.succs = 0, !.since = 0]
      BY <1>2 DEF Failed
    <2> HIDE DEF m, n
    <2>2. circuit' \in Circuits /\ circuit'.state = "open"
      <3> DEFINE a == [f EXCEPT !.state = "open"]
                 b == [a EXCEPT !.succs = 0]
                 c == [b EXCEPT !.since = 0]
      <3>1. f \in Circuits
        BY <1>1, Assigned DEF CircuitOK
      <3>2. a \in Circuits /\ a.state = "open"
        <4> HIDE DEF f
        <4> QED BY <3>1, StateAssigned
      <3>3. b \in Circuits /\ b.state = "open"
        <4> HIDE DEF a
        <4> QED BY <3>2, Assigned
      <3>4. c \in Circuits /\ c.state = "open"
        <4> HIDE DEF b
        <4> QED BY <3>3, Assigned
      <3> QED BY <2>1, <3>4, Zenon
    <2>3. streak' = [fails |-> 0, succs |-> 0]
      BY <1>2, <2>2 DEF NewStreak, Changed
    <2> QED BY <1>2, <2>2, <2>3 DEF CircuitOK, BreakerMoves, Streaks
  <1>3. CASE circuit.state = "closed" /\ circuit.fails + 1 >= FailureThreshold
    <2>1. circuit' = [f EXCEPT !.state = "open", !.since = 0]
      BY <1>3 DEF Failed
    <2> HIDE DEF m, n
    <2>2. circuit' \in Circuits /\ circuit'.state = "open"
      <3> DEFINE a == [f EXCEPT !.state = "open"]
                 b == [a EXCEPT !.since = 0]
      <3>1. f \in Circuits
        BY <1>1, Assigned DEF CircuitOK
      <3>2. a \in Circuits /\ a.state = "open"
        <4> HIDE DEF f
        <4> QED BY <3>1, StateAssigned
      <3>3. b \in Circuits /\ b.state = "open"
        <4> HIDE DEF a
        <4> QED BY <3>2, Assigned
      <3> QED BY <2>1, <3>3, Zenon
    <2>3. streak' = [fails |-> 0, succs |-> 0]
      BY <1>3, <2>2 DEF NewStreak, Changed
    <2>4. streak.fails + 1 >= FailureThreshold
      BY <1>0, <1>3, CountedTo DEF CircuitOK
    <2> QED BY <1>3, <2>2, <2>3, <2>4 DEF CircuitOK, BreakerMoves, Streaks
  <1>4. CASE circuit.state = "closed" /\ circuit.fails + 1 < FailureThreshold
    <2>1. circuit' = f
      BY <1>4, <1>0 DEF Failed
    <2>2. n = circuit.fails + 1 /\ circuit.fails + 1 <= m
      BY <1>0, <1>4, CountedTo DEF CircuitOK
    <2>3. streak' = NewStreak(circuit', [succs |-> 0, fails |-> m])
      OBVIOUS
    <2> HIDE DEF m, n
    <2>4. circuit' \in Circuits /\ circuit'.state = "closed" /\ circuit'.fails = n
      BY <1>0, <1>1, <1>4, <2>1 DEF CircuitOK, Circuits
    <2>5. streak' = [succs |-> 0, fails |-> m]
      BY <1>4, <2>3, <2>4 DEF NewStreak, Changed
    <2> QED BY <1>0, <1>1, <1>4, <2>2, <2>4, <2>5 DEF CircuitOK, BreakerMoves, Streaks
  <1>5. CASE circuit.state = "open"
    <2>1. circuit' = f
      BY <1>5 DEF Failed
    <2>2. streak' = NewStreak(circuit', [succs |-> 0, fails |-> m])
      OBVIOUS
    <2> HIDE DEF m, n
    <2>3. circuit' \in Circuits /\ circuit'.state = "open"
      BY <1>1, <1>5, <2>1 DEF CircuitOK, Circuits
    <2>4. streak' \in Streaks
      BY <1>1, <1>5, <2>2, <2>3 DEF NewStreak, Changed, Streaks
    <2> QED BY <1>5, <2>3, <2>4 DEF CircuitOK, BreakerMoves
  <1> QED BY <1>0, <1>2, <1>3, <1>4, <1>5 DEF CircuitOK, Circuits

\* The breaker has no circuit before the first request it let through.
BreakerOK == CircuitOK /\ inflight \in 0 .. MaxInFlight /\ (inflight > 0 => circuit.state # "none")

\* The breaker's part of one step.
LEMMA BreakerStep ==
  ASSUME BreakerOK, [Next]_vars
  PROVE  BreakerOK' /\ BreakerMoves
  <1>0. MaxInFlight \in Nat /\ inflight \in Nat /\ inflight <= MaxInFlight /\ CircuitOK
    BY PolicyConstants DEF BreakerOK
  <1>1. CASE UNCHANGED <<circuit, streak, inflight>>
    BY <1>1 DEF BreakerOK, CircuitOK, BreakerMoves
  <1>2. CASE AllowRequest
    <2> DEFINE c == IF circuit = NoCircuit THEN NewCircuit ELSE circuit
               b == Refilled(bucket)
    <2>1. CASE ~(b.tokens > 0)
      BY <1>1, <1>2, <2>1 DEF AllowRequest
    <2>2. CASE b.tokens > 0
      <3>1. circuit' = Looked(c) /\ streak' = NewStreak(circuit', streak)
        BY <1>2, <2>2 DEF AllowRequest
      <3>2. CircuitOK' /\ BreakerMoves
        BY <1>0, <3>1, LookSafe
      <3>3. circuit'.state # "none"
        BY <1>0, <3>1 DEF Looked, NewCircuit, CircuitOK, Circuits
      <3>4. inflight' \in 0 .. MaxInFlight
        BY <1>0, <1>2 DEF AllowRequest
      <3> QED BY <3>2, <3>3, <3>4 DEF BreakerOK
    <2> QED BY <2>1, <2>2
  <1>3. CASE Observe
    <2>1. circuit' = Looked(circuit) /\ streak' = NewStreak(circuit', streak) /\ inflight' = inflight
      BY <1>3 DEF Observe
    <2>2. CircuitOK' /\ BreakerMoves
      BY <1>0, <2>1, LookSafe
    <2>3. circuit.state # "none" => circuit'.state # "none"
      BY <1>0, <2>1 DEF Looked, CircuitOK, Circuits
    <2> QED BY <2>1, <2>2, <2>3 DEF BreakerOK
  <1>4. CASE RecordSuccess
    <2>1. CircuitOK' /\ BreakerMoves
      BY <1>0, <1>4, SuccessSafe DEF RecordSuccess
    <2>2. circuit.state # "none" /\ inflight' \in 0 .. MaxInFlight
      BY <1>0, <1>4 DEF RecordSuccess, BreakerOK
    <2>3. circuit'.state # "none"
      BY <1>0, <1>4, <2>2 DEF RecordSuccess, Succeeded, CircuitOK, Circuits
    <2> QED BY <2>1, <2>2, <2>3 DEF BreakerOK
  <1>5. CASE RecordFailure \/ TimesOut
    <2>1. /\ circuit' = Failed(circuit) /\ circuit.state # "none" /\ inflight' \in 0 .. MaxInFlight
          /\ streak' = NewStreak(circuit', [succs |-> 0, fails |-> Min({FailureThreshold, streak.fails + 1})])
      BY <1>0, <1>5 DEF RecordFailure, TimesOut, BreakerOK
    <2>2. CircuitOK' /\ BreakerMoves
      BY <1>0, <2>1, FailureSafe
    <2>3. circuit'.state # "none"
      BY <1>0, <2>1 DEF Failed, CircuitOK, Circuits
    <2> QED BY <2>1, <2>2, <2>3 DEF BreakerOK
  <1>6. CASE Tick
    <2>1. CASE circuit = NoCircuit
      BY <1>1, <1>6, <2>1 DEF Tick
    <2>2. CASE circuit # NoCircuit
      <3> DEFINE s == Min({circuit.since + 1, OpenTicks})
      <3>1. s \in Nat
        BY <1>0, PolicyConstants, MinOfTwo DEF CircuitOK, Circuits
      <3>2. circuit' = [circuit EXCEPT !.since = s] /\ streak' = streak /\ inflight' = inflight
        BY <1>6, <2>2 DEF Tick
      <3> HIDE DEF s
      <3>3. /\ circuit' \in Circuits /\ circuit'.state = circuit.state
            /\ circuit'.fails = circuit.fails /\ circuit'.succs = circuit.succs
        BY <1>0, <3>1, <3>2 DEF CircuitOK, Circuits
      <3> QED BY <1>0, <2>2, <3>2, <3>3 DEF BreakerOK, CircuitOK, BreakerMoves
    <2> QED BY <2>1, <2>2
  <1> QED BY <1>1, <1>2, <1>3, <1>4, <1>5, <1>6 DEF Next, vars, Retry, Autoscale

-----------------------------------------------------------------------------
(* The autoscaler.                                                         *)

Scales ==
  /\ fleet'.replicas > fleet.replicas => Util(fleet) > TargetUtil /\ fleet'.replicas <= MaxReplicas
  /\ fleet'.replicas < fleet.replicas =>
       10 * Util(fleet) < 8 * TargetUtil /\ fleet'.replicas >= MinReplicas

FleetOK == fleet \in [replicas : Nat, load : Nat]

\* The autoscaler's part of one step.
LEMMA FleetStep ==
  ASSUME FleetOK, [Next]_vars
  PROVE  FleetOK' /\ Scales
  <1>1. CASE UNCHANGED fleet
    BY <1>1 DEF FleetOK, Scales
  <1>2. CASE Autoscale
    <2> DEFINE n == GetTargetReplicas(fleet)
    <2>0. /\ MinReplicas \in Nat /\ MaxReplicas \in Nat /\ MinReplicas <= MaxReplicas
          /\ ScaleStep \in Nat /\ ScaleStep > 0 /\ fleet.replicas \in Nat
      BY PolicyConstants DEF FleetOK
    <2>1. CASE ShouldScaleUp(fleet)
      <3>1. n = Max({MinReplicas, Min({MaxReplicas, fleet.replicas + ScaleStep})})
        BY <2>1 DEF GetTargetReplicas
      <3> DEFINE m == Min({MaxReplicas, fleet.replicas + ScaleStep})
      <3>2. m \in Nat /\ m <= MaxReplicas /\ m >= fleet.replicas
        BY <2>0, <2>1, MinOfTwo DEF ShouldScaleUp
      <3> HIDE DEF m
      <3>3. n = Max({MinReplicas, m})
        BY <3>1 DEF m
      <3>4. n \in Nat /\ n <= MaxReplicas /\ n >= fleet.replicas
        BY <2>0, <3>2, <3>3, MaxOfTwo
      <3>5. fleet' = [fleet EXCEPT !.replicas = n]
        BY <1>2 DEF Autoscale
      <3> HIDE DEF n
      <3>6. fleet' \in [replicas : Nat, load : Nat] /\ fleet'.replicas = n
        BY <3>4, <3>5 DEF FleetOK
      <3> QED BY <2>0, <2>1, <3>4, <3>6 DEF FleetOK, Scales, ShouldScaleUp
    <2>2. CASE ~ShouldScaleUp(fleet) /\ ShouldScaleDown(fleet)
      <3>1. n = Max({MinReplicas, Min({MaxReplicas, fleet.replicas - ScaleStep})})
        BY <2>2 DEF GetTargetReplicas
      <3> DEFINE m == Min({MaxReplicas, fleet.replicas - ScaleStep})
      <3>2. m \in Int /\ m <= fleet.replicas - ScaleStep
        BY <2>0, MinOfTwo
      <3> HIDE DEF m
      <3>3. n = Max({MinReplicas, m})
        BY <3>1 DEF m
      <3>4. n \in Nat /\ n >= MinReplicas /\ n <= fleet.replicas
        BY <2>0, <2>2, <3>2, <3>3, MaxOfTwo DEF ShouldScaleDown
      <3>5. fleet' = [fleet EXCEPT !.replicas = n]
        BY <1>2 DEF Autoscale
      <3> HIDE DEF n
      <3>6. fleet' \in [replicas : Nat, load : Nat] /\ fleet'.replicas = n
        BY <3>4, <3>5 DEF FleetOK
      <3> QED BY <2>0, <2>2, <3>4, <3>6 DEF FleetOK, Scales, ShouldScaleDown
    <2>3. CASE ~ShouldScaleUp(fleet) /\ ~ShouldScaleDown(fleet)
      <3>1. fleet' = [fleet EXCEPT !.replicas = fleet.replicas]
        BY <1>2, <2>3 DEF Autoscale, GetTargetReplicas
      <3>2. fleet' = fleet
        BY <3>1 DEF FleetOK
      <3> QED BY <1>1, <3>2
    <2> QED BY <2>1, <2>2, <2>3
  <1> QED BY <1>1, <1>2
          DEF Next, vars, AllowRequest, Observe, RecordSuccess, RecordFailure, TimesOut, Tick, Retry

-----------------------------------------------------------------------------
(* The theorems.                                                           *)

PoliciesOK == BucketOK /\ BreakerOK /\ FleetOK

\* The inductive invariant of the policies.
THEOREM PoliciesInvariant == Spec => []PoliciesOK
  <1>1. Init => PoliciesOK
    <2> SUFFICES ASSUME Init PROVE PoliciesOK
      OBVIOUS
    <2>1. BucketOK
      BY DEF Init, BucketOK, Paid
    <2>2. BreakerOK
      BY PolicyConstants DEF Init, BreakerOK, CircuitOK, NoCircuit, Circuits, Streaks
    <2>3. FleetOK
      <3>1. NoFleet \in [replicas : Nat, load : Nat]
        BY DEF NoFleet
      <3>2. Fleets \subseteq [replicas : Nat, load : Nat]
        <4>1. MinReplicas .. MaxReplicas + 1 \subseteq Nat /\ Loads \subseteq Nat
          BY PolicyConstants
        <4> QED BY <4>1 DEF Fleets
      <3> QED BY <3>1, <3>2 DEF Init, FleetOK
    <2> QED BY <2>1, <2>2, <2>3 DEF PoliciesOK
  <1>2. PoliciesOK /\ [Next]_vars => PoliciesOK'
    BY BucketStep, BreakerStep, FleetStep DEF PoliciesOK
  <1> QED BY <1>1, <1>2, PTL DEF Spec

\* LimitsKept: in any window of time the rate limiter lets through at most a full bucket and
\* what the rate refills in it, rounded up, and the counters of limiter and breaker stay within
\* their bounds, for every rate, tick length, threshold and window.
THEOREM LimitsAreKept == Spec => []LimitsKept
  <1>1. PoliciesOK => LimitsKept
    <2> SUFFICES ASSUME PoliciesOK PROVE LimitsKept
      OBVIOUS
    <2>1. RateBounded
      BY WindowBounded DEF PoliciesOK
    <2>2. bucket = NoBucket \/ (bucket.tokens \in 0 .. Rate /\ bucket.since \in 0 .. LongAgo)
      <3>1. Rate \in Nat /\ LongAgo \in Nat
        BY PolicyConstants DEF LongAgo
      <3> QED BY <3>1 DEF PoliciesOK, BucketOK, Buckets
    <2>3. TypeOK
      BY <2>2 DEF TypeOK, PoliciesOK, BucketOK, BreakerOK, CircuitOK, Circuits
    <2> QED BY <2>1, <2>3 DEF LimitsKept
  <1> QED BY <1>1, PoliciesInvariant, PTL

\* The circuit opens and closes only after as many failures or successes in a row as its
\* thresholds ask for, and leaves the open state only for the half-open one after its timeout.
THEOREM BreakerStaysHonest == Spec => BreakerHonest
  <1>1. PoliciesOK /\ [Next]_vars => [BreakerMoves]_vars
    BY BreakerStep DEF PoliciesOK
  <1>2. BreakerMoves =>
          /\ circuit.state = "closed" /\ circuit'.state = "open" => streak.fails + 1 >= FailureThreshold
          /\ circuit.state = "half-open" /\ circuit'.state = "closed" =>
               streak.succs + 1 >= SuccessThreshold /\ streak.fails = 0
          /\ circuit.state = "open" /\ circuit'.state # "open" =>
               circuit.since >= OpenTicks /\ circuit'.state = "half-open"
    BY DEF BreakerMoves
  <1> QED BY <1>1, <1>2, PoliciesInvariant, PTL DEF Spec, BreakerHonest

\* The autoscaler moves the fleet only towards its target, and into its bounds.
THEOREM ScalingIsTowardsTarget == Spec => ScalesTowardsTarget
  <1>1. PoliciesOK /\ [Next]_vars => [Scales]_vars
    BY FleetStep DEF PoliciesOK
  <1>2. Scales =>
          /\ fleet'.replicas > fleet.replicas => Util(fleet) > TargetUtil /\ fleet'.replicas <= MaxReplicas
          /\ fleet'.replicas < fleet.replicas =>
               10 * Util(fleet) < 8 * TargetUtil /\ fleet'.replicas >= MinReplicas
    BY DEF Scales
  <1> QED BY <1>1, <1>2, PoliciesInvariant, PTL DEF Spec, ScalesTowardsTarget
=============================================================================
