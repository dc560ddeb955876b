------------------------- MODULE EvaluationProofs -------------------------
(***************************************************************************)
(* The evaluations of module Evaluation, for any number of workers, tokens *)
(* and runs: the inductive invariant EvalOK and, for every step, what it   *)
(* does to the invariant and to the counts that the experiment's limits    *)
(* are about.  Module ExperimentProofs builds on these lemmas.             *)
(*                                                                         *)
(* Configurations and metrics have no type: of a record the invariant      *)
(* knows the fields, of a sequence its length and its elements.            *)
(***************************************************************************)
EXTENDS Evaluation, FiniteSetTheorems, TLAPS

IsSequence(s) == Len(s) \in Nat /\ s = [i \in 1..Len(s) |-> s[i]]

Stores == Terminal \cup {"pending", "running", "evicted"}
Statuses == {"pending", "running", "completed", "failed"}
RunShape(r) ==
  /\ DOMAIN r = {"config", "store", "metrics", "status", "outcome"}
  /\ r.store \in Stores /\ r.status \in Statuses /\ r.outcome \in Outcomes
EvalShape(e) ==
  /\ DOMAIN e = {"pc", "config", "run", "err", "metrics"}
  /\ e.pc \in {"idle", "gate", "sem", "start", "poll", "returned"}

\* A worker that has a run to watch.
Watches(w) == evals[w].pc \in {"start", "poll"}
Watching == {w \in Workers : evals[w].pc \in {"start", "poll"}}
\* The evaluations in progress that have passed the check of failedCandidates.
Passed == {w \in Workers : evals[w].pc \in {"sem", "start", "poll"}}

Shapes ==
  /\ ctx \in {"live", "canceled", "deadline"} /\ failed \in Nat
  /\ IsSequence(runs) /\ \A i \in 1..Len(runs) : RunShape(runs[i])
  /\ evals = [w \in Workers |-> evals[w]] /\ \A w \in Workers : EvalShape(evals[w])

\* A run that may still run has its own watcher; a run that is to be started has not run.
RunsWatched ==
  /\ \A w \in Workers : Watches(w) => evals[w].run \in 1..Len(runs)
  /\ \A v, w \in Workers : Watches(v) /\ Watches(w) /\ evals[v].run = evals[w].run => v = w
  /\ \A w \in Workers :
       /\ evals[w].pc = "start" => runs[evals[w].run].store \in {"pending", "stopped"}
       /\ evals[w].pc = "poll" => runs[evals[w].run].store # "pending"
  /\ \A i \in 1..Len(runs) : runs[i].store \in {"pending", "running"} =>
       \E w \in Workers : evals[w].run = i /\ Watches(w)

EvalOK ==
  /\ Shapes /\ RunsWatched
  /\ tokens = Cardinality(Watching) /\ tokens <= MaxConcurrentCandidates

\* Only the evaluation of w changes.
Moves(w) ==
  /\ evals' = [v \in Workers |-> evals'[v]]
  /\ \A v \in Workers : v # w => evals'[v] = evals[v]
  /\ EvalShape(evals'[w])

\* Only the run i changes.
Touches(i) ==
  /\ IsSequence(runs') /\ Len(runs') = Len(runs)
  /\ \A j \in 1..Len(runs) : j # i => runs'[j] = runs[j]
  /\ RunShape(runs'[i])

-----------------------------------------------------------------------------
(* Sequences, records and counts.                                          *)

\* Every sequence is one.
LEMMA SequenceOf ==
  ASSUME NEW C, NEW s \in Seq(C)
  PROVE  IsSequence(s)
  BY DEF IsSequence

\* Append makes a sequence longer by one.
LEMMA SequenceAppend ==
  ASSUME NEW s, IsSequence(s), NEW x
  PROVE  /\ IsSequence(Append(s, x)) /\ Len(Append(s, x)) = Len(s) + 1
         /\ Append(s, x)[Len(s) + 1] = x
         /\ \A j \in 1..Len(s) : Append(s, x)[j] = s[j]
  <1> DEFINE C == {s[i] : i \in 1..Len(s)} \cup {x}
  <1>1. s \in Seq(C) /\ x \in C
    BY DEF IsSequence
  <1> HIDE DEF C
  <1>2. /\ Append(s, x) \in Seq(C) /\ Len(Append(s, x)) = Len(s) + 1
        /\ Append(s, x)[Len(s) + 1] = x /\ \A j \in 1..Len(s) : Append(s, x)[j] = s[j]
    <2>1. Append(s, x) \in Seq(C) /\ Len(Append(s, x)) = Len(s) + 1
      BY <1>1
    <2>2. Append(s, x)[Len(s) + 1] = x
      BY <1>1
    <2>3. ASSUME NEW j \in 1..Len(s) PROVE Append(s, x)[j] = s[j]
      <3>1. Len(s) \in Nat /\ j \in Nat /\ 1 <= j /\ j <= Len(s)
        BY <1>1
      <3> QED BY <1>1, <3>1
    <2> QED BY <2>1, <2>2, <2>3
  <1>3. IsSequence(Append(s, x))
    BY ONLY <1>2, SequenceOf
  <1> QED BY <1>2, <1>3

\* A set of workers that changes by one worker at most changes its size accordingly.
LEMMA CountChanges ==
  ASSUME NEW P \in SUBSET Workers, NEW Q \in SUBSET Workers, NEW w \in Workers,
         \A v \in Workers : v # w => (v \in P <=> v \in Q)
  PROVE  /\ Cardinality(P) \in Nat /\ Cardinality(Q) \in Nat
         /\ (w \in P <=> w \in Q) => Cardinality(Q) = Cardinality(P)
         /\ w \notin P /\ w \in Q => Cardinality(Q) = Cardinality(P) + 1
         /\ w \in P /\ w \notin Q => Cardinality(Q) = Cardinality(P) - 1
  <1>1. IsFiniteSet(P) /\ IsFiniteSet(Q)
    BY EvaluationConstants, FS_Subset
  <1>2. Cardinality(P) \in Nat /\ Cardinality(Q) \in Nat
    BY <1>1, FS_CardinalityType
  <1>3. (w \in P <=> w \in Q) => Q = P
    OBVIOUS
  <1>4. ASSUME w \notin P, w \in Q PROVE Cardinality(Q) = Cardinality(P) + 1
    <2>1. Q = P \cup {w}
      BY <1>4
    <2> QED BY <1>1, <1>4, <2>1, FS_AddElement
  <1>5. ASSUME w \in P, w \notin Q PROVE Cardinality(Q) = Cardinality(P) - 1
    <2>1. Q = P \ {w}
      BY <1>5
    <2> QED BY <1>1, <1>5, <2>1, FS_RemoveElement
  <1> QED BY <1>2, <1>3, <1>4, <1>5

\* What a step of one evaluation does to the counts.
LEMMA CountsMove ==
  ASSUME NEW w \in Workers, Moves(w)
  PROVE  /\ Cardinality(Watching) \in Nat /\ Cardinality(Watching') \in Nat
         /\ Cardinality(Passed) \in Nat /\ Cardinality(Passed') \in Nat
         /\ (w \in Watching <=> w \in Watching') => Cardinality(Watching') = Cardinality(Watching)
         /\ w \notin Watching /\ w \in Watching' =>
              Cardinality(Watching') = Cardinality(Watching) + 1
         /\ w \in Watching /\ w \notin Watching' =>
              Cardinality(Watching') = Cardinality(Watching) - 1
         /\ (w \in Passed <=> w \in Passed') => Cardinality(Passed') = Cardinality(Passed)
         /\ w \notin Passed /\ w \in Passed' => Cardinality(Passed') = Cardinality(Passed) + 1
         /\ w \in Passed /\ w \notin Passed' => Cardinality(Passed') = Cardinality(Passed) - 1
  <1>1. /\ Watching \in SUBSET Workers /\ Watching' \in SUBSET Workers
        /\ \A v \in Workers : v # w => (v \in Watching <=> v \in Watching')
    BY DEF Watching, Moves
  <1>2. /\ Passed \in SUBSET Workers /\ Passed' \in SUBSET Workers
        /\ \A v \in Workers : v # w => (v \in Passed <=> v \in Passed')
    BY DEF Passed, Moves
  <1>3. /\ Cardinality(Watching) \in Nat /\ Cardinality(Watching') \in Nat
        /\ (w \in Watching <=> w \in Watching') => Cardinality(Watching') = Cardinality(Watching)
        /\ w \notin Watching /\ w \in Watching' =>
              Cardinality(Watching') = Cardinality(Watching) + 1
        /\ w \in Watching /\ w \notin Watching' =>
              Cardinality(Watching') = Cardinality(Watching) - 1
    BY <1>1, CountChanges
  <1>4. /\ Cardinality(Passed) \in Nat /\ Cardinality(Passed') \in Nat
        /\ (w \in Passed <=> w \in Passed') => Cardinality(Passed') = Cardinality(Passed)
        /\ w \notin Passed /\ w \in Passed' => Cardinality(Passed') = Cardinality(Passed) + 1
        /\ w \in Passed /\ w \notin Passed' => Cardinality(Passed') = Cardinality(Passed) - 1
    BY <1>2, CountChanges
  <1> QED BY <1>3, <1>4

-----------------------------------------------------------------------------
(* The steps, by what they do to the runs and their watchers.              *)

\* A step of an evaluation that has no run to watch, before and after.
LEMMA Outside ==
  ASSUME EvalOK, NEW w \in Workers, ~Watches(w), Moves(w), ~Watches(w)',
         UNCHANGED <<ctx, failed, tokens, runs>>
  PROVE  EvalOK'
  <1>1. Shapes'
    BY DEF EvalOK, Shapes, Moves, IsSequence, RunShape
  <1>2. RunsWatched'
    BY DEF EvalOK, RunsWatched, Moves, Watches
  <1>3. w \notin Watching /\ w \notin Watching'
    BY DEF Watching, Watches
  <1>4. tokens' = Cardinality(Watching') /\ tokens' <= MaxConcurrentCandidates
    BY <1>3, CountsMove DEF EvalOK
  <1> QED BY <1>1, <1>2, <1>4 DEF EvalOK

\* An evaluation that returns gives up a run that has ended.
LEMMA Leaving ==
  ASSUME EvalOK, NEW w \in Workers, Watches(w), Moves(w), evals'[w].pc = "returned",
         Touches(evals[w].run), runs'[evals[w].run].store \notin {"pending", "running"},
         tokens' = tokens - 1, failed' \in Nat, ctx' = ctx
  PROVE  EvalOK'
  <1>0. evals[w].run \in 1..Len(runs)
    BY DEF EvalOK, RunsWatched
  <1>1. Shapes'
    <2>1. \A i \in 1..Len(runs') : RunShape(runs'[i])
      BY <1>0 DEF EvalOK, Shapes, Touches
    <2> QED BY <2>1 DEF EvalOK, Shapes, Moves, Touches, IsSequence, RunShape
  <1>2. \A v \in Workers : Watches(v)' => v # w /\ Watches(v) /\ evals'[v] = evals[v]
    BY DEF Moves, Watches
  <1>3. \A v \in Workers : Watches(v)' => runs'[evals[v].run] = runs[evals[v].run]
    BY <1>2 DEF EvalOK, RunsWatched, Touches
  <1>4. RunsWatched'
    <2>1. \A v \in Workers : Watches(v)' => evals'[v].run \in 1..Len(runs')
      BY <1>2 DEF EvalOK, RunsWatched, Touches
    <2>2. \A u, v \in Workers : Watches(u)' /\ Watches(v)' /\ evals'[u].run = evals'[v].run => u = v
      BY <1>2 DEF EvalOK, RunsWatched
    <2>3. ASSUME NEW v \in Workers
          PROVE  /\ evals'[v].pc = "start" => runs'[evals'[v].run].store \in {"pending", "stopped"}
                 /\ evals'[v].pc = "poll" => runs'[evals'[v].run].store # "pending"
      BY <1>2, <1>3 DEF EvalOK, RunsWatched, Watches
    <2>4. ASSUME NEW i \in 1..Len(runs'), runs'[i].store \in {"pending", "running"}
          PROVE  \E v \in Workers : evals'[v].run = i /\ Watches(v)'
      <3>1. i # evals[w].run /\ i \in 1..Len(runs) /\ runs'[i] = runs[i]
        BY <2>4 DEF Touches
      <3>2. PICK v \in Workers : evals[v].run = i /\ Watches(v)
        BY <2>4, <3>1 DEF EvalOK, RunsWatched
      <3>3. v # w /\ evals'[v] = evals[v]
        BY <3>1, <3>2 DEF Moves
      <3> QED BY <3>2, <3>3 DEF Watches
    <2> QED BY <2>1, <2>2, <2>3, <2>4 DEF RunsWatched, Watches
  <1>5. w \in Watching /\ w \notin Watching'
    BY DEF Watching, Watches
  <1>6. tokens' = Cardinality(Watching') /\ tokens' <= MaxConcurrentCandidates
    <2>1. Cardinality(Watching) \in Nat /\ Cardinality(Watching') = Cardinality(Watching) - 1
      BY <1>5, CountsMove
    <2> QED BY <2>1, EvaluationConstants DEF EvalOK
  <1> QED BY <1>1, <1>4, <1>6 DEF EvalOK

\* Runs end, and no evaluation steps: what is pending can only be stopped, and what is
\* evicted is polled.
LEMMA StoresMove ==
  ASSUME EvalOK, UNCHANGED <<ctx, failed, tokens, evals>>,
         IsSequence(runs'), Len(runs') = Len(runs),
         \A i \in 1..Len(runs) : RunShape(runs'[i]),
         \A i \in 1..Len(runs) :
           \/ runs'[i].store = runs[i].store
           \/ runs[i].store = "running" /\ runs'[i].store # "pending"
           \/ runs[i].store = "pending" /\ runs'[i].store = "stopped"
           \/ /\ runs[i].store \in Terminal /\ runs'[i].store = "evicted"
              /\ \E w \in Workers : evals[w].run = i /\ evals[w].pc = "poll"
  PROVE  EvalOK'
  <1>1. Shapes'
    BY DEF EvalOK, Shapes, EvalShape
  <1>2. RunsWatched'
    <2>1. ASSUME NEW w \in Workers, evals[w].pc = "start"
          PROVE  runs'[evals[w].run].store \in {"pending", "stopped"}
      <3>1. /\ Watches(w) /\ evals[w].run \in 1..Len(runs)
            /\ runs[evals[w].run].store \in {"pending", "stopped"}
        BY <2>1 DEF EvalOK, RunsWatched, Watches
      <3>2. ~ \E v \in Workers : evals[v].run = evals[w].run /\ evals[v].pc = "poll"
        BY <2>1, <3>1 DEF EvalOK, RunsWatched, Watches
      <3> QED BY <3>1, <3>2
    <2>2. ASSUME NEW w \in Workers, evals[w].pc = "poll"
          PROVE  runs'[evals[w].run].store # "pending"
      <3>1. evals[w].run \in 1..Len(runs) /\ runs[evals[w].run].store # "pending"
        BY <2>2 DEF EvalOK, RunsWatched, Watches
      <3> QED BY <3>1
    <2>3. ASSUME NEW i \in 1..Len(runs), runs'[i].store \in {"pending", "running"}
          PROVE  \E w \in Workers : evals[w].run = i /\ Watches(w)
      <3>1. runs[i].store \in {"pending", "running"}
        BY <2>3
      <3> QED BY <3>1 DEF EvalOK, RunsWatched
    <2> QED BY <2>1, <2>2, <2>3 DEF EvalOK, RunsWatched, Watches
  <1>3. Watching' = Watching
    BY DEF Watching
  <1> QED BY <1>1, <1>2, <1>3 DEF EvalOK

\* An evaluation returns.
LEMMA ReturnedMoves ==
  ASSUME Shapes, NEW w \in Workers, NEW err, NEW m, evals' = Returned(w, err, m)
  PROVE  Moves(w) /\ evals'[w].pc = "returned"
  BY DEF Shapes, Returned, Moves, EvalShape

\* An evaluation is called.
LEMMA CalledMoves ==
  ASSUME Shapes, NEW w \in Workers, NEW c, evals' = Called(w, c)
  PROVE  Moves(w) /\ evals'[w].pc = "gate"
  BY DEF Shapes, Called, Idle, Moves, EvalShape

\* The caller takes the answer of an evaluation.
LEMMA TakenMoves ==
  ASSUME Shapes, NEW w \in Workers, evals' = [evals EXCEPT ![w] = Idle]
  PROVE  Moves(w) /\ evals'[w].pc = "idle"
  BY DEF Shapes, Idle, Moves, EvalShape

\* One run changes.
LEMMA RunTouched ==
  ASSUME Shapes, NEW i \in 1..Len(runs), NEW r, RunShape(r), runs' = [runs EXCEPT ![i] = r]
  PROVE  Touches(i) /\ runs'[i] = r
  <1>1. IsSequence(runs) /\ i \in 1..Len(runs) /\ runs' = [runs EXCEPT ![i] = r]
    BY DEF Shapes
  <1>2. /\ IsSequence(runs') /\ Len(runs') = Len(runs) /\ runs'[i] = r
        /\ \A j \in 1..Len(runs) : j # i => runs'[j] = runs[j]
    <2>1. runs' = [j \in 1..Len(runs) |-> IF j = i THEN r ELSE runs[j]] /\ Len(runs) \in Nat
      BY <1>1 DEF IsSequence
    <2>2. Len(runs') = Len(runs)
      BY <2>1
    <2> QED BY <1>1, <2>1, <2>2 DEF IsSequence
  <1> QED BY <1>2 DEF Touches

\* A run that its evaluation gave up on.
LEMMA AbandonedShape ==
  ASSUME NEW r, RunShape(r), NEW o \in Outcomes
  PROVE  RunShape(Abandoned(r, o)) /\ Abandoned(r, o).store = r.store
  BY DEF RunShape, Abandoned, Statuses

\* The evaluation is about to create a run.
Ahead(w) == IF evals[w].pc \in {"gate", "sem"} THEN 1 ELSE 0

\* A step of an evaluation in progress.  It creates a run at most once; it adds to
\* failedCandidates only when it returns, after it has passed the check.
Stepped(w) ==
  /\ Moves(w) /\ evals[w].pc # "idle" /\ evals'[w].pc # "idle"
  /\ Len(runs') \in Nat /\ Len(runs') + Ahead(w)' <= Len(runs) + Ahead(w)
  /\ \/ failed' + Cardinality(Passed') <= failed + Cardinality(Passed)
     \/ /\ failed' = failed /\ failed < MaxFailedCandidates
        /\ w \notin Passed /\ Cardinality(Passed') = Cardinality(Passed) + 1

\* An evaluation that returns: the counts.
LEMMA LeavingCounts ==
  ASSUME EvalOK, NEW w \in Workers, Watches(w), Moves(w), evals'[w].pc = "returned",
         Touches(evals[w].run), failed' \in {failed, failed + 1}
  PROVE  Stepped(w)
  <1>1. w \in Passed /\ w \notin Passed'
    BY DEF Passed, Watches
  <1>2. Cardinality(Passed) \in Nat /\ Cardinality(Passed') = Cardinality(Passed) - 1
    BY <1>1, CountsMove
  <1>3. failed \in Nat
    BY DEF EvalOK, Shapes
  <1>4. failed' + Cardinality(Passed') <= failed + Cardinality(Passed)
    BY <1>2, <1>3
  <1>5. Len(runs') = Len(runs) /\ Len(runs) \in Nat /\ Ahead(w) = 0 /\ Ahead(w)' = 0
    BY DEF EvalOK, Shapes, IsSequence, Touches, Ahead, Watches
  <1> QED BY <1>4, <1>5 DEF Stepped, Watches

\* The check of failedCandidates.
LEMMA CheckStep ==
  ASSUME EvalOK, NEW w \in Workers, ChecksFailures(w)
  PROVE  EvalOK' /\ Stepped(w)
  <1>1. evals[w].pc = "gate" /\ UNCHANGED <<ctx, failed, tokens, runs>> /\ Shapes
    BY DEF ChecksFailures, EvalOK
  <1>2. Len(runs) \in Nat /\ failed \in Nat
    BY <1>1 DEF Shapes, IsSequence
  <1>3. CASE failed >= MaxFailedCandidates
    <2>1. evals' = Returned(w, "max_failed", Nil)
      BY <1>3 DEF ChecksFailures
    <2>2. Moves(w) /\ evals'[w].pc = "returned"
      BY <1>1, <2>1, ReturnedMoves
    <2>3. EvalOK'
      BY <1>1, <2>2, Outside DEF Watches
    <2>4. w \notin Passed /\ w \notin Passed'
      BY <1>1, <2>2 DEF Passed
    <2>5. Cardinality(Passed) \in Nat /\ Cardinality(Passed') = Cardinality(Passed)
      BY <2>2, <2>4, CountsMove
    <2>6. Ahead(w) = 1 /\ Ahead(w)' = 0
      BY <1>1, <2>2 DEF Ahead
    <2> QED BY <1>1, <1>2, <2>2, <2>3, <2>5, <2>6 DEF Stepped
  <1>4. CASE failed < MaxFailedCandidates
    <2>1. evals' = [evals EXCEPT ![w].pc = "sem"]
      BY <1>2, <1>4, EvaluationConstants DEF ChecksFailures
    <2>2. Moves(w) /\ evals'[w].pc = "sem"
      BY <1>1, <2>1 DEF Shapes, Moves, EvalShape
    <2>3. EvalOK'
      BY <1>1, <2>2, Outside DEF Watches
    <2>4. w \notin Passed /\ w \in Passed'
      BY <1>1, <2>2 DEF Passed
    <2>5. Cardinality(Passed) \in Nat /\ Cardinality(Passed') = Cardinality(Passed) + 1
      BY <2>2, <2>4, CountsMove
    <2>6. Ahead(w) = 1 /\ Ahead(w)' = 1
      BY <1>1, <2>2 DEF Ahead
    <2> QED BY <1>1, <1>2, <1>4, <2>2, <2>3, <2>4, <2>5, <2>6 DEF Stepped
  <1> QED BY <1>2, <1>3, <1>4, EvaluationConstants

\* The context is done before the evaluation has a token.
LEMMA GiveUpStep ==
  ASSUME EvalOK, NEW w \in Workers, GivesUp(w)
  PROVE  EvalOK' /\ Stepped(w)
  <1>1. evals[w].pc = "sem" /\ UNCHANGED <<ctx, failed, tokens, runs>> /\ Shapes
    BY DEF GivesUp, EvalOK
  <1>2. Len(runs) \in Nat /\ failed \in Nat
    BY <1>1 DEF Shapes, IsSequence
  <1>3. Moves(w) /\ evals'[w].pc = "returned"
    BY <1>1, ReturnedMoves DEF GivesUp
  <1>4. EvalOK'
    BY <1>1, <1>3, Outside DEF Watches
  <1>5. w \in Passed /\ w \notin Passed'
    BY <1>1, <1>3 DEF Passed
  <1>6. Cardinality(Passed) \in Nat /\ Cardinality(Passed') = Cardinality(Passed) - 1
    BY <1>3, <1>5, CountsMove
  <1>7. Ahead(w) = 1 /\ Ahead(w)' = 0
    BY <1>1, <1>3 DEF Ahead
  <1> QED BY <1>1, <1>2, <1>3, <1>4, <1>6, <1>7 DEF Stepped

\* A token is taken and a run is created: the evaluation watches it from the start.
LEMMA CreateStep ==
  ASSUME EvalOK, NEW w \in Workers, Creates(w)
  PROVE  EvalOK' /\ Stepped(w)
  <1> DEFINE r == [config |-> evals[w].config, store |-> "pending", metrics |-> Nil,
                   status |-> "pending", outcome |-> "none"]
             n == Len(runs)
  <1>1. /\ evals[w].pc = "sem" /\ tokens < MaxConcurrentCandidates /\ tokens' = tokens + 1
        /\ UNCHANGED <<ctx, failed>> /\ runs' = Append(runs, r)
        /\ evals' = [evals EXCEPT ![w].pc = "start", ![w].run = n + 1] /\ Shapes
    BY DEF Creates, EvalOK
  <1>2. RunShape(r) /\ r.store = "pending"
    BY DEF RunShape, Stores, Statuses, Outcomes
  <1> HIDE DEF r
  <1>3. Moves(w) /\ evals'[w].pc = "start" /\ evals'[w].run = n + 1
    BY <1>1 DEF Shapes, Moves, EvalShape
  <1>4. /\ IsSequence(runs') /\ Len(runs') = n + 1 /\ n \in Nat /\ runs'[n + 1] = r
        /\ \A j \in 1..n : runs'[j] = runs[j]
    BY <1>1, SequenceAppend DEF Shapes, IsSequence
  <1>5. 1..Len(runs') = 1..n \cup {n + 1} /\ n + 1 \notin 1..n
    BY <1>4
  <1> HIDE DEF n
  <1>6. Shapes'
    <2>1. \A i \in 1..Len(runs') : RunShape(runs'[i])
      BY <1>1, <1>2, <1>4, <1>5 DEF Shapes, n
    <2> QED BY <1>1, <1>3, <1>4, <2>1 DEF Shapes, Moves
  <1>7. \A v \in Workers : v # w => evals'[v] = evals[v] /\ (Watches(v)' <=> Watches(v))
    BY <1>3 DEF Moves, Watches
  <1>8. \A v \in Workers : Watches(v) =>
          v # w /\ evals[v].run \in 1..n /\ runs'[evals[v].run] = runs[evals[v].run]
    BY <1>1, <1>4 DEF EvalOK, RunsWatched, Watches, n
  <1>9. RunsWatched'
    <2>1. \A v \in Workers : Watches(v)' => evals'[v].run \in 1..Len(runs')
      BY <1>3, <1>5, <1>7, <1>8
    <2>2. \A u, v \in Workers : Watches(u)' /\ Watches(v)' /\ evals'[u].run = evals'[v].run => u = v
      BY <1>3, <1>5, <1>7, <1>8 DEF EvalOK, RunsWatched
    <2>3. ASSUME NEW v \in Workers
          PROVE  /\ evals'[v].pc = "start" => runs'[evals'[v].run].store \in {"pending", "stopped"}
                 /\ evals'[v].pc = "poll" => runs'[evals'[v].run].store # "pending"
      <3>1. CASE v = w
        BY <1>2, <1>3, <1>4, <3>1
      <3>2. CASE v # w
        BY <1>7, <1>8, <3>2 DEF EvalOK, RunsWatched, Watches
      <3> QED BY <3>1, <3>2
    <2>4. ASSUME NEW i \in 1..Len(runs'), runs'[i].store \in {"pending", "running"}
          PROVE  \E v \in Workers : evals'[v].run = i /\ Watches(v)'
      <3>1. CASE i = n + 1
        BY <1>3, <3>1 DEF Watches
      <3>2. CASE i \in 1..n
        <4>1. PICK v \in Workers : evals[v].run = i /\ Watches(v)
          BY <1>4, <2>4, <3>2 DEF EvalOK, RunsWatched, n
        <4> QED BY <1>7, <1>8, <4>1
      <3> QED BY <1>5, <3>1, <3>2
    <2> QED BY <2>1, <2>2, <2>3, <2>4 DEF RunsWatched, Watches
  <1>10. w \notin Watching /\ w \in Watching' /\ w \in Passed /\ w \in Passed'
    BY <1>1, <1>3 DEF Watching, Passed
  <1>11. /\ Cardinality(Watching) \in Nat /\ Cardinality(Watching') = Cardinality(Watching) + 1
         /\ Cardinality(Passed) \in Nat /\ Cardinality(Passed') = Cardinality(Passed)
    BY <1>3, <1>10, CountsMove
  <1>12. tokens' = Cardinality(Watching') /\ tokens' <= MaxConcurrentCandidates
    BY <1>1, <1>11, EvaluationConstants DEF EvalOK
  <1>13. EvalOK'
    BY <1>6, <1>9, <1>12 DEF EvalOK
  <1>14. Ahead(w) = 1 /\ Ahead(w)' = 0 /\ failed \in Nat
    BY <1>1, <1>3 DEF Ahead, Shapes
  <1> QED BY <1>1, <1>3, <1>4, <1>11, <1>13, <1>14 DEF Stepped, n

\* An evaluation gives up a run r that has ended, and returns.
LEMMA ReturnStep ==
  ASSUME EvalOK, NEW w \in Workers, Watches(w), NEW err, NEW m, evals' = Returned(w, err, m),
         NEW r, RunShape(r), r.store \notin {"pending", "running"},
         runs' = [runs EXCEPT ![evals[w].run] = r],
         tokens' = tokens - 1, failed' \in {failed, failed + 1}, ctx' = ctx
  PROVE  EvalOK' /\ Stepped(w)
  <1>1. Shapes /\ evals[w].run \in 1..Len(runs) /\ failed' \in Nat
    BY DEF EvalOK, RunsWatched, Shapes
  <1>2. Moves(w) /\ evals'[w].pc = "returned"
    BY <1>1, ReturnedMoves
  <1>3. Touches(evals[w].run) /\ runs'[evals[w].run] = r
    BY <1>1, RunTouched
  <1>4. EvalOK'
    BY <1>1, <1>2, <1>3, Leaving
  <1>5. Stepped(w)
    BY <1>2, <1>3, LeavingCounts
  <1> QED BY <1>4, <1>5

\* Start is refused by a server limit.
LEMMA StartFailStep ==
  ASSUME EvalOK, NEW w \in Workers, StartFails(w)
  PROVE  EvalOK' /\ Stepped(w)
  <1> DEFINE a == Abandoned(runs[evals[w].run], "failed")
             r == [a EXCEPT !.store = "failed"]
  <1>1. Watches(w) /\ evals[w].run \in 1..Len(runs) /\ Shapes
    BY DEF StartFails, Watches, EvalOK, RunsWatched
  <1>2. /\ evals' = Returned(w, "start", Nil) /\ tokens' = tokens - 1 /\ failed' = failed + 1
        /\ ctx' = ctx /\ runs' = [runs EXCEPT ![evals[w].run] = r]
    BY DEF StartFails, Released
  <1>3. RunShape(a)
    <2>1. RunShape(runs[evals[w].run]) /\ "failed" \in Outcomes
      BY <1>1 DEF Shapes, Outcomes
    <2> QED BY <2>1, AbandonedShape
  <1> HIDE DEF a
  <1>4. RunShape(r) /\ r.store \notin {"pending", "running"}
    BY <1>3 DEF RunShape, Stores, Terminal
  <1> HIDE DEF r
  <1> QED BY <1>1, <1>2, <1>4, ReturnStep

\* Start starts the run, or refuses one that was stopped.
LEMMA StartStep ==
  ASSUME EvalOK, NEW w \in Workers, Starts(w)
  PROVE  EvalOK' /\ Stepped(w)
  <1> DEFINE i == evals[w].run
  <1>1. /\ evals[w].pc = "start" /\ Watches(w) /\ i \in 1..Len(runs) /\ Shapes /\ ctx' = ctx
        /\ RunShape(runs[i]) /\ runs[i].store \in {"pending", "stopped"}
    BY DEF Starts, Watches, EvalOK, RunsWatched, Shapes
  <1>2. CASE runs[i].store = "pending"
    <2> DEFINE r == [runs[i] EXCEPT !.store = "running", !.status = "running"]
    <2>1. /\ runs' = [runs EXCEPT ![i].store = "running", ![i].status = "running"]
          /\ evals' = [evals EXCEPT ![w].pc = "poll"] /\ UNCHANGED <<failed, tokens>>
      BY <1>2 DEF Starts
    <2>2. runs' = [runs EXCEPT ![i] = r]
      BY <1>1, <2>1 DEF Shapes, IsSequence
    <2>3. RunShape(r) /\ r.store = "running"
      BY <1>1 DEF RunShape, Stores, Statuses
    <2> HIDE DEF r
    <2>4. Touches(i) /\ runs'[i] = r
      BY <1>1, <2>2, <2>3, RunTouched
    <2>5. Moves(w) /\ evals'[w].pc = "poll" /\ evals'[w].run = i
      BY <1>1, <2>1 DEF Shapes, Moves, EvalShape
    <2> HIDE DEF i
    <2>6. Shapes'
      <3>1. \A j \in 1..Len(runs') : RunShape(runs'[j])
        BY <1>1, <2>4 DEF Shapes, Touches
      <3> QED BY <1>1, <2>1, <2>4, <2>5, <3>1 DEF Shapes, Moves, Touches
    <2>7. \A v \in Workers : evals'[v].run = evals[v].run /\ (Watches(v)' <=> Watches(v))
      BY <1>1, <2>5 DEF Moves, Watches, i
    <2>8. \A v \in Workers : Watches(v) /\ v # w =>
            runs'[evals[v].run] = runs[evals[v].run] /\ evals'[v] = evals[v]
      BY <1>1, <2>4, <2>5 DEF EvalOK, RunsWatched, Touches, Moves, i
    <2>9. RunsWatched'
      <3>1. \A v \in Workers : Watches(v)' => evals'[v].run \in 1..Len(runs')
        BY <2>4, <2>7 DEF EvalOK, RunsWatched, Touches
      <3>2. \A u, v \in Workers :
              Watches(u)' /\ Watches(v)' /\ evals'[u].run = evals'[v].run => u = v
        BY <2>7 DEF EvalOK, RunsWatched
      <3>3. ASSUME NEW v \in Workers
            PROVE  /\ evals'[v].pc = "start" =>
                        runs'[evals'[v].run].store \in {"pending", "stopped"}
                   /\ evals'[v].pc = "poll" => runs'[evals'[v].run].store # "pending"
        <4>1. CASE v = w
          BY <2>3, <2>4, <2>5, <4>1
        <4>2. CASE v # w
          BY <2>7, <2>8, <4>2 DEF EvalOK, RunsWatched, Watches
        <4> QED BY <4>1, <4>2
      <3>4. ASSUME NEW j \in 1..Len(runs'), runs'[j].store \in {"pending", "running"}
            PROVE  \E v \in Workers : evals'[v].run = j /\ Watches(v)'
        <4>1. j \in 1..Len(runs)
          BY <2>4 DEF Touches
        <4>2. runs[j].store \in {"pending", "running"}
          BY <1>2, <2>4, <3>4, <4>1 DEF Touches
        <4> QED BY <2>7, <4>1, <4>2 DEF EvalOK, RunsWatched
      <3> QED BY <3>1, <3>2, <3>3, <3>4 DEF RunsWatched, Watches
    <2>10. w \in Watching /\ w \in Watching' /\ w \in Passed /\ w \in Passed'
      BY <1>1, <2>5 DEF Watching, Passed
    <2>11. /\ Cardinality(Watching') = Cardinality(Watching)
           /\ Cardinality(Passed) \in Nat /\ Cardinality(Passed') = Cardinality(Passed)
      BY <2>5, <2>10, CountsMove
    <2>12. EvalOK'
      BY <2>1, <2>6, <2>9, <2>11 DEF EvalOK
    <2>13. /\ Ahead(w) = 0 /\ Ahead(w)' = 0 /\ failed \in Nat /\ Len(runs') = Len(runs)
           /\ Len(runs) \in Nat
      BY <1>1, <2>4, <2>5 DEF Ahead, Shapes, Touches, IsSequence
    <2> QED BY <1>1, <2>1, <2>5, <2>11, <2>12, <2>13 DEF Stepped
  <1>3. CASE runs[i].store # "pending"
    <2> DEFINE r == Abandoned(runs[i], "failed")
    <2>1. /\ evals' = Returned(w, "start", Nil) /\ tokens' = tokens - 1 /\ failed' = failed + 1
          /\ runs' = [runs EXCEPT ![evals[w].run] = r]
      BY <1>3 DEF Starts, Released
    <2>2. RunShape(r) /\ r.store \notin {"pending", "running"}
      <3>1. "failed" \in Outcomes
        BY DEF Outcomes
      <3> QED BY <1>1, <1>3, <3>1, AbandonedShape
    <2> HIDE DEF r
    <2> QED BY <1>1, <2>1, <2>2, ReturnStep
  <1> QED BY <1>2, <1>3

\* The candidate's deadline, or the experiment's context.
LEMMA TimeoutStep ==
  ASSUME EvalOK, NEW w \in Workers, TimesOut(w)
  PROVE  EvalOK' /\ Stepped(w)
  <1> DEFINE i == evals[w].run
             o == IF ctx = "canceled" THEN "cancelled" ELSE "timed_out"
             a == Abandoned(runs[i], o)
             r == [a EXCEPT !.store = IF runs[i].store = "running" THEN "stopped" ELSE runs[i].store]
  <1>1. /\ evals[w].pc = "poll" /\ Watches(w) /\ i \in 1..Len(runs) /\ Shapes
        /\ RunShape(runs[i]) /\ runs[i].store # "pending"
    BY DEF TimesOut, Watches, EvalOK, RunsWatched, Shapes
  <1>2. /\ evals' = Returned(w, IF ctx = "live" THEN "deadline" ELSE ctx, Nil)
        /\ tokens' = tokens - 1 /\ failed' = failed + 1 /\ ctx' = ctx
        /\ runs' = [runs EXCEPT ![i] = r]
    BY DEF TimesOut, Released
  <1>3. o \in Outcomes
    BY DEF Outcomes
  <1> HIDE DEF o
  <1>4. RunShape(a) /\ a.store = runs[i].store
    BY <1>1, <1>3, AbandonedShape
  <1> HIDE DEF a
  <1>5. RunShape(r) /\ r.store \notin {"pending", "running"}
    BY <1>1, <1>4 DEF RunShape, Stores, Terminal
  <1> HIDE DEF r
  <1> QED BY <1>1, <1>2, <1>5, ReturnStep

\* A poll that finds the run ended or gone.
LEMMA PollStep ==
  ASSUME EvalOK, NEW w \in Workers, Polls(w)
  PROVE  EvalOK' /\ Stepped(w)
  <1> DEFINE i == evals[w].run
             r == runs[i]
  <1>1. /\ evals[w].pc = "poll" /\ Watches(w) /\ i \in 1..Len(runs) /\ Shapes
        /\ RunShape(r) /\ r.store \in Terminal \cup {"evicted"}
        /\ tokens' = tokens - 1 /\ ctx' = ctx
    BY DEF Polls, Watches, EvalOK, RunsWatched, Shapes, Released
  <1>2. r.store \notin {"pending", "running"}
    BY <1>1 DEF Terminal
  <1>3. CASE r.store = "completed"
    <2> DEFINE q == [r EXCEPT !.status = "completed", !.outcome = "succeeded"]
    <2>1. /\ evals' = Returned(w, "", r.metrics) /\ failed' = failed
          /\ runs' = [runs EXCEPT ![i] = q]
      BY <1>3 DEF Polls
    <2>2. RunShape(q) /\ q.store \notin {"pending", "running"}
      BY <1>1, <1>2 DEF RunShape, Statuses, Outcomes
    <2> HIDE DEF q
    <2> QED BY <1>1, <2>1, <2>2, ReturnStep
  <1>4. CASE r.store = "evicted"
    <2> DEFINE q == [r EXCEPT !.status = "failed"]
    <2>1. /\ evals' = Returned(w, "missing", Nil) /\ failed' = failed
          /\ runs' = [runs EXCEPT ![i].status = "failed"]
      BY <1>4 DEF Polls
    <2>2. runs' = [runs EXCEPT ![i] = q]
      BY <2>1
    <2>3. RunShape(q) /\ q.store \notin {"pending", "running"}
      BY <1>1, <1>2 DEF RunShape, Statuses
    <2> HIDE DEF q
    <2> QED BY <1>1, <2>1, <2>2, <2>3, ReturnStep
  <1>5. CASE r.store \notin {"completed", "evicted"}
    <2> DEFINE o == IF r.store = "limit" THEN "limit_exceeded" ELSE "failed"
               q == Abandoned(r, o)
    <2>1. /\ evals' = Returned(w, "failed", Nil) /\ failed' = failed + 1
          /\ runs' = [runs EXCEPT ![i] = q]
      BY <1>5 DEF Polls
    <2>2. o \in Outcomes
      BY DEF Outcomes
    <2> HIDE DEF o
    <2>3. RunShape(q) /\ q.store \notin {"pending", "running"}
      BY <1>1, <1>2, <2>2, AbandonedShape
    <2> HIDE DEF q
    <2> QED BY <1>1, <2>1, <2>3, ReturnStep
  <1> QED BY <1>3, <1>4, <1>5

\* Every step of an evaluation.
LEMMA EvaluationSteps ==
  ASSUME EvalOK, NEW w \in Workers, Evaluates(w)
  PROVE  EvalOK' /\ Stepped(w)
  BY CheckStep, GiveUpStep, CreateStep, StartFailStep, StartStep, TimeoutStep, PollStep
     DEF Evaluates

\* A simulation ends, or its record is evicted.
LEMMA SimulationSteps ==
  ASSUME EvalOK, NEW i \in DOMAIN runs, RunSteps(i)
  PROVE  EvalOK' /\ UNCHANGED <<ctx, failed, tokens, evals>> /\ Len(runs') = Len(runs)
  <1>1. Shapes /\ i \in 1..Len(runs) /\ RunShape(runs[i])
    BY DEF EvalOK, Shapes, IsSequence
  <1>2. PICK r :
          /\ runs' = [runs EXCEPT ![i] = r] /\ RunShape(r)
          /\ UNCHANGED <<ctx, failed, tokens, evals>>
          /\ \/ runs[i].store = "running" /\ r.store # "pending"
             \/ /\ runs[i].store \in Terminal /\ r.store = "evicted"
                /\ \E w \in Workers : evals[w].run = i /\ evals[w].pc = "poll"
    <2>1. CASE RunCompletes(i)
      <3>1. PICK m \in Measured(runs[i].config) :
              runs' = [runs EXCEPT ![i].store = "completed", ![i].metrics = m]
        BY <2>1 DEF RunCompletes
      <3> DEFINE r == [runs[i] EXCEPT !.store = "completed", !.metrics = m]
      <3>2. runs' = [runs EXCEPT ![i] = r]
        BY <1>1, <3>1 DEF Shapes, IsSequence
      <3>3. RunShape(r) /\ r.store # "pending"
        BY <1>1 DEF RunShape, Stores, Terminal
      <3> HIDE DEF r
      <3> QED BY <2>1, <3>2, <3>3 DEF RunCompletes
    <2>2. CASE RunFails(i)
      <3>1. PICK s \in {"failed", "limit"} : runs' = [runs EXCEPT ![i].store = s]
        BY <2>2 DEF RunFails
      <3> DEFINE r == [runs[i] EXCEPT !.store = s]
      <3>2. runs' = [runs EXCEPT ![i] = r]
        BY <3>1
      <3>3. RunShape(r) /\ r.store # "pending"
        BY <1>1 DEF RunShape, Stores, Terminal
      <3> HIDE DEF r
      <3> QED BY <2>2, <3>2, <3>3 DEF RunFails
    <2>3. CASE RunEvicted(i)
      <3> DEFINE r == [runs[i] EXCEPT !.store = "evicted"]
      <3>1. runs' = [runs EXCEPT ![i] = r]
        BY <2>3 DEF RunEvicted
      <3>2. RunShape(r) /\ r.store = "evicted"
        BY <1>1 DEF RunShape, Stores
      <3> HIDE DEF r
      <3> QED BY <2>3, <3>1, <3>2 DEF RunEvicted
    <2> QED BY <2>1, <2>2, <2>3 DEF RunSteps
  <1>3. Touches(i) /\ runs'[i] = r
    BY <1>1, <1>2, RunTouched
  <1>4. \A j \in 1..Len(runs) : RunShape(runs'[j])
    BY <1>2, <1>3 DEF EvalOK, Shapes, Touches
  <1>5. \A j \in 1..Len(runs) : j # i => runs'[j].store = runs[j].store
    BY <1>3 DEF Touches
  <1>6. EvalOK'
    BY <1>2, <1>3, <1>4, <1>5, StoresMove DEF Touches
  <1> QED BY <1>2, <1>3, <1>6 DEF Touches

\* The context of the experiment is done.
LEMMA ContextStep ==
  ASSUME EvalOK, ContextDone
  PROVE  EvalOK' /\ UNCHANGED <<failed, tokens, runs, evals>>
  <1>1. UNCHANGED <<failed, tokens, runs, evals>> /\ ctx' \in {"canceled", "deadline"}
    BY DEF ContextDone
  <1>2. Shapes' /\ RunsWatched' /\ Watching' = Watching
    BY <1>1 DEF EvalOK, Shapes, RunsWatched, Watching, Watches
  <1> QED BY <1>1, <1>2 DEF EvalOK

\* The caller starts an evaluation, or takes its answer.
LEMMA CallerSteps ==
  ASSUME EvalOK, NEW w \in Workers, evals[w].pc \in {"idle", "returned"},
         UNCHANGED <<ctx, failed, tokens, runs>>,
         (\E c : evals' = Called(w, c)) \/ evals' = [evals EXCEPT ![w] = Idle]
  PROVE  /\ EvalOK' /\ Moves(w)
         /\ (\E c : evals' = Called(w, c)) => evals'[w].pc = "gate"
         /\ evals' = [evals EXCEPT ![w] = Idle] => evals'[w].pc = "idle"
         /\ Cardinality(Passed') = Cardinality(Passed)
  <1>1. Shapes
    BY DEF EvalOK
  <1>2. (\E c : evals' = Called(w, c)) => Moves(w) /\ evals'[w].pc = "gate"
    BY <1>1, CalledMoves
  <1>3. evals' = [evals EXCEPT ![w] = Idle] => Moves(w) /\ evals'[w].pc = "idle"
    BY <1>1, TakenMoves
  <1>4. Moves(w) /\ evals'[w].pc \in {"gate", "idle"}
    BY <1>2, <1>3
  <1>5. EvalOK'
    BY <1>4, Outside DEF Watches
  <1>6. w \notin Passed /\ w \notin Passed'
    BY <1>4 DEF Passed
  <1>7. Cardinality(Passed') = Cardinality(Passed)
    BY <1>4, <1>6, CountsMove
  <1> QED BY <1>2, <1>3, <1>4, <1>5, <1>7

\* What the invariant says of the runs and the tokens.
LEMMA EvaluationFacts ==
  ASSUME EvalOK
  PROVE  /\ TokensExact /\ NoOrphans
         /\ ctx \in {"live", "canceled", "deadline"} /\ failed \in Nat
         /\ tokens \in 0..MaxConcurrentCandidates /\ Len(runs) \in Nat
         /\ DOMAIN runs = 1..Len(runs) /\ \A i \in DOMAIN runs : RunShape(runs[i])
         /\ Cardinality(Passed) \in Nat
  <1>1. DOMAIN runs = 1..Len(runs) /\ Len(runs) \in Nat
    BY DEF EvalOK, Shapes, IsSequence
  <1>2. TokensExact
    BY DEF EvalOK, Watching, TokensExact
  <1>3. NoOrphans
    BY <1>1 DEF EvalOK, RunsWatched, Watches, NoOrphans
  <1>4. IsFiniteSet(Watching) /\ IsFiniteSet(Passed)
    BY EvaluationConstants, FS_Subset DEF Watching, Passed
  <1>5. Cardinality(Watching) \in Nat /\ Cardinality(Passed) \in Nat
    BY <1>4, FS_CardinalityType
  <1>6. tokens \in 0..MaxConcurrentCandidates
    BY <1>5, EvaluationConstants DEF EvalOK
  <1> QED BY <1>1, <1>2, <1>3, <1>5, <1>6 DEF EvalOK, Shapes

\* Nothing is evaluated at the start.
LEMMA EvaluationInit == EvalInit => EvalOK
  <1> SUFFICES ASSUME EvalInit PROVE EvalOK
    OBVIOUS
  <1>1. /\ ctx = "live" /\ failed = 0 /\ tokens = 0 /\ runs = <<>>
        /\ evals = [w \in Workers |-> Idle]
    BY DEF EvalInit
  <1>2. IsSequence(<<>>) /\ Len(<<>>) = 0
    BY DEF IsSequence
  <1>3. Shapes
    <2>1. EvalShape(Idle)
      BY DEF Idle, EvalShape
    <2>2. 1..Len(runs) = {} /\ IsSequence(runs)
      BY <1>1, <1>2
    <2> QED BY <1>1, <2>1, <2>2 DEF Shapes
  <1>4. \A w \in Workers : ~Watches(w) /\ evals[w].pc = "idle"
    BY <1>1 DEF Idle, Watches
  <1>5. RunsWatched
    BY <1>1, <1>2, <1>4 DEF RunsWatched
  <1>6. Watching = {}
    BY <1>4 DEF Watching, Watches
  <1>7. tokens = Cardinality(Watching) /\ tokens <= MaxConcurrentCandidates
    BY <1>1, <1>6, FS_EmptySet, EvaluationConstants
  <1> QED BY <1>3, <1>5, <1>7 DEF EvalOK
=============================================================================
