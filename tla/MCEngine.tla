------------------------------ MODULE MCEngine ------------------------------
(***************************************************************************)
(* Small instances of Engine and of Workload for TLC.  The two meet in the *)
(* event queue, of which each keeps what it needs: a behaviour exercises   *)
(* one of them, and the other stays at rest.                               *)
(***************************************************************************)
EXTENDS Engine, Workload

VARIABLE part

allVars == <<engineVars, workloadVars, part>>

SmallArrivals ==
  {[type |-> "poisson", num |-> 1, den |-> 1], [type |-> "constant", num |-> 1, den |-> 2],
   [type |-> "constant", num |-> 1, den |-> 1], [type |-> "bursty", num |-> 1, den |-> 1],
   [type |-> "uniform", num |-> 1, den |-> 2], [type |-> "uniform", num |-> 3, den |-> 5]}

\* No generator, no loop: the workload of a run that is over.
WorkloadRests ==
  /\ realTime = FALSE /\ now = 0 /\ genAt = None /\ guard = FALSE /\ done = TRUE
  /\ pending = [p \in Patterns |-> [t \in Times |-> 0]]
  /\ pat = [p \in Patterns |-> Fresh(CHOOSE a \in Arrivals : a.type = "poisson")]
  /\ gen = [Round(0) EXCEPT !.step = "idle"]
  /\ phase = "ended" /\ updates = 0 /\ total = [p \in Patterns |-> 0]

EnginePart(A) == part = "engine" /\ A /\ UNCHANGED <<workloadVars, part>>
WorkloadPart(A) == part = "workload" /\ A /\ UNCHANGED <<engineVars, part>>

PartsInit ==
  /\ EngineInit
  /\ \/ part = "engine" /\ WorkloadRests
     \/ part = "workload" /\ WorkloadInit

PartsSpec ==
  /\ PartsInit /\ [][EnginePart(Next) \/ WorkloadPart(WorkloadNext)]_allVars
  /\ WF_allVars(EnginePart(LoopStep))
  /\ \A p \in Procs : WF_allVars(EnginePart(ScheduleStep(p)))
  /\ WF_allVars(WorkloadPart(GenStep)) /\ WF_allVars(WorkloadPart(LoopProceeds))

\* Run returns, and so does every round of the generator.
EngineEnds == RunReturns /\ GenerationEnds
=============================================================================
