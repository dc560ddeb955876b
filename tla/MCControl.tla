------------------------------ MODULE MCControl ------------------------------
(***************************************************************************)
(* Small instances of Policies and of Controller, what regulates a run     *)
(* from within and from outside, for TLC.  The two share no state: a       *)
(* behaviour exercises one of them, and the other stays as it began.       *)
(***************************************************************************)
EXTENDS Policies

\* Two tokens a second refilled over three ticks, so that every refill rounds.
SmallBackoffs == [kind : {"exponential", "linear", "constant"}, base : {0, 1, 7, 60}]
SmallLoads == {0, 30, 70, 75, 130, 200, 500}

-----------------------------------------------------------------------------
(* Scenarios of the controller: one for each primary target, one for the   *)
(* hosts, one for the limits of the run.                                   *)

Option ==
  [primary |-> "p95", p95 |-> TRUE, vertCPU |-> TRUE, vertMem |-> TRUE, horizontal |-> TRUE,
   minReplicas |-> 1, minCores |-> 1, minMem |-> 1, minHosts |-> 1, maxHosts |-> 2, hostStep |-> 1,
   step |-> 1, stabTicks |-> 2, cooldown |-> 0, maxSteps |-> 0, maxNoop |-> 0, lease |-> FALSE,
   cpuGate |-> FALSE, memGate |-> FALSE, hostDownCPU |-> FALSE, hostDownMem |-> FALSE,
   initialCores |-> 1, initialMem |-> 1]

Plant == [hosts |-> 1, hostCores |-> 1, hostMem |-> 1, replicas |-> 2, cores |-> 2, mem |-> 3]

\* Observations in which only the figures given vary.
Observations(p95, cpu, mem, load, pressure, err, room) ==
  [p95 : p95, cpu : cpu, mem : mem, hostCPU : {"mid"}, hostMem : {"mid"}, load : load,
   pressure : pressure, err : err, room : room, spare : {TRUE}, slack : {TRUE}, expired : {FALSE}]
HostObservations ==
  [p95 : {"low", "mid", "high"}, cpu : {"mid"}, mem : {"mid"}, hostCPU : {"low", "mid", "hot"},
   hostMem : {"low", "mid"}, load : {"idle"}, pressure : {"none"}, err : {0}, room : {TRUE},
   spare : BOOLEAN, slack : {TRUE}, expired : {FALSE}]

LatencyScenario ==
  [opt |-> [Option EXCEPT !.minReplicas = 2],
   plant |-> Plant, userScales |-> TRUE,
   observations |-> Observations({"low", "mid", "near", "high"}, {"low", "hot"}, {"mid"}, {"idle", "crowded"},
                                 {"none", "load", "lost"}, {0, 1}, BOOLEAN)]
CpuScenario ==
  [opt |-> [Option EXCEPT !.primary = "cpu", !.cpuGate = TRUE],
   plant |-> [Plant EXCEPT !.cores = 3], userScales |-> TRUE,
   observations |-> Observations({"low", "near", "high"}, {"low", "mid", "high", "hot"}, {"mid"},
                                 {"idle", "active", "crowded"}, {"none", "lost"}, {0}, BOOLEAN)]
MemoryScenario ==
  [opt |-> [Option EXCEPT !.primary = "memory", !.p95 = FALSE, !.memGate = TRUE, !.minMem = 2],
   plant |-> [Plant EXCEPT !.replicas = 1], userScales |-> FALSE,
   observations |-> {[o EXCEPT !.slack = b] : b \in BOOLEAN,
                     o \in Observations({"mid"}, {"low", "hot"}, {"low", "mid", "high"},
                                        {"idle", "crowded"}, {"none"}, {0}, BOOLEAN)}]
HostScenario ==
  [opt |-> [Option EXCEPT !.hostDownCPU = TRUE, !.hostDownMem = TRUE, !.maxSteps = 4, !.maxNoop = 2],
   plant |-> [Plant EXCEPT !.hostMem = 2], userScales |-> FALSE,
   observations |-> HostObservations]
LimitScenario ==
  [opt |-> [Option EXCEPT !.cooldown = 3, !.maxSteps = 3, !.maxNoop = 2, !.lease = TRUE],
   plant |-> Plant, userScales |-> TRUE,
   observations |-> {[o EXCEPT !.expired = b] : b \in BOOLEAN,
                     o \in Observations({"low", "mid", "high"}, {"low"}, {"mid"}, {"idle"}, {"none"}, {-1, 0}, {TRUE})}]

ControlScenarios ==
  [latency |-> LatencyScenario, cpu |-> CpuScenario, memory |-> MemoryScenario, hosts |-> HostScenario,
   limits |-> LimitScenario]

-----------------------------------------------------------------------------
VARIABLES part, sc, plant, stable, since, steps, noop, prevErr, ended, alive, calm, seen

C == INSTANCE Controller WITH Scenarios <- ControlScenarios, MaxReplicas <- 3, MaxCores <- 3,
                              MaxHostCores <- 3, StepCap <- 8

controlled == <<sc, plant, stable, since, steps, noop, prevErr, ended, alive, calm, seen>>

AtRest == retry = NoRetry /\ fleet = NoFleet

ControlInit ==
  /\ Init /\ C!Init
  /\ part \in {"policies", "controller"}
  /\ part = "policies" => sc = "limits"
  /\ part = "controller" => AtRest

ControlNext ==
  /\ UNCHANGED part
  /\ \/ part = "policies" /\ Next /\ UNCHANGED controlled
     \/ part = "controller" /\ C!Next /\ UNCHANGED vars

all == <<vars, controlled, part>>
Answers == RecordSuccess \/ RecordFailure
Alone == UNCHANGED controlled /\ UNCHANGED part
Ruled == UNCHANGED vars /\ UNCHANGED part

\* Requests keep arriving, an admitted one finishes and simulation time passes: the engine goes on
\* processing events.  The controller's ticker keeps ticking (only runs with limits need it), and a
\* cancelled context ends its loop.
ControlSpec ==
  /\ ControlInit /\ [][ControlNext]_all
  /\ WF_all(part = "policies" /\ Admission /\ AllowRequest /\ Alone)
  /\ WF_all(part = "policies" /\ Admission /\ Tick /\ Alone)
  /\ WF_all(part = "policies" /\ Admission /\ Answers /\ Alone)
  /\ WF_all(part = "controller" /\ C!LimitedTick /\ Ruled)
  /\ WF_all(part = "controller" /\ C!ContextDone /\ Ruled)

-----------------------------------------------------------------------------
\* runOnlineController keeps its state and the hosts within their bounds, overruns its budget of
\* steps by at most one tick, shrinks nothing while load or the guard is seen and no replica before
\* the stabilization window has passed, and respects the floors whatever clients do (Controller).
ControllerSafe ==
  [](C!TypeOK /\ C!StepBudget) /\ [][C!ShrinksSafely /\ C!KeepsBounds]_controlled

\* An open circuit is tried again (Policies), and with limits on steps and on intervals without a
\* change the controller signals the end, and its context ends (Controller).
ControlProgress == BreakerTriesAgain /\ (part = "controller" => C!ControllerEnds)
=============================================================================
