----------------------------- MODULE Controller -----------------------------
(***************************************************************************)
(* The online controller (runOnlineController): at every tick of its       *)
(* ticker it reads the metrics of the run and changes the hosts, the       *)
(* replicas and the size of a service's instances.                         *)
(*                                                                         *)
(* What the controller reads is an observation: each figure is one of the  *)
(* classes the controller's thresholds cut it into, chosen anew at every   *)
(* tick, with the answers the resource manager would give (module          *)
(* Resources models how it comes by them).  One service is controlled; the *)
(* loop over the services repeats the same steps with counters of its own  *)
(* for each.                                                               *)
(***************************************************************************)
EXTENDS Integers, FiniteSets, FiniteSetsExt

CONSTANTS Scenarios,     \* by name: the run's optimization config, the state it starts from, and
                         \* the observations it may meet
          MaxReplicas, MaxCores,   \* bounds: what the hosts have room for
          MaxHostCores,  \* bound: host capacity is not raised beyond
          StepCap        \* bound: steps are counted up to here, and only where they are limited

VARIABLES sc,       \* the scenario
          plant,    \* [hosts, hostCores, hostMem, replicas, cores, mem]
          stable,   \* the stabilization counters
          since,    \* ticks since the last change, cut off at the cooldown
          steps,    \* stepIndex
          noop,     \* noopStreak
          prevErr,  \* the error fraction of the last tick that looked, -1 before
          ended,    \* the completion reason signalled first, or "none"
          alive,    \* the controller's context is not done
          calm,     \* ghost: ticks in a row at which the service looked underloaded
          seen      \* ghost: who moved last, and what the controller saw

vars == <<sc, plant, stable, since, steps, noop, prevErr, ended, alive, calm, seen>>

opt == Scenarios[sc].opt
NoCounts == [rep |-> 0, hostIn |-> 0, hostCPU |-> 0, hostMem |-> 0, cpu |-> 0, mem |-> 0]

----------------------------------------------------------------------------
(* What an observation means *)

P95Above(o) == opt.p95 /\ o.p95 = "high"     \* over 105 % of the target
P95Below(o) == opt.p95 /\ o.p95 = "low"      \* under 70 %
p95OkForDown(o) == ~P95Above(o)

Pressed(o) == o.pressure = "load"            \* backlog, in flight or an old message

Overloaded(o) ==
  \/ Pressed(o)
  \/ opt.primary = "cpu" /\ o.cpu \in {"high", "hot"}
  \/ opt.primary = "memory" /\ o.mem = "high"
  \/ opt.primary = "p95" /\ P95Above(o)

LooksIdle(o) ==
  /\ ~Overloaded(o)
  /\ \/ opt.primary = "cpu" /\ o.cpu = "low" /\ p95OkForDown(o)
     \/ opt.primary = "memory" /\ o.mem = "low" /\ p95OkForDown(o)
     \/ opt.primary = "p95" /\ P95Below(o)

allowScaleDownReplicas(o) ==
  o.cpu # "hot" /\ (opt.cpuGate => o.cpu = "low") /\ (opt.memGate => o.mem = "low")

onlineScaleDownGuard(o) ==
  \/ opt.p95 /\ o.p95 \in {"near", "high"}
  \/ o.load = "crowded"
  \/ o.pressure # "none"
  \/ prevErr >= 0 /\ o.err > prevErr

----------------------------------------------------------------------------
(* Hosts.  Each part takes the tick so far, [plant, stable, steps], and goes on from it. *)

Counted(t, c, wanted) == [t EXCEPT !.stable[c] = IF wanted THEN Min({@ + 1, opt.stabTicks}) ELSE 0]
Due(t, c) == t.stable[c] >= opt.stabTicks
Stepped(t, p) == [t EXCEPT !.plant = p, !.steps = @ + 1]

HostsUp(o, t) ==
  LET p == t.plant
  IN CASE P95Above(o) /\ o.hostCPU = "hot" /\ p.hosts < opt.maxHosts ->
            Stepped(t, [p EXCEPT !.hosts = @ + 1])
       [] P95Above(o) /\ o.hostCPU = "hot" /\ p.hosts >= opt.maxHosts ->
            Stepped(t, [p EXCEPT !.hostCores = Min({@ + opt.hostStep, MaxHostCores})])
       [] OTHER -> t

\* Scale-in finds an empty host to remove, or changes nothing.  The count of hosts is the one
\* read when the tick began.
HostsIn(o, t) ==
  LET wanted == opt.hostDownCPU /\ P95Below(o) /\ plant.hosts > opt.minHosts /\ o.hostCPU = "low"
      c == Counted(t, "hostIn", wanted)
  IN IF wanted /\ Due(c, "hostIn") /\ o.spare
     THEN [Stepped(c, [c.plant EXCEPT !.hosts = @ - 1]) EXCEPT !.stable.hostIn = 0] ELSE c

HostCapacityDown(o, t, allowed, util, counter, field, initial) ==
  LET wanted == allowed /\ plant.hosts >= opt.minHosts /\ util = "low" /\ t.plant[field] > initial
      c == Counted(t, counter, wanted)
  IN IF wanted /\ Due(c, counter) /\ o.spare
     THEN [Stepped(c, [c.plant EXCEPT ![field] = Max({1, @ - opt.hostStep})]) EXCEPT !.stable[counter] = 0]
     ELSE c

Hosts(o, t) ==
  LET up == HostsUp(o, t)
      in == HostsIn(o, up)
      cpu == HostCapacityDown(o, in, opt.hostDownCPU, o.hostCPU, "hostCPU", "hostCores", opt.initialCores)
  IN HostCapacityDown(o, cpu, opt.hostDownMem, o.hostMem, "hostMem", "hostMem", opt.initialMem)

----------------------------------------------------------------------------
(* The service *)

ScalesCores(o) == Overloaded(o) /\ opt.vertCPU /\ o.cpu = "hot"

\* The replicas the controller would like, before stabilization.
Wished(o) ==
  CASE Overloaded(o) /\ ~ScalesCores(o) /\ opt.horizontal -> plant.replicas + opt.step
    [] LooksIdle(o) /\ plant.replicas > 1 /\ opt.horizontal /\ allowScaleDownReplicas(o) -> plant.replicas - 1
    [] OTHER -> plant.replicas

\* The floor is not looked at.
SmallerAnyway(size, floor, step) == size - step

Smaller(size, floor, step) == IF floor > 0 THEN Max({floor, size - step}) ELSE size - step

\* Vertical downscale of cores (cpu_utilization) or memory (memory_utilization).
WantsLess(o, primary, allowed, util, size, floor) ==
  /\ opt.primary = primary /\ allowed /\ util = "low" /\ p95OkForDown(o)
  /\ Wished(o) >= plant.replicas /\ allowScaleDownReplicas(o) /\ ~onlineScaleDownGuard(o)
  /\ Smaller(size, floor, opt.step) < size
WantsFewerCores(o) == WantsLess(o, "cpu", opt.vertCPU, o.cpu, plant.cores, opt.minCores)
WantsLessMemory(o) == WantsLess(o, "memory", opt.vertMem, o.mem, plant.mem, opt.minMem)

\* The replicas after stabilization, the guard and the floor, and the counter.
Settled(o, t) ==
  LET down == Wished(o) < plant.replicas
      c == Counted(t, "rep", down)
      blocked == down /\ Due(c, "rep") /\ onlineScaleDownGuard(o)
      n == IF down /\ (~Due(c, "rep") \/ blocked) THEN plant.replicas ELSE Wished(o)
  IN [t |-> IF blocked THEN [c EXCEPT !.stable.rep = 0] ELSE c,
      replicas |-> Max({n, opt.minReplicas})]

\* UpdateServiceReplicas: the resource manager places the new replicas, or refuses.
ReplicasUpdated(o, t, n) ==
  IF n = plant.replicas \/ (n > plant.replicas /\ (~o.room \/ n > MaxReplicas))
  THEN t ELSE Stepped(t, [t.plant EXCEPT !.replicas = n])

\* UpdateServiceResources refuses fewer cores while an instance is active, and more cores when
\* a host has no room for them.
CoresUpdate(o, n) == IF n < plant.cores THEN o.load = "idle" ELSE o.room /\ n <= MaxCores

\* After the update of the cores was refused: in the utilization modes always, in p95 mode only
\* while p95 is above the target.
Fallback(o, n) ==
  IF opt.horizontal /\ (opt.primary # "p95" \/ P95Above(o)) THEN plant.replicas + opt.step ELSE n

Service(o, t0) ==
  LET c1 == Counted(t0, "cpu", WantsFewerCores(o))
      lessCores == WantsFewerCores(o) /\ Due(c1, "cpu") /\ Smaller(plant.cores, opt.minCores, opt.step) > 0
      t1 == IF lessCores THEN [c1 EXCEPT !.stable.cpu = 0] ELSE c1
      cores == IF lessCores THEN Smaller(plant.cores, opt.minCores, opt.step)
               ELSE IF ScalesCores(o) THEN plant.cores + opt.step ELSE plant.cores
      c2 == Counted(t1, "mem", WantsLessMemory(o))
      lessMem == WantsLessMemory(o) /\ Due(c2, "mem") /\ Smaller(plant.mem, opt.minMem, opt.step) > 0
      t2 == IF lessMem THEN [c2 EXCEPT !.stable.mem = 0] ELSE c2
      mem == IF lessMem THEN Smaller(plant.mem, opt.minMem, opt.step) ELSE plant.mem
      s == Settled(o, t2)
      refused == cores # plant.cores /\ ~CoresUpdate(o, cores)
  IN CASE cores # plant.cores /\ CoresUpdate(o, cores) -> Stepped(s.t, [s.t.plant EXCEPT !.cores = cores])
       [] ~(cores # plant.cores /\ ~refused) /\ mem < plant.mem /\ o.slack ->
            Stepped(s.t, [s.t.plant EXCEPT !.mem = mem])
       [] OTHER -> ReplicasUpdated(o, s.t, IF refused THEN Fallback(o, s.replicas) ELSE s.replicas)

----------------------------------------------------------------------------
(* A tick *)

Signals(reason) == ended' = IF ended = "none" THEN reason ELSE ended

Saw(o) ==
  seen' = [by |-> "controller", loaded |-> Overloaded(o), guarded |-> onlineScaleDownGuard(o)]

Elapsed == Min({since + 1, opt.cooldown})

WithinSteps == opt.maxSteps > 0 => steps < opt.maxSteps

LeaseExpires(o) ==
  /\ alive /\ opt.lease /\ o.expired
  /\ Signals("heartbeat_expired") /\ Saw(o) /\ since' = Elapsed
  /\ UNCHANGED <<sc, plant, stable, steps, noop, prevErr, alive, calm>>

\* The end is not signalled.
OutOfStepsQuietly(o) ==
  /\ alive /\ ~(opt.lease /\ o.expired) /\ ~WithinSteps
  /\ Saw(o) /\ since' = Elapsed
  /\ UNCHANGED <<sc, plant, stable, steps, noop, prevErr, ended, alive, calm>>

OutOfSteps(o) ==
  /\ alive /\ ~(opt.lease /\ o.expired) /\ ~WithinSteps
  /\ Signals("controller_steps") /\ Saw(o) /\ since' = Elapsed
  /\ UNCHANGED <<sc, plant, stable, steps, noop, prevErr, alive, calm>>

CoolsDown(o) ==
  /\ alive /\ ~(opt.lease /\ o.expired) /\ WithinSteps
  /\ since + 1 < opt.cooldown
  /\ since' = Elapsed /\ Saw(o)
  /\ UNCHANGED <<sc, plant, stable, steps, noop, prevErr, ended, alive, calm>>

Adjusts(o) ==
  \E h \in {Hosts(o, [plant |-> plant, stable |-> stable, steps |-> steps])} :
  \E t \in {Service(o, h)} :
  LET changed == t.steps > steps
      quiet == Min({opt.maxNoop, noop + 1})
  IN /\ alive /\ ~(opt.lease /\ o.expired) /\ WithinSteps
     /\ since + 1 >= opt.cooldown
     /\ plant' = t.plant
     /\ stable' = t.stable
     /\ steps' = IF opt.maxSteps > 0 THEN Min({StepCap, t.steps}) ELSE 0
     /\ since' = IF changed THEN 0 ELSE Elapsed
     /\ prevErr' = IF o.err >= 0 THEN o.err ELSE prevErr
     /\ noop' = IF opt.maxNoop = 0 \/ changed THEN 0 ELSE quiet
     /\ IF opt.maxNoop > 0 /\ ~changed /\ quiet >= opt.maxNoop THEN Signals("converged") ELSE UNCHANGED ended
     /\ calm' = IF LooksIdle(o) THEN Min({calm + 1, opt.stabTicks}) ELSE 0
     /\ Saw(o)
     /\ UNCHANGED <<sc, alive>>

Tick == \E o \in Scenarios[sc].observations : LeaseExpires(o) \/ OutOfSteps(o) \/ CoolsDown(o) \/ Adjusts(o)

\* A client changes the replicas through the API meanwhile.
UserScales(n) ==
  /\ alive /\ Scenarios[sc].userScales /\ n # plant.replicas
  /\ plant' = [plant EXCEPT !.replicas = n]
  /\ seen' = [seen EXCEPT !.by = "user"]
  /\ UNCHANGED <<sc, stable, since, steps, noop, prevErr, ended, alive, calm>>

\* Whoever signalled the end, or stopped the run, cancels the controller's context.
ContextDone ==
  /\ alive /\ ended # "none"
  /\ alive' = FALSE
  /\ UNCHANGED <<sc, plant, stable, since, steps, noop, prevErr, ended, calm, seen>>

Init ==
  /\ sc \in DOMAIN Scenarios
  /\ plant = Scenarios[sc].plant
  /\ stable = NoCounts /\ since = opt.cooldown /\ steps = 0 /\ noop = 0 /\ prevErr = -1
  /\ ended = "none" /\ alive = TRUE /\ calm = 0
  /\ seen = [by |-> "none", loaded |-> FALSE, guarded |-> FALSE]

Next == Tick \/ (\E n \in 1 .. MaxReplicas : UserScales(n)) \/ ContextDone

Spec == Init /\ [][Next]_vars
\* A tick of a run with limits.
LimitedTick == opt.maxSteps > 0 /\ opt.maxNoop > 0 /\ Tick

----------------------------------------------------------------------------
(* Properties *)

ByController == seen'.by = "controller"
Shrinks == plant'.replicas < plant.replicas \/ plant'.cores < plant.cores \/ plant'.mem < plant.mem

TypeOK ==
  /\ plant.hosts \in 1 .. opt.maxHosts /\ plant.hostCores \in 1 .. MaxHostCores /\ plant.hostMem >= 1
  /\ plant.replicas \in 1 .. MaxReplicas /\ plant.cores >= 1 /\ plant.mem >= 1
  /\ \A c \in DOMAIN stable : stable[c] \in 0 .. opt.stabTicks
  /\ since \in 0 .. opt.cooldown /\ steps \in 0 .. StepCap /\ noop \in 0 .. opt.maxNoop

\* A replica is taken away only after the service looked underloaded at stabTicks ticks in a row,
\* counted over the ticks that looked at it at all; and nothing of the service shrinks at a tick
\* that sees it overloaded or the guard (latency near the target, requests, broker, errors) up.
ShrinksSafely ==
  ByController /\ Shrinks =>
    /\ ~seen'.loaded /\ ~seen'.guarded
    /\ plant'.replicas < plant.replicas => calm' >= opt.stabTicks

\* The controller's own moves stay within the configured floors and host bounds, whatever the
\* client sets meanwhile, and the capacity of the hosts never falls below what they began with.
KeepsBounds ==
  ByController =>
    /\ plant'.replicas < plant.replicas => plant'.replicas >= opt.minReplicas
    /\ plant'.cores < plant.cores => plant'.cores >= opt.minCores
    /\ plant'.mem < plant.mem => plant'.mem >= opt.minMem
    /\ plant'.hosts \in opt.minHosts .. opt.maxHosts
    /\ plant'.hostCores >= opt.initialCores /\ plant'.hostMem >= opt.initialMem

\* max_controller_steps is looked at when a tick begins, so that the last tick may overrun it, by
\* the most changes one tick can make (a host less, less CPU and less memory of the hosts, and one
\* change of the service) less one; after that nothing changes any more.
StepBudget ==
  /\ opt.maxSteps > 0 => steps <= opt.maxSteps + 3
  /\ ended = "controller_steps" => steps >= opt.maxSteps

\* With a limit on the steps and on the intervals without a change every online run ends, whatever
\* the controller observes and whatever clients do: either it runs out of changes or of steps.
ControllerEnds == opt.maxSteps > 0 /\ opt.maxNoop > 0 => <>(~alive)

=============================================================================
