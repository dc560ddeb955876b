------------------------------ MODULE Resources ------------------------------
(***************************************************************************)
(* The resource manager (internal/resource): hosts, service instances,     *)
(* their draining, and the CPU, memory and connection accounting of the    *)
(* requests of one run.                                                    *)
(*                                                                         *)
(* Two goroutines use it.  The engine's handlers (internal/simd/           *)
(* handlers.go) take one event at a time but call the manager several      *)
(* times, and its allocating calls look the instance up under the lock     *)
(* and change it after unlocking; `step' is where in its handler the       *)
(* engine is.  The controller, or the configuration API, calls the         *)
(* manager between any two of these steps, each call one lock section.     *)
(*                                                                         *)
(* An instance that the manager has dropped stays an object the engine may *)
(* still hold: it keeps its record, with life "removed".  Memory is in     *)
(* whole units of a host's; a host's stored utilisation is the fraction    *)
(* used / of, computed when it was last updated.                           *)
(***************************************************************************)
EXTENDS Routing, Functions, FiniteSets

CONSTANTS Scenarios,     \* [hosts, services, db, timeout, key, zone, calls, requests]: see
                         \* MCResources; calls bounds the calls of the controller, requests says
                         \* how many requests arrive
          Keys,          \* request identities
          Demands,       \* CPU time a request may need
          MemoryMB,      \* memory a request needs
          DrainTimeout,
          Headroom,      \* memoryHeadroomMB
          Arrivals,      \* when the requests may arrive: functions on Keys
          MaxTime,       \* bound: simulation time
          MaxHosts,
          MaxReplicas    \* bounds: hosts and replicas the controller asks for

VARIABLES sc,       \* the scenario
          now,      \* the engine's clock
          hosts,    \* host -> [cores, mem, zone, used, of, born]
          inst,     \* instance -> its record
          cache,    \* sortedServiceInstMap
          cursors,  \* service -> [rr, wheel]
          req,      \* request -> its record
          step,     \* where the engine is in its handler
          ops,      \* calls of the controller so far
          stale,    \* services whose last scale-up stopped half-way, the cache not rebuilt
          shrunk,   \* hosts some of whose memory was taken away
          dropped   \* instances removed while they held memory or were being given some

vars == <<sc, now, hosts, inst, cache, cursors, req, step, ops, stale, shrunk, dropped>>

Services == 1 .. Len(sc.services)
AutoBase == 10           \* host-auto-k is AutoBase + k
Idle == [at |-> "idle"]
Present == {i \in DOMAIN inst : inst[i].life # "removed"}
Sum(f(_), S) == MapThenSumSet(f, S)

----------------------------------------------------------------------------
(* Placement *)

\* NewServiceInstance
NewInstance(svc, h, cores, mem) ==
  [svc |-> svc, host |-> h, life |-> "active", deadline |-> 0, cores |-> cores, mem |-> mem,
   used |-> 0, active |-> 0, next |-> 0, db |-> <<>>, conns |-> 0]

NewHost(c, m, zone, born) ==
  [cores |-> c, mem |-> m, zone |-> zone, used |-> 0, of |-> 1, born |-> born]

OnHost(is, h) == {i \in DOMAIN is : is[i].life # "removed" /\ is[i].host = h}
ReservedCPU(is, h) == Sum(LAMBDA i : is[i].cores, OnHost(is, h))
ReservedMemory(is, h) == Sum(LAMBDA i : is[i].mem, OnHost(is, h))
\* Memory is not looked at.
FitsCPU(is, hs, h, cores, mem) == ReservedCPU(is, h) + cores <= hs[h].cores

Fits(is, hs, h, cores, mem) ==
  /\ ReservedCPU(is, h) + cores <= hs[h].cores
  /\ ReservedMemory(is, h) + mem <= hs[h].mem

\* The hosts from position start on, wrapping round, among those in ok; <<>> if none is.
HostsFrom(hs, start, ok) ==
  LET ids == SetToSortSeq(DOMAIN hs, <)
      n == Len(ids)
  IN SelectSeq([j \in 1 .. n |-> ids[((start + j - 1) % n) + 1]], LAMBDA h : h \in ok)

\* pickHostForNewInstanceLocked: the placement rules of the scenario are not looked at.
pickHostForNewInstance(is, hs, s, cores, mem) ==
  HostsFrom(hs, Cardinality({i \in DOMAIN is : is[i].life # "removed" /\ is[i].svc = s}),
            {h \in DOMAIN hs : Fits(is, hs, h, cores, mem)})

\* One replica of the scenario's, where its required zones and anti-affinity allow it.
PlacementAllows(is, hs, service, h) ==
  /\ service.zones # {} => hs[h].zone \in service.zones
  /\ \A i \in OnHost(is, h) : is[i].svc \notin service.anti

PlaceReplica(hs, services, pl, s, k) ==
  LET service == services[s]
      found == HostsFrom(hs, k - 1, {h \in DOMAIN hs : /\ PlacementAllows(pl.is, hs, service, h)
                                                      /\ Fits(pl.is, hs, h, service.cores, service.mem)})
      id == Cardinality(DOMAIN pl.is)
  IN IF ~pl.ok \/ found = <<>> THEN [pl EXCEPT !.ok = FALSE]
     ELSE [pl EXCEPT !.is = @ @@ (id :> NewInstance(s, Head(found), service.cores, service.mem))]

\* InitializeFromScenario: every replica of every service in turn, or no run.
InitializeFromScenario(c) ==
  LET hs == [h \in DOMAIN c.hosts |-> NewHost(c.hosts[h].cores, c.hosts[h].mem, c.hosts[h].zone, 0)]
      Service(pl, s) == FoldLeft(LAMBDA p, k : PlaceReplica(hs, c.services, p, s, k), pl,
                                 [k \in 1 .. c.services[s].replicas |-> k])
      placed == FoldLeft(Service, [is |-> <<>>, ok |-> TRUE], [s \in DOMAIN c.services |-> s])
  IN [hosts |-> hs, is |-> placed.is, ok |-> placed.ok]

\* rebuildSortedInstanceCache: the active instances of a service, and its cursor within them.
SortedActive(is, s) == SetToSortSeq({i \in DOMAIN is : is[i].life = "active" /\ is[i].svc = s}, <)

Rebuild(is) ==
  /\ cache' = [s \in Services |-> SortedActive(is, s)]
  /\ cursors' = [s \in Services |->
                   IF cursors[s].rr >= Len(SortedActive(is, s)) THEN [cursors[s] EXCEPT !.rr = 0]
                   ELSE cursors[s]]
  /\ stale' = {}

----------------------------------------------------------------------------
(* Draining *)

\* UpdateMemoryUtilization: the fraction in use on a host, from the given instances.
WithUtilization(hs, h, is, on) ==
  IF on = {} THEN [hs EXCEPT ![h].used = 0]
  ELSE [hs EXCEPT ![h].used = Min({Sum(LAMBDA i : is[i].used, on), hs[h].mem}),
                  ![h].of = hs[h].mem]

\* EvictResourceState
Evicted(i) == [inst[i] EXCEPT !.active = 0, !.used = 0, !.next = 0, !.db = <<>>, !.conns = 0]
Draining == {i \in DOMAIN inst : inst[i].life = "draining"}
IdleDraining == {i \in Draining : inst[i].active = 0}
LateDraining(t) == {i \in Draining : inst[i].active > 0 /\ t >= inst[i].deadline}

\* ProcessDrainingInstances: drop what is idle, evict what is late.
ProcessDrainingInstances(t) ==
  LET evict == LateDraining(t)
      clean == [i \in DOMAIN inst |-> IF i \in evict THEN Evicted(i) ELSE inst[i]]
      gone == evict \cup IdleDraining
      left == [i \in DOMAIN inst |->
                 IF i \in gone THEN [clean[i] EXCEPT !.life = "removed"] ELSE clean[i]]
      hit == {inst[i].host : i \in evict}
  IN /\ inst' = left
     /\ hosts' = [h \in DOMAIN hosts |->
                    IF h \in hit THEN WithUtilization(hosts, h, clean, OnHost(inst, h))[h]
                    ELSE hosts[h]]
     /\ UNCHANGED shrunk
     /\ dropped' = dropped \cup {i \in IdleDraining : inst[i].used > 0}
     /\ IF gone # {} THEN Rebuild(left) ELSE UNCHANGED <<cache, cursors, stale>>

----------------------------------------------------------------------------
(* Calls of the controller or of the configuration API *)

CallStarts == ops < sc.calls /\ ops' = ops + 1 /\ UNCHANGED <<sc, now, req, step>>

\* The placing of a new replica by a scale-up; nothing more is placed after a failure.
AddReplica(hs, pl, s, cores, mem) ==
  LET found == pickHostForNewInstance(pl.is, hs, s, cores, mem)
      id == Cardinality(DOMAIN pl.is)
  IN IF ~pl.ok \/ found = <<>> THEN [pl EXCEPT !.ok = FALSE]
     ELSE [pl EXCEPT !.is = @ @@ (id :> NewInstance(s, Head(found), cores, mem))]

\* ScaleServiceWithOptions upwards: an error half-way keeps what was placed, and the old cache.
ScaleUp(s, n) ==
  LET active == SortedActive(inst, s)
      template == inst[Head(active)]
      placed == FoldLeft(LAMBDA p, k : AddReplica(hosts, p, s, template.cores, template.mem),
                         [is |-> inst, ok |-> TRUE], [k \in 1 .. n - Len(active) |-> k])
  IN /\ CallStarts
     /\ n > Len(active)
     /\ inst' = placed.is
     /\ IF placed.ok THEN Rebuild(placed.is)
        ELSE /\ stale' = IF placed.is # inst THEN stale \cup {s} ELSE stale
             /\ UNCHANGED <<cache, cursors>>
     /\ UNCHANGED <<hosts, shrunk, dropped>>

\* ScaleServiceWithOptions downwards: the last active instances stop getting requests.
ScaleDown(s, n) ==
  LET active == SortedActive(inst, s)
      drain == {active[k] : k \in n + 1 .. Len(active)}
      next == [i \in DOMAIN inst |->
                 IF i \in drain THEN [inst[i] EXCEPT !.life = "draining",
                                                     !.deadline = now + DrainTimeout]
                 ELSE inst[i]]
  IN /\ CallStarts
     /\ n < Len(active)
     /\ inst' = next
     /\ Rebuild(next)
     /\ UNCHANGED <<hosts, shrunk, dropped>>

\* The controller's own sweep, at the last simulation time the manager has seen.
ControllerSweeps == CallStarts /\ Draining # {} /\ ProcessDrainingInstances(now)

\* ScaleOutHosts by one: the capacity of an arbitrary host, without a zone.
ScaleOutHosts ==
  \E t \in DOMAIN hosts :
    LET free == {k \in Cardinality(DOMAIN hosts) + 1 .. MaxHosts + 1 :
                   AutoBase + k \notin DOMAIN hosts}
    IN /\ CallStarts
       /\ Cardinality(DOMAIN hosts) < MaxHosts
       /\ hosts' = hosts @@ (AutoBase + Min(free) :> NewHost(hosts[t].cores, hosts[t].mem, "", ops + 1))
       /\ UNCHANGED <<inst, cache, cursors, stale, shrunk, dropped>>

\* ScaleInHosts by one: an empty host, the last added first; the last host stays.
ScaleInHosts ==
  LET empty == {h \in DOMAIN hosts : OnHost(inst, h) = {}}
      auto == {h \in empty : h > AutoBase}
  IN \E h \in IF auto # {} THEN {Max(auto)} ELSE empty :
       /\ CallStarts
       /\ Cardinality(DOMAIN hosts) > 1
       /\ hosts' = Restrict(hosts, DOMAIN hosts \ {h})
       /\ shrunk' = shrunk \ {h}
       /\ UNCHANGED <<inst, cache, cursors, stale, dropped>>

IncreaseHostCapacity ==
  /\ CallStarts
  /\ hosts' = [h \in DOMAIN hosts |-> [hosts[h] EXCEPT !.cores = @ + 1]]
  /\ UNCHANGED <<inst, cache, cursors, stale, shrunk, dropped>>

\* DecreaseHostCapacity by one: refused unless what is reserved on every host still fits.  The
\* stored utilisation is not brought up to date.
DecreaseHostCapacity(cpu, mem) ==
  LET next == [h \in DOMAIN hosts |-> [hosts[h] EXCEPT !.cores = Max({1, @ - cpu}),
                                                      !.mem = Max({1, @ - mem})]]
  IN /\ CallStarts
     /\ next # hosts
     /\ \A h \in DOMAIN hosts : ReservedCPU(inst, h) <= next[h].cores /\ ReservedMemory(inst, h) <= next[h].mem
     /\ hosts' = next
     /\ shrunk' = shrunk \cup {h \in DOMAIN hosts : next[h].mem # hosts[h].mem}
     /\ UNCHANGED <<inst, cache, cursors, stale, dropped>>

\* UpdateServiceResourcesWithHeadroom: 0 leaves a field alone; draining instances are changed too.
UpdateServiceResources(s, cpu, mem) ==
  LET all == {i \in Present : inst[i].svc = s}
      next == [i \in DOMAIN inst |->
                 IF i \in all THEN [inst[i] EXCEPT !.cores = IF cpu > 0 THEN cpu ELSE @,
                                                   !.mem = IF mem > 0 THEN mem ELSE @]
                 ELSE inst[i]]
  IN /\ CallStarts
     /\ next # inst
     /\ \A i \in all : /\ 0 < cpu /\ cpu < inst[i].cores => inst[i].active = 0
                       /\ 0 < mem /\ mem < inst[i].mem => mem >= inst[i].used + Headroom
     /\ \A h \in DOMAIN hosts : OnHost(inst, h) # {} =>
          ReservedCPU(next, h) <= hosts[h].cores /\ ReservedMemory(next, h) <= hosts[h].mem
     /\ inst' = next
     /\ UNCHANGED <<hosts, cache, cursors, stale, shrunk, dropped>>

Controller ==
  \/ \E s \in Services, n \in 1 .. MaxReplicas : ScaleUp(s, n) \/ ScaleDown(s, n)
  \/ ControllerSweeps
  \/ ScaleOutHosts
  \/ ScaleInHosts
  \/ IncreaseHostCapacity
  \/ DecreaseHostCapacity(1, 0)
  \/ DecreaseHostCapacity(0, 1)
  \/ \E s \in Services, size \in {<<1, 0>>, <<2, 0>>, <<0, 1>>, <<0, 2>>} :
       UpdateServiceResources(s, size[1], size[2])

----------------------------------------------------------------------------
(* The engine's handlers *)

Manager == <<hosts, inst, cache, cursors, stale, shrunk, dropped>>
Unfinished == {k \in Keys : req[k].st \in {"new", "routed", "deferred", "running"}}
EventAt(k) == req[k].at
NextEvents == {k \in Unfinished : \A j \in Unfinished : EventAt(k) <= EventAt(j)}
FirstCall == [new |-> "select", routed |-> "reserve", deferred |-> "memory", running |-> "cpu_out"]

\* Every handler first notes the time and sweeps the draining instances.
HandlerBegins(k) ==
  /\ step = Idle
  /\ k \in NextEvents
  /\ EventAt(k) <= MaxTime
  /\ now' = EventAt(k)
  /\ step' = [at |-> FirstCall[req[k].st], k |-> k]
  /\ ProcessDrainingInstances(EventAt(k))
  /\ UNCHANGED <<sc, req, ops>>

\* handleDrainSweep
handleDrainSweep ==
  /\ step = Idle
  /\ Draining # {}
  /\ now < MaxTime
  /\ \A k \in Unfinished : EventAt(k) > now
  /\ now' = now + 1
  /\ ProcessDrainingInstances(now + 1)
  /\ UNCHANGED <<sc, req, step, ops>>

At(place) == step.at = place /\ UNCHANGED <<sc, now, ops>>
GoesTo(place) == step' = [at |-> place, k |-> step.k]
Mine == req[step.k].inst
Ends(st) == req' = [req EXCEPT ![step.k].st = st] /\ step' = Idle

\* handleRequestArrival: an instance is picked, and the start is scheduled for the same time.
ArrivalSelects ==
  LET s == req[step.k].svc
  IN /\ At("select")
     /\ \E c \in SelectInstanceForRequest(cache[s], sc.services[s].policy, req[step.k], cursors[s],
                                          [i \in DOMAIN inst |-> hosts[inst[i].host].zone],
                                          [i \in DOMAIN inst |-> inst[i].active],
                                          [i \in DOMAIN inst |-> 0]) :
          /\ req' = [req EXCEPT ![step.k].st = "routed", ![step.k].inst = c.pick]
          /\ cursors' = [cursors EXCEPT ![s] = c.cursors]
     /\ step' = Idle
     /\ UNCHANGED <<hosts, inst, cache, stale, shrunk, dropped>>

\* ReserveCPUWork: the next interval of the instance's CPU; a later one defers the start.
StartReserves ==
  \E d \in Demands :
    LET from == Max({req[step.k].at, inst[Mine].next})
        to == from + (d \div inst[Mine].cores)
    IN /\ At("reserve")
       /\ Mine \in Present
       /\ inst' = [inst EXCEPT ![Mine].next = to]
       /\ IF from > now
          THEN /\ req' = [req EXCEPT ![step.k].st = "deferred", ![step.k].at = from,
                                     ![step.k].from = from, ![step.k].to = to]
               /\ step' = Idle
          ELSE /\ req' = [req EXCEPT ![step.k].from = from, ![step.k].to = to]
               /\ GoesTo("memory")
       /\ UNCHANGED <<hosts, cache, cursors, stale, shrunk, dropped>>

\* The instance is gone: ReserveCPUWork, AllocateMemory or AllocateCPU fails, and so does the request.
InstanceMissing ==
  /\ step.at \in {"reserve", "memory", "cpu"}
  /\ At(step.at)
  /\ Mine \notin Present
  /\ Ends("lost")
  /\ UNCHANGED Manager

\* AllocateMemory compares the stored utilisation plus the request's share with one.
WouldExceed(h) ==
  hosts[h].used * hosts[h].mem + MemoryMB * hosts[h].of > hosts[h].of * hosts[h].mem

\* A refused request gives its CPU interval back if it is still the last one.
MemoryRefused ==
  /\ At("memory")
  /\ Mine \in Present
  /\ WouldExceed(inst[Mine].host)
  /\ inst' = [inst EXCEPT ![Mine].next = IF @ = req[step.k].to THEN req[step.k].from ELSE @]
  /\ Ends("failed")
  /\ UNCHANGED <<hosts, cache, cursors, stale, shrunk, dropped>>

\* AllocateMemory, under the lock: the host, and the instances its utilisation is computed from.
MemoryChecked ==
  LET h == inst[Mine].host
  IN /\ At("memory")
     /\ Mine \in Present
     /\ ~WouldExceed(h)
     /\ step' = [at |-> "memory_in", k |-> step.k, host |-> h, born |-> hosts[h].born, on |-> OnHost(inst, h)]
     /\ UNCHANGED Manager /\ UNCHANGED req

\* The host's utilisation from the instances seen under the lock, if the host is still the same.
HostUpdated(is, s) ==
  IF s.host \in DOMAIN hosts /\ hosts[s.host].born = s.born
  THEN hosts' = WithUtilization(hosts, s.host, is, s.on)
  ELSE UNCHANGED hosts

MemoryAllocated ==
  LET next == [inst EXCEPT ![Mine].used = @ + MemoryMB]
  IN /\ At("memory_in")
     /\ inst' = next
     /\ HostUpdated(next, step)
     /\ dropped' = IF Mine \in Present THEN dropped ELSE dropped \cup {Mine}
     /\ GoesTo("cpu")
     /\ UNCHANGED <<cache, cursors, req, stale, shrunk>>

\* AllocateCPU, under the lock and after it.
CPUChecked == At("cpu") /\ Mine \in Present /\ GoesTo("cpu_in") /\ UNCHANGED Manager /\ UNCHANGED req
CPUAllocated ==
  /\ At("cpu_in")
  /\ inst' = [inst EXCEPT ![Mine].active = @ + 1]
  /\ GoesTo("db")
  /\ UNCHANGED <<hosts, cache, cursors, req, stale, shrunk, dropped>>

\* Completion after CPU, the connection's work and the network, or at the endpoint's deadline.
Runs(end, pooled) ==
  \E net \in {0, 1} :
    LET done == IF sc.timeout > 0 THEN Min({end + net, req[step.k].from + sc.timeout}) ELSE end + net
    IN req' = [req EXCEPT ![step.k].st = "running", ![step.k].at = done, ![step.k].pooled = pooled]

\* ReserveDBWork: the slot free first, for one unit of time after the CPU work.
NoDatastore == At("db") /\ sc.db = 0 /\ Runs(req[step.k].to, FALSE) /\ step' = Idle /\ UNCHANGED Manager
ReserveDBWork ==
  LET slots == [j \in 1 .. sc.db |-> IF j \in DOMAIN inst[Mine].db THEN inst[Mine].db[j] ELSE 0]
      j == FirstLeast([n \in DOMAIN slots |-> Max({slots[n], req[step.k].to})])
      end == Max({slots[j], req[step.k].to}) + 1
  IN /\ At("db")
     /\ sc.db > 0
     /\ Mine \in Present
     /\ inst' = [inst EXCEPT ![Mine].db = [slots EXCEPT ![j] = end], ![Mine].conns = @ + 1]
     /\ Runs(end, TRUE)
     /\ step' = Idle
     /\ UNCHANGED <<hosts, cache, cursors, stale, shrunk, dropped>>

\* The instance was evicted in between: the handler gives up, and nothing will complete the request.
ConnectionMissing ==
  At("db") /\ sc.db > 0 /\ Mine \notin Present /\ Ends("abandoned") /\ UNCHANGED Manager

\* handleRequestComplete gives back CPU, memory and connection, one call each; a missing instance
\* makes the call do nothing.
CPUReleased ==
  /\ At("cpu_out")
  /\ inst' = IF Mine \in Present THEN [inst EXCEPT ![Mine].active = Max({0, @ - 1})] ELSE inst
  /\ GoesTo("memory_out")
  /\ UNCHANGED <<hosts, cache, cursors, req, stale, shrunk, dropped>>

MemoryReleased ==
  LET h == inst[Mine].host
      next == [inst EXCEPT ![Mine].used = IF @ >= MemoryMB THEN @ - MemoryMB ELSE @]
  IN /\ At("memory_out")
     /\ IF Mine \in Present
        THEN inst' = next /\ HostUpdated(next, [host |-> h, born |-> hosts[h].born, on |-> OnHost(inst, h)])
        ELSE UNCHANGED <<inst, hosts>>
     /\ GoesTo("db_out")
     /\ UNCHANGED <<cache, cursors, req, stale, shrunk, dropped>>

\* The connection is kept.
ConnectionKept == At("db_out") /\ Ends("done") /\ UNCHANGED Manager

ConnectionReleased ==
  /\ At("db_out")
  /\ inst' = IF Mine \in Present /\ req[step.k].pooled
             THEN [inst EXCEPT ![Mine].conns = Max({0, @ - 1})] ELSE inst
  /\ Ends("done")
  /\ UNCHANGED <<hosts, cache, cursors, stale, shrunk, dropped>>

Engine ==
  \/ \E k \in Keys : HandlerBegins(k)
  \/ handleDrainSweep
  \/ ArrivalSelects \/ StartReserves \/ InstanceMissing
  \/ MemoryRefused \/ MemoryChecked \/ MemoryAllocated
  \/ CPUChecked \/ CPUAllocated
  \/ NoDatastore \/ ReserveDBWork \/ ConnectionMissing
  \/ CPUReleased \/ MemoryReleased \/ ConnectionReleased

Init ==
  /\ sc \in Scenarios
  /\ LET placed == InitializeFromScenario(sc)
     IN /\ placed.ok
        /\ hosts = placed.hosts
        /\ inst = placed.is
  /\ cache = [s \in Services |-> SortedActive(inst, s)]
  /\ cursors = [s \in Services |-> [rr |-> 0, wheel |-> 0]]
  /\ \E arrival \in Arrivals :
       req = [k \in Keys |-> [st |-> "new", svc |-> 1, inst |-> -1, from |-> 0,
                              at |-> IF k <= sc.requests THEN arrival[k] ELSE MaxTime + 1,
                              to |-> 0, key |-> sc.key, zone |-> sc.zone, pooled |-> FALSE]]
  /\ now = 0 /\ step = Idle /\ ops = 0
  /\ stale = {} /\ shrunk = {} /\ dropped = {}

Next == Controller \/ Engine
Spec == Init /\ [][Next]_vars

----------------------------------------------------------------------------
(* Properties *)

TypeOK ==
  /\ sc \in Scenarios /\ now \in 0 .. MaxTime /\ ops \in 0 .. sc.calls
  /\ \A h \in DOMAIN hosts : hosts[h].cores >= 1 /\ hosts[h].mem >= 1 /\ hosts[h].used <= hosts[h].of
  /\ \A i \in DOMAIN inst :
       /\ inst[i].life \in {"active", "draining", "removed"}
       /\ inst[i].used >= 0 /\ inst[i].active >= 0 /\ inst[i].conns >= 0
  /\ \A k \in Keys : req[k].st \in {"new", "routed", "deferred", "running", "done", "failed",
                                    "lost", "abandoned"}
  /\ stale \subseteq Services

\* In a handler of request k, between the calls named.
Inside(k, places) == step # Idle /\ step.k = k /\ step.at \in places
HoldsCPU(k) == (req[k].st = "running" /\ ~Inside(k, {"memory_out", "db_out"})) \/ Inside(k, {"db"})
HoldsMemory(k) == (req[k].st = "running" /\ ~Inside(k, {"db_out"})) \/ Inside(k, {"cpu", "cpu_in", "db"})
HoldsInterval(k) == req[k].st \in {"deferred", "running"}
                      \/ Inside(k, {"memory", "memory_in", "cpu", "cpu_in", "db"})
UsedOn(h) == Sum(LAMBDA i : inst[i].used, OnHost(inst, h))

\* However scaling, resizing, draining and capacity changes interleave, every instance is on a
\* host that exists, and no host promises more CPU or memory than it has.
ReservationsFit ==
  /\ \A i \in Present : inst[i].host \in DOMAIN hosts
  /\ \A h \in DOMAIN hosts :
       ReservedCPU(inst, h) <= hosts[h].cores /\ ReservedMemory(inst, h) <= hosts[h].mem

\* A service can always be routed to: its list of routable instances is never empty, holds only
\* active instances, its cursor is within it, and unless a scale-up stopped half-way it holds all
\* of them (ScaleServiceWithOptions takes the first active instance as its template unchecked).
RoutableExact ==
  \A s \in Services :
    /\ cache[s] # <<>>
    /\ \A n \in DOMAIN cache[s] : inst[cache[s][n]].life = "active"
    /\ RoundRobinInRange(cache[s], cursors[s])
    /\ s \notin stale => cache[s] = SortedActive(inst, s)

\* The manager's counters are exact between any two calls: an instance counts the requests, the
\* memory and the connections that are really on it, whoever was drained or evicted meanwhile.
AccountingExact ==
  \A i \in Present :
    LET on(P(_)) == {k \in Keys : req[k].inst = i /\ P(k)}
    IN /\ inst[i].active = Cardinality(on(HoldsCPU))
       /\ inst[i].used = MemoryMB * Cardinality(on(HoldsMemory))
       /\ inst[i].conns = Cardinality(on(LAMBDA k : req[k].st = "running" /\ req[k].pooled))

\* A host's stored utilisation is what its instances use, unless an instance was removed while
\* its memory was still being given or taken back by the engine.
UtilizationKnown ==
  \A h \in DOMAIN hosts :
    (\A i \in dropped : inst[i].host # h) => hosts[h].used = Min({UsedOn(h), hosts[h].of})

\* Requests never use more memory of a host than it has, unless some was taken away from it.
MemoryWithinHost == \A h \in DOMAIN hosts \ shrunk : UsedOn(h) <= hosts[h].mem

\* The CPU of an instance serves one request at a time: reserved intervals do not overlap, also
\* after a reservation was given back.
CPUExclusive ==
  \A k, j \in Keys :
    (/\ k # j /\ req[k].inst = req[j].inst /\ req[k].inst \in Present
     /\ HoldsInterval(k) /\ HoldsInterval(j))
      => req[k].to <= req[j].from \/ req[j].to <= req[k].from

\* Work in progress is taken away from a request only after the drain deadline of its instance.
WorkSurvivesDrain ==
  [][\A k \in Keys :
       HoldsCPU(k) /\ inst[req[k].inst].life # "removed" /\ inst'[req[k].inst].life = "removed"
         => now' >= inst[req[k].inst].deadline]_vars

\* A request goes to an active instance: in the zone it asked for if one is there, and to one of
\* weight zero only if every candidate has weight zero.
SelectionHonoursPolicy ==
  [][\A k \in Keys :
       req[k].st = "new" /\ req'[k].st = "routed" =>
         LET pol == sc.services[req[k].svc].policy
             zone(i) == hosts[inst[i].host].zone
             all == Range(cache[req[k].svc])
             near == {i \in all : pol.locality /\ req[k].zone # "" /\ zone(i) = req[k].zone}
             among == IF near # {} THEN near ELSE all
         IN /\ req'[k].inst \in among /\ inst[req'[k].inst].life = "active"
            /\ pol.strategy = "weighted_round_robin" =>
                 SlotsOf(pol, req'[k].inst) > 0 \/ \A i \in among : SlotsOf(pol, i) = 0]_vars

\* Instances are where they fit and where requests find them.
PlacementSound == ReservationsFit /\ RoutableExact

\* What the manager believes of its instances and hosts is what is the case.
BookkeepingExact ==
  TypeOK /\ AccountingExact /\ UtilizationKnown /\ MemoryWithinHost /\ CPUExclusive

\* A request is sent where the policy says and served to its end or to the deadline.
ServedWhereDue == SelectionHonoursPolicy /\ WorkSurvivesDrain
=============================================================================
