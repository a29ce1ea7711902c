---------------------------- MODULE ServiceContainer ----------------------------
(***************************************************************************)
(* DomainServiceContainer (services/domain-service-container.ts) over a    *)
(* DefaultDomainServiceRegistry that a ServiceBuilder also registers       *)
(* services in.  initializeServices is synchronous: while it runs (pc is   *)
(* "scan") no other operation does.  It goes over the pending services     *)
(* again and again, creating those whose dependencies were created, until  *)
(* none is left or a pass creates none.  The asynchronous initialization   *)
(* it starts at its end, and the one a builder awaits, interleave with     *)
(* everything else.                                                        *)
(***************************************************************************)
EXTENDS Naturals, Sequences

CONSTANTS Services,      \* the service identifiers
          EventAware,    \* services with setEventBus
          UnitAware,     \* services with setUnitOfWork, which replaces their bus
          AsyncServices, \* services with initialize
          Buses, NoBus,  \* the event buses given to the container, or none
          UnitBus,       \* the bus a unit of work brings along
          MaxMade        \* bound: instances ever created

ContainerAssumption ==
  /\ UnitAware \subseteq EventAware /\ EventAware \subseteq Services /\ AsyncServices \subseteq Services
  /\ NoBus \notin Buses /\ UnitBus \notin Buses /\ UnitBus # NoBus
  /\ MaxMade \in Nat

VARIABLES factories,   \* the keys of the factory map, in its order
          dependencies,\* of each factory: the services it depends on
          bus,         \* the container's event bus
          provider,    \* "none" or "given": the unit of work provider
          registry,    \* of each identifier: its instance, 0 for none
          made,        \* the instances: whose, by what, with which bus, initialized how far
          pc,          \* "idle", or "scan" while initializeServices runs
          initialized, \* services this initializeServices registered
          pending,     \* services it has still to create
          todo,        \* the rest of the present pass
          progress,    \* "none" or "some": did this pass create a service
          outcome      \* how the last initializeServices ended

scanVars == <<initialized, pending, todo, progress>>
configVars == <<factories, dependencies, bus, provider>>
vars == <<configVars, registry, made, pc, scanVars, outcome>>

Registered(s) == registry[s] # 0
Factories == {factories[i] : i \in 1..Len(factories)}

Init ==
  /\ factories = <<>> /\ dependencies = [s \in Services |-> {}]
  /\ bus = NoBus /\ provider = "none"
  /\ registry = [s \in Services |-> 0] /\ made = <<>>
  /\ pc = "idle" /\ initialized = {} /\ pending = {} /\ todo = <<>> /\ progress = "none"
  /\ outcome = "none"

----------------------------------------------------------------------------
(* Configuring the container. *)

\* registerFactory: a key already in the map keeps its place.
RegisterFactory(s, deps) ==
  /\ pc = "idle"
  /\ factories' = IF s \in Factories THEN factories ELSE Append(factories, s)
  /\ dependencies' = [dependencies EXCEPT ![s] = deps]
  /\ UNCHANGED <<bus, provider, registry, made, pc, scanVars, outcome>>

SetEventBus(b) ==
  /\ pc = "idle" /\ bus # b
  /\ bus' = b
  /\ UNCHANGED <<factories, dependencies, provider, registry, made, pc, scanVars, outcome>>

SetUnitOfWorkProvider ==
  /\ pc = "idle" /\ provider = "none"
  /\ provider' = "given"
  /\ UNCHANGED <<factories, dependencies, bus, registry, made, pc, scanVars, outcome>>

----------------------------------------------------------------------------
(* initializeServices. *)

Start ==
  /\ pc = "idle"
  /\ pc' = "scan" /\ outcome' = "none"
  /\ initialized' = {} /\ pending' = Factories
  /\ todo' = factories /\ progress' = "none"
  /\ UNCHANGED <<configVars, registry, made>>

CanInitialize_Any(s) == dependencies[s] \cap initialized # {} \/ dependencies[s] = {}
CanInitialize(s) == dependencies[s] \subseteq initialized

Scanning == pc = "scan" /\ todo # <<>>
Configured(s, b, unit) ==
  IF s \in UnitAware /\ unit = "given" THEN UnitBus
  ELSE IF s \in EventAware THEN b ELSE NoBus
Instance(s, b, unit, state) ==
  [id |-> s, by |-> "container", bus |-> Configured(s, b, unit), init |-> state]

Skip ==
  /\ Scanning /\ ~CanInitialize(Head(todo))
  /\ todo' = Tail(todo)
  /\ UNCHANGED <<configVars, registry, made, pc, initialized, pending, progress, outcome>>

\* The factory of the next service, its configuration and its registration succeed.
Create ==
  /\ Scanning /\ CanInitialize(Head(todo))
  /\ ~Registered(Head(todo)) /\ Len(made) < MaxMade
  /\ made' = Append(made, Instance(Head(todo), bus, provider, "no"))
  /\ registry' = [registry EXCEPT ![Head(todo)] = Len(made')]
  /\ initialized' = initialized \union {Head(todo)}
  /\ pending' = pending \ {Head(todo)}
  /\ progress' = "some"
  /\ todo' = Tail(todo)
  /\ UNCHANGED <<configVars, pc, outcome>>

\* initializeServices throws: what it registered so far stays in the registry.
EndScan(how) == pc' = "idle" /\ outcome' = how /\ todo' = <<>> /\ UNCHANGED progress
Throw(how) == EndScan(how) /\ UNCHANGED <<configVars, registry, made, initialized, pending>>

FactoryThrows == Scanning /\ CanInitialize(Head(todo)) /\ Throw("factory")
Duplicate == Scanning /\ CanInitialize(Head(todo)) /\ Registered(Head(todo)) /\ Throw("duplicate")

PassDone == pc = "scan" /\ todo = <<>> /\ pending # {}
NextPass ==
  /\ PassDone /\ progress = "some"
  /\ todo' = SelectSeq(factories, LAMBDA s : s \in pending) /\ progress' = "none"
  /\ UNCHANGED <<configVars, registry, made, pc, initialized, pending, outcome>>
Circular == PassDone /\ progress = "none" /\ Throw("circular")

\* initializeAsyncServices calls initialize of every service in the registry and is not awaited.
IsRegistered(i) == \E s \in Services : registry[s] = i
Complete ==
  /\ pc = "scan" /\ pending = {}
  /\ made' = [i \in 1..Len(made) |->
                IF made[i].id \in AsyncServices /\ IsRegistered(i)
                THEN [made[i] EXCEPT !.init = "running"] ELSE made[i]]
  /\ EndScan("complete")
  /\ UNCHANGED <<configVars, registry, initialized, pending>>

Initialized(i, result) ==
  /\ pc = "idle" /\ i \in 1..Len(made) /\ made[i].init = "running"
  /\ made' = [made EXCEPT ![i].init = result]
  /\ UNCHANGED <<configVars, registry, pc, scanVars, outcome>>

----------------------------------------------------------------------------
(* The registry and the builder. *)

Remove(s) ==
  /\ pc = "idle" /\ Registered(s)
  /\ registry' = [registry EXCEPT ![s] = 0]
  /\ UNCHANGED <<configVars, made, pc, scanVars, outcome>>

Clear ==
  /\ pc = "idle" /\ \E s \in Services : Registered(s)
  /\ registry' = [s \in Services |-> 0]
  /\ UNCHANGED <<configVars, made, pc, scanVars, outcome>>

\* ServiceBuilder.buildAndRegister with asynchronous initialization and the container's bus:
\* build() creates and configures the service, and awaits its initialize.
Build(s) ==
  /\ pc = "idle" /\ s \in AsyncServices /\ Len(made) < MaxMade
  /\ made' = Append(made, [id |-> s, by |-> "builder", bus |-> Configured(s, bus, "none"), init |-> "building"])
  /\ UNCHANGED <<configVars, registry, pc, scanVars, outcome>>

Building(i) == pc = "idle" /\ i \in 1..Len(made) /\ made[i].init = "building"

\* The service is registered when initialize resolves, unless its identifier is taken by then.
Built(i) ==
  /\ Building(i)
  /\ made' = [made EXCEPT ![i].init = "done"]
  /\ registry' = IF Registered(made[i].id) THEN registry ELSE [registry EXCEPT ![made[i].id] = i]
  /\ UNCHANGED <<configVars, pc, scanVars, outcome>>

BuildFails(i) ==
  /\ Building(i)
  /\ made' = [made EXCEPT ![i].init = "failed"]
  /\ UNCHANGED <<configVars, registry, pc, scanVars, outcome>>

----------------------------------------------------------------------------
ScanStep == Skip \/ Create \/ NextPass \/ Circular \/ Complete
Next ==
  \/ \E s \in Services, deps \in SUBSET Services : RegisterFactory(s, deps)
  \/ \E b \in Buses : SetEventBus(b)
  \/ SetUnitOfWorkProvider
  \/ Start \/ ScanStep \/ FactoryThrows \/ Duplicate
  \/ \E s \in Services : Remove(s) \/ Build(s)
  \/ Clear
  \/ \E i \in 1..Len(made) :
       Built(i) \/ BuildFails(i) \/ \E result \in {"done", "failed"} : Initialized(i, result)

\* A loop that was entered runs to its end: nothing in it waits.
Fairness == WF_vars(ScanStep \/ FactoryThrows \/ Duplicate)
Spec == Init /\ [][Next]_vars
FairSpec == Spec /\ Fairness

----------------------------------------------------------------------------
(* Properties. *)

Instances ==
  [id : Services, by : {"container", "builder"}, bus : Buses \union {NoBus, UnitBus},
   init : {"no", "building", "running", "done", "failed"}]

\* Every variable has its type, and an identifier of the registry holds an instance of that service.
TypeOK ==
  /\ factories \in Seq(Services) /\ dependencies \in [Services -> SUBSET Services]
  /\ bus \in Buses \union {NoBus} /\ provider \in {"none", "given"}
  /\ made \in Seq(Instances) /\ registry \in [Services -> 0..Len(made)]
  /\ \A s \in Services : Registered(s) => made[registry[s]].id = s
  /\ pc \in {"idle", "scan"} /\ initialized \subseteq Services /\ pending \subseteq Services
  /\ todo \in Seq(Services) /\ progress \in {"none", "some"}
  /\ outcome \in {"none", "complete", "circular", "factory", "duplicate"}

\* When the container calls a factory, every service it depends on is in the registry, created
\* and configured: the factory may take it from getService.
DependenciesFirst ==
  [][pc = "scan" /\ Len(made') > Len(made) =>
       \A d \in dependencies[made'[Len(made')].id] : Registered(d)]_vars

\* The services that cannot be created in any order: the largest set each of whose members
\* depends on another member or on a service without a factory.
Blocked ==
  UNION {S \in SUBSET Factories :
           \A s \in S : \E d \in dependencies[s] : d \in S \/ d \notin Factories}

\* initializeServices gives up only on services that no order of creation could have created.
GivesUpOnBlocked == [][pc = "scan" /\ outcome' = "circular" => pending = Blocked]_vars

\* When initializeServices returns, every service with a factory is in the registry.
CompleteMeansAll ==
  [][pc = "scan" /\ outcome' = "complete" => \A s \in Factories : Registered(s)]_vars

\* A registered service stays the one that is handed out until it is removed: neither a second
\* initializeServices nor a builder that was overtaken replaces it.
NeverReplaced == [][\A s \in Services : Registered(s) => registry'[s] \in {registry[s], 0}]_vars

\* initializeServices ends, whatever the dependencies are.
InitializeEnds == pc = "scan" ~> pc = "idle"
=============================================================================
