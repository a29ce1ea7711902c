------------------------------ MODULE MCServices ------------------------------
(***************************************************************************)
(* The domain services and the anti-corruption layer for TLC, in one run   *)
(* of six parts: the container over every dependency graph, the container  *)
(* and a builder over the life of their services, overlapping transactions *)
(* of one service, builders of services and of registries, a call through  *)
(* an adapter's pipeline, and the registries of adapters.                  *)
(***************************************************************************)
EXTENDS ServiceTransaction

CONSTANTS s1, s2, s3, b1, NoBus, UnitBus, x1, x2,
  Services, Aware, MaxRegistries, MaxRoots, MaxBuilders, MaxMade, MaxGiven  \* of builders

VARIABLES part,
  factories, dependencies, bus, provider, registry, made, scan, initialized,
  pending, todo, progress, outcome,
  kind, phase, supported, timeout, index, stack, entered, sent, leg, result,
  versioned, latest, plain, global, local, adapters, imported, skipped,
  serviceRegistries, globally, roots, builders, built, given, told, tellings

Graphs == INSTANCE ServiceContainer
  WITH Services <- {s1, s2, s3}, EventAware <- {}, UnitAware <- {},
       AsyncServices <- {}, Buses <- {b1}, MaxMade <- 3, pc <- scan

Lives == INSTANCE ServiceContainer
  WITH Services <- {s1, s2}, EventAware <- {s1, s2}, UnitAware <- {s2},
       AsyncServices <- {s1}, Buses <- {b1}, MaxMade <- 3, pc <- scan

Adapter == INSTANCE AclAdapter
  WITH NumMiddlewares <- 2, MaxNext <- 2, OwnResults <- {"failed"},
       Timeouts <- {"none", "given"}, pc <- leg

Registries == INSTANCE AclRegistries
  WITH Contexts <- {x1, x2}, Numbers <- {1, 2}, Pres <- {"", "beta"},
       MaxAdapters <- 4, made <- adapters

Building == INSTANCE ServiceBuilding
  WITH registries <- serviceRegistries, made <- built

OnlyBus == [s \in {s1, s2} |-> IF s = s1 THEN {"bus", "unit"} ELSE {"bus"}]

ASSUME ContainersAssumption ==
  Graphs!ContainerAssumption /\ Lives!ContainerAssumption /\ Building!BuildingAssumption
ASSUME AdaptersAssumption == Adapter!AdapterAssumption /\ Registries!RegistriesAssumption

container == <<factories, dependencies, bus, provider, registry, made, scan,
               initialized, pending, todo, progress, outcome>>
call == <<kind, phase, supported, timeout, index, stack, entered, sent, leg, result>>
registries == <<versioned, latest, plain, global, local, adapters, imported, skipped>>
building == <<serviceRegistries, globally, roots, builders, built, given, told, tellings>>
mcvars == <<part, vars, container, call, registries, building>>

MCInit ==
  /\ part \in {"graphs", "lifetimes", "transactions", "call", "registries", "building"}
  /\ IF part = "graphs" THEN Graphs!Init ELSE Lives!Init
  /\ Init /\ Adapter!Init /\ Registries!Init /\ Building!Init
  /\ part # "transactions" => field = NoUnit
  /\ part # "call" => kind = "own"

(* Each factory is registered once, before a first initializeServices.     *)
GraphNext ==
  \/ \E s \in {s1, s2, s3}, deps \in SUBSET {s1, s2, s3} :
       outcome = "none" /\ s \notin Graphs!Factories /\ Graphs!RegisterFactory(s, deps)
  \/ outcome = "none" /\ (Graphs!Start \/ Graphs!FactoryThrows)
  \/ Graphs!ScanStep

(* Every operation, over graphs without a service that depends on itself,  *)
(* the container given its bus and its unit of work before it has created  *)
(* anything.                                                               *)
LifetimeNext ==
  /\ Lives!Next
  /\ \A s \in {s1, s2} : s \notin dependencies'[s]
  /\ made # <<>> => UNCHANGED <<bus, provider>>

MCNext ==
  /\ UNCHANGED part
  /\ \/ /\ \/ part = "graphs" /\ GraphNext
           \/ part = "lifetimes" /\ LifetimeNext
        /\ UNCHANGED <<vars, call, registries, building>>
     \/ /\ part = "transactions" /\ Next
        /\ UNCHANGED <<container, call, registries, building>>
     \/ /\ part = "call" /\ Adapter!Next
        /\ UNCHANGED <<vars, container, registries, building>>
     \/ /\ part = "registries" /\ Registries!Next
        /\ UNCHANGED <<vars, container, call, building>>
     \/ /\ part = "building" /\ Building!Next
        /\ UNCHANGED <<vars, container, call, registries>>

(* The loop of initializeServices waits for nothing; an adapter's own      *)
(* steps and its timers happen, and the external system owes no answer.    *)
MCSpec ==
  /\ MCInit /\ [][MCNext]_mcvars
  /\ WF_mcvars(scan = "scan" /\ MCNext)
  /\ WF_call(part = "call" /\ Adapter!Pipeline)
  /\ WF_call(part = "call" /\ Adapter!Timers)

-----------------------------------------------------------------------------
(* The properties of the parts they are stated for. *)

(* Over every graph of dependencies, with missing factories and factories  *)
(* that throw: initializeServices creates a service after everything it    *)
(* depends on, gives up only on services no order could create, and        *)
(* returns only with every service registered.  While services are         *)
(* created, built, removed and initialized at the same time, a registered  *)
(* service is not replaced, and initializeServices ends                    *)
(* (domain-service-container.ts, domain-service-registry.ts).              *)
InitializesInOrder ==
  /\ [](part = "graphs" => Graphs!TypeOK)
  /\ Lives!DependenciesFirst /\ Lives!GivesUpOnBlocked /\ Lives!CompleteMeansAll
  /\ [](part = "lifetimes" => Lives!TypeOK)
  /\ Lives!NeverReplaced
  /\ Lives!InitializeEnds

(* A service has the dependencies and the last unit of work that were said *)
(* along the calls that led to its builder, and the bus of this unit of    *)
(* work, or the last bus when it takes no unit or was told none, whoever   *)
(* goes on with the builders before it, the registry builder and the       *)
(* registry (service-builder.ts, service-registry-builder.ts,              *)
(* base-domain-service.ts setUnitOfWork).                                  *)
BuiltAsTold == part = "building" => Building!TypeOK /\ Building!MadeAsTold

(* However often a middleware calls next and whenever the external system  *)
(* answers: no middleware runs twice or out of order, nothing is sent past *)
(* one, the caller is told the first outcome of a request and no success   *)
(* but an answered one, and a call with a timeout settles                  *)
(* (base-acl-adapter.ts execute, buildMiddlewarePipeline, executeCore).  *)
CallsEndAsAnswered ==
  /\ [](Adapter!TypeOK /\ Adapter!EnteredInOrder)
  /\ [](Adapter!AllEnteredBeforeSending /\ Adapter!SuccessWasAnswered)
  /\ Adapter!FirstOutcomeStands
  /\ Adapter!TimedSettles

(* In whatever order adapters are registered and imported, no version of a *)
(* context has a greater number than the latest (a pre-release has that of *)
(* its release), and an import replaces what it reports and nothing else   *)
(* (versioned-acl-registry.ts, context-acl-registry.ts).                   *)
RegistriesTellTheTruth ==
  /\ [](Registries!TypeOK /\ Registries!LatestIsGreatest)
  /\ Registries!ImportReportsWhatItDid
=============================================================================
