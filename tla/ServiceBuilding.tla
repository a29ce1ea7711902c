--------------------------- MODULE ServiceBuilding ---------------------------
(***************************************************************************)
(* How services are put together (services/service-registry-builder.ts,    *)
(* service-builder.ts, global-service-registry.ts): registry builders hand *)
(* their event bus and unit of work to the builders they make, and a       *)
(* builder that is given a dependency is copied.  Whoever holds a builder  *)
(* may go on with it.  ServiceContainer has the asynchronous build().      *)
(*                                                                         *)
(* Objects are numbered as they are made, 0 is none.                       *)
(***************************************************************************)
EXTENDS Naturals, Sequences, FiniteSets, SequencesExt

CONSTANTS
  Services,      \* the identifiers
  Aware,         \* [Services -> SUBSET {"bus", "unit"}]: which setters it has
  MaxRegistries, MaxRoots, MaxBuilders, MaxMade, MaxGiven    \* bounds: registries,
                 \* registry builders, builders, services, and what is given to
                 \* builders: buses and units, both numbered as they come

BuildingAssumption ==
  /\ Aware \in [Services -> SUBSET {"bus", "unit"}]
  /\ {MaxRegistries, MaxRoots, MaxBuilders, MaxMade, MaxGiven} \subseteq Nat

VARIABLES
  registries,    \* Seq([Services -> service])
  globally,      \* GlobalServiceRegistry.instance
  roots,         \* Seq([registry, bus, unit])
  builders,      \* Seq([registry, id, bus, unit, dependencies])
  made,          \* Seq([id, bus, unit, dependencies])
  given,         \* how many buses and units there were
  told,          \* [builder -> [bus, unit, dependency], each the sequence of what was
                 \* said along its chain of calls], history
  tellings       \* [service -> that of its builder], history

vars == <<registries, globally, roots, builders, made, given, told, tellings>>

NoServices == [s \in Services |-> 0]

Init ==
  /\ registries = <<>> /\ globally = 0 /\ roots = <<>> /\ builders = <<>>
  /\ made = <<>> /\ given = 0 /\ told = <<>> /\ tellings = <<>>

-----------------------------------------------------------------------------
NewRegistry ==
  /\ Len(registries) < MaxRegistries
  /\ registries' = Append(registries, NoServices)
  /\ UNCHANGED <<builders, made, given, told, tellings>>

\* getInstance() makes the registry when there is none, setInstance() sets it.
GetInstance  == globally = 0 /\ NewRegistry /\ globally' = Len(registries') /\ UNCHANGED roots

SetInstance(r) ==
  /\ globally' = r
  /\ UNCHANGED <<registries, roots, builders, made, given, told, tellings>>

Root(r) == [registry |-> r, bus |-> 0, unit |-> 0]

\* new ServiceRegistryBuilder(registry), with a registry of its own for none.
CreateRoot(r) ==
  /\ Len(roots) < MaxRoots
  /\ \/ /\ r # 0 /\ roots' = Append(roots, Root(r))
        /\ UNCHANGED <<registries, builders, made, given, told, tellings>>
     \/ r = 0 /\ NewRegistry /\ roots' = Append(roots, Root(Len(registries')))
  /\ UNCHANGED globally

\* register() throws for an identifier that is taken.
Register(r, s, i) ==
  /\ registries[r][s] = 0
  /\ registries' = [registries EXCEPT ![r][s] = i]
  /\ UNCHANGED <<globally, roots, builders, made, given, told, tellings>>

\* remove()
Unregister(r, s) ==
  /\ registries[r][s] # 0
  /\ registries' = [registries EXCEPT ![r][s] = 0]
  /\ UNCHANGED <<globally, roots, builders, made, given, told, tellings>>

-----------------------------------------------------------------------------
Saying(telling, what, i) == [telling EXCEPT ![what] = Append(@, i)]

Give == given < MaxGiven /\ given' = given + 1

\* withEventBus() and withUnitOfWork(): of the registry builder, for the services
\* to come, and of a builder.
GiveRoot(r, what) ==
  /\ Give
  /\ roots' = [roots EXCEPT ![r] = IF what = "bus" THEN [@ EXCEPT !.bus = given']
                                   ELSE [@ EXCEPT !.unit = given']]
  /\ UNCHANGED <<registries, globally, builders, made, told, tellings>>

GiveBuilder(b, what) ==
  /\ Give
  /\ builders' = [builders EXCEPT ![b] = IF what = "bus" THEN [@ EXCEPT !.bus = given']
                                         ELSE [@ EXCEPT !.unit = given']]
  /\ told' = [told EXCEPT ![b] = Saying(@, what, given')]
  /\ UNCHANGED <<registries, globally, roots, made, tellings>>

AddBuilder(builder, telling) ==
  /\ Len(builders) < MaxBuilders
  /\ builders' = Append(builders, builder)
  /\ told' = Append(told, telling)
  /\ UNCHANGED <<registries, globally, roots, made, given, tellings>>

Service(r, s) ==
  AddBuilder([registry |-> roots[r].registry, id |-> s, bus |-> roots[r].bus,
              unit |-> roots[r].unit, dependencies |-> <<>>],
             [bus |-> <<roots[r].bus>>, unit |-> <<roots[r].unit>>, dependency |-> <<>>])

WithDependency_SharesList(b, i) ==
  /\ Len(builders) < MaxBuilders
  /\ builders' = LET longer == [builders[b] EXCEPT !.dependencies = Append(@, i)]
                 IN  Append([builders EXCEPT ![b] = longer], longer)
  /\ told' = Append(told, Saying(told[b], "dependency", i))
  /\ UNCHANGED <<registries, globally, roots, made, given, tellings>>

\* A copy with one dependency more; the builder it is called on stays as it is.
WithDependency(b, i) ==
  AddBuilder([builders[b] EXCEPT !.dependencies = Append(@, i)],
             Saying(told[b], "dependency", i))

\* The service that is registered now; without one it throws.
DependsOn(b, s) ==
  LET i == registries[builders[b].registry][s]
  IN  i # 0 /\ WithDependency(b, i)

\* unitOfWork.getEventBus(): every unit of work has a bus of its own.
BusOfUnit(unit) == MaxGiven + unit

\* setEventBus() and then setUnitOfWork(), which sets the bus again.
BusOf(aware, bus, unit) == IF "bus" \notin aware THEN 0
                           ELSE IF "unit" \in aware /\ unit # 0 THEN BusOfUnit(unit) ELSE bus

\* buildSync(): the factory with the dependencies, then the setters it has.
BuildSync(b) ==
  LET builder == builders[b]
  IN  /\ Len(made) < MaxMade
      /\ made' = Append(made,
           [id |-> builder.id, dependencies |-> builder.dependencies,
            bus  |-> BusOf(Aware[builder.id], builder.bus, builder.unit),
            unit |-> IF "unit" \in Aware[builder.id] THEN builder.unit ELSE 0])
      /\ tellings' = Append(tellings, told[b])
      /\ UNCHANGED <<registries, globally, roots, builders, given, told>>

Next ==
  \/ GetInstance
  \/ \E r \in DOMAIN registries :
       \/ SetInstance(r)
       \/ \E s \in Services : Unregister(r, s) \/ \E i \in DOMAIN made : Register(r, s, i)
  \/ \E r \in {0, globally} : CreateRoot(r)
  \/ \E what \in {"bus", "unit"} : \/ \E r \in DOMAIN roots : GiveRoot(r, what)
                                   \/ \E b \in DOMAIN builders : GiveBuilder(b, what)
  \/ \E r \in DOMAIN roots, s \in Services : Service(r, s)
  \/ \E b \in DOMAIN builders :
       \/ BuildSync(b)
       \/ \E s \in Services : DependsOn(b, s)
       \/ \E i \in DOMAIN made : WithDependency(b, i)

Spec == Init /\ [][Next]_vars

-----------------------------------------------------------------------------
TypeOK ==
  /\ globally \in 0 .. Len(registries)
  /\ Range(registries) \subseteq [Services -> 0 .. Len(made)]
  /\ \A r \in Range(roots) \cup Range(builders) : r.registry \in DOMAIN registries
  /\ DOMAIN told = DOMAIN builders /\ DOMAIN tellings = DOMAIN made

\* A service is made of what was said along the chain of calls that led to its
\* builder: the dependencies in their order, as they were registered then, and
\* the last unit of work; its bus is that of this unit of work, and the last bus
\* it was told only when it takes no unit or was told none.  Calls on other
\* builders of the chain, on the registry builder and on the registry change
\* nothing of it (ServiceBuilder.withDependency, buildSync,
\* ServiceRegistryBuilder.service, UnitOfWorkAwareDomainService.setUnitOfWork).
MadeAsTold ==
  \A i \in DOMAIN made :
    /\ made[i].dependencies = tellings[i].dependency
    /\ "unit" \in Aware[made[i].id] => made[i].unit = Last(tellings[i].unit)
    /\ "bus" \in Aware[made[i].id] =>
         \/ /\ "unit" \in Aware[made[i].id] /\ made[i].unit # 0
            /\ made[i].bus = BusOfUnit(made[i].unit)
         \/ /\ "unit" \notin Aware[made[i].id] \/ Last(tellings[i].unit) = 0
            /\ made[i].bus = Last(tellings[i].bus)

=============================================================================
