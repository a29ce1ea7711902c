# A formal model of the ddd2 library

TLA+ modules that model the TypeScript library `libs/ddd2` of this repository
(building blocks for domain-driven design: aggregates, repositories, event
buses, projections, an outbox, domain services, an anti-corruption layer,
validation) and one projection of its sample application; TLC runs that check
them on small instances; and theorems, checked by TLAPS, that hold for every
value of the constants.

- `<Component>.tla`: the specification of a component: state, `Init`, one
  action per operation or step, `Next`, `Spec`, its properties.
- `<Component>Proofs.tla`: theorems about it.
- `MC<Name>.tla` with a `.cfg`: instances for TLC.
- `PROJECT.json`: the source lines behind every definition, the runs, the
  hazards of the code and the properties that watch them.

To check a run: `tlc -config Repository.cfg MCRepositorySave`. To check proofs:
`tlapm StoredStateProofs.tla`.

## 1. The system

The library has one thread. What makes it hard is that almost every operation
is `async`: between two `await`s anything else that was started may run, a
promise may be rejected, and, where state is persisted, the process may stop.
No component takes a lock. The models therefore make **every await a step
boundary** and everything between two awaits one atomic action.

| component | its state | operations | interacts with |
|---|---|---|---|
| Outbox message processor (`message-processor/`) | handler map, running flag, timer | registerHandler, start, stop, timer tick, processMessages, processMessage | outbox repository (interface), handlers |
| Outbox (`outbox/`) | the messages, their status and attempts | the calls of `IOutboxRepository`; only an interface here | processor |
| Aggregate root (`core/domain/aggregates/`) | version, initialVersion, pending events, capabilities | apply, commit, loadFromHistory, add/removeCapability, snapshots, audit wrappers, event store calls, upcasting | event store, repository |
| Aggregate builders and utilities | none of their own | withX, build, operations if capable, processAggregatesWithCapabilities | aggregates |
| Repository (`core/repositories/`) | none of its own | save: version check, persist event by event, dispatch | persistence handler, dispatcher |
| Event dispatcher and processors (`core/events/`) | middlewares, processors | dispatchEventsForAggregate, use; integration and audit processors | aggregate, buses, context router, audit store |
| Event buses (`core/events/`) | handlers by event type, contexts of handlers | subscribe, unsubscribe, publish, clearHandlers | handlers |
| Integration events (`core/events/integration/`, `outbox/`) | transformers by event type; metadata, idempotency keys | register, transform, create message, decorate a handler | router, outbox, handlers in other contexts |
| Context router (`core/events/integration/`) | routing rules | send..., configure, clear, determineTargetContexts | integration processor |
| Projection engine (`core/domain/projections/`) | read model store, checkpoint, event counter, dead letters | processEvent, rebuild, reset, hooks, retry | stores, capabilities |
| Projection builders, registry, processor | engines by projection name, snapshots | create, withX, register, remove, handle | engines, event dispatcher |
| Error projection | counts and recent errors | apply | projection engine |
| Circuit breaker capability | circuit, counters, last failure time | the three hooks | projection engine |
| Domain services (`services/`) | factories, dependencies, registry; unit of work of a service | registerFactory, initializeServices, build, registry operations; executeInTransaction | units of work, event bus |
| Service builders, global registry | bus, unit of work, dependencies of a builder | createService, withX, build, buildAndRegister | registries |
| Anti-corruption layer (`acl/`) | operations, middlewares; adapters by context and version | execute with pipeline and timeout; register, get, import | external system |
| CQRS buses (`cqrs/`) | handlers, middlewares, metrics | register, discover, use, execute; the configuration that makes both | handlers, validators |
| Validation rules (`validations/`) | the rules of a validator | addRule, addNested, when, otherwise, and, combine, validate | specifications |
| Specifications, core rules, rule registry, paths | objects that refer to each other; `lastIndex` of a pattern | and, or, not, asRule, register, validatePath, forNestedPath | validators |
| Policies (`policies/`) | the members of a policy | and, or, check, isSatisfiedBy | specifications |
| LibUtils.deepEqual (`utils/`) | pairs visited in a call | deepEqual | value objects |
| Orders summary (sample, `src/src/order2`) | orders, statistics | apply of three events | projection engine |

What has to hold for each to be correct is in section 4. The parts that are
not modelled (types, error classes, examples, the rest of the sample
application) are listed in `PROJECT.json` with the reason.

The hard behaviours, with their lines, are the 40 hazards of `PROJECT.json`.
They fall into few families: two activations of one asynchronous operation
(ticks, saves, events in flight, dispatches, transactions); a value read before
an await and used after it; a step that is rejected after an earlier one took
effect; a retry of something that had been done; legal calls in an order nobody
tried (audit attached twice, replay onto a loaded aggregate, nested callbacks).

## 2. The modules

In the order they were written, the most important behaviour first. "→" reads
"uses".

| module | models | composition |
|---|---|---|
| `OutboxStatus`, `OutboxLifecycle` | the statuses of a message; the lifecycle the guide documents | abstract specification |
| `MessageProcessor` | the processor and its timer over an outbox | implements `OutboxLifecycle` |
| `AggregateState` | what apply, commit and loadFromHistory do to version and events | used by the next two |
| `RepositorySave` | several callers that load, change and save copies of an aggregate, with the dispatch of the events | → `AggregateState` |
| `AggregateRoot` | one aggregate with snapshot, audit and event sourcing capabilities and an event store | → `AggregateState` |
| `EventUpcasting` | the versioning capability | |
| `AggregateTools` | builders of aggregates, and utilities over many of them | |
| `ProjectionEngine`, `CircuitBreaker` | the engine, its retries, checkpoint and dead letter capabilities; the breaker | |
| `ProjectionHub` | builders, registry and processor of several engines, with snapshots and restarts | engines in one step; their inside is `ProjectionEngine` |
| `ErrorProjection` | the read model of the system's errors | |
| `EventBus` | both in-memory buses | |
| `ContextRouting`, `ContextRouter` | what rules mean; how they are configured | pure operators; a machine over them |
| `EventDispatch` | dispatcher, middlewares, integration and audit processors | → `ContextRouting` |
| `IntegrationFlow` | an event from its context over transformers, copies and the outbox to consumers | |
| `CommandBus` | command bus, discovery, middlewares, the metrics of the enhanced bus | |
| `CqrsModule` | both buses under one configuration | EXTENDS `CommandBus` for commands, INSTANCEs it for queries |
| `ServiceContainer` | container, registry, builder | |
| `ServiceBuilding` | builders of services and of registries, copied and gone on with | |
| `ServiceTransaction` | executeInTransaction of a unit-of-work aware service | |
| `AclAdapter`, `AclRegistries` | an adapter's pipeline and timeout; versions, contexts, import | |
| `BusinessRules`, `Policies` | building validators and policies, and judging every value | |
| `Specifications` | specifications and the validators made of them | |
| `CoreRules` | the core rules, a pattern that remembers, validation along paths | |
| `DeepEqual` | deepEqual as an explicit stack over any object graph | |
| `OrderProjection` | the sample's orders summary | |

The `MC` modules put several components into one TLC run, as *parts*: a variable
`part` (`moving` in `MCProjections`, `bus` in `MCBuses`) is chosen initially, and a behaviour moves
the component of its part and leaves the others where they began. The parts
share no state, so such a run is the union of separate checks; nothing is
claimed about their interaction. Components that do interact in the code
interact inside one module: processor and outbox, repository with aggregates and
dispatcher, aggregate with event store, dispatcher with router and processors,
projection processor with registry, builders and snapshot stores, transformers
with outbox and consumers, the configuration with both buses.

### How state and actions correspond to the code

**MessageProcessor.** A *run* is one activation of `processMessages` (of a tick
or a direct call) or of `processMessage`. `pc` says which await it is at, `queue`
what is left of its batch. `StartProcessing`, `StopProcessing`, `Tick`,
`RegisterHandler` are the methods; `Fetch`, `PickUp` (updateStatus PROCESSING),
`Handle`, `MarkProcessed`, `IncrementAttempt`, `MarkFailed` are the awaits of the
loop and of `processMessage`. Each call of the repository takes effect or is
rejected without effect. `Crash` loses everything but the outbox. The repository is
the application's: `FetchStatuses` says which statuses its
`getUnprocessedMessages` returns. Middlewares pass a message on or throw and are
part of the handler's call. `handled` and `unmarked` are history variables.

**RepositorySave.** Each caller has a copy (`agg`); `stream` is what the
persistence handler holds, `published` what the bus was given. `CheckVersion`,
`PersistEvent`, `DispatchEvent` and `Finish` are the awaits of `save` and of
`dispatchEventsForAggregate`. `Exclusive` and `ApplyDuringSave` say what the
application allows itself; the code neither enforces nor documents either.

**AggregateRoot.** `Liberties` lists what an application does without being
stopped: use the aggregate while a call awaits the store (`overlap`), load
whatever state it is in and rebuild from whatever version (`reload`), snapshot with changes pending (`dirty`), go
on after a replay threw half way (`reuse`). A call of the event sourcing
capability has three steps: `Call`, `StoreAnswers`, `Return`. The event store is
external: it takes the events if they lead from its version to the one it is
told. An apply that an audit wrapper refuses throws before anything is
recorded, so it is no step. `EventUpcasting` registers and detaches upcasters
and raises one event at a time. **AggregateTools** takes
`processAggregatesWithCapabilities` apart: `Skip`, `Call` and `Return` are the
turns of its synchronous loop, and a processor that is inside may give and take
capabilities; `Settle` is a promise among those the utility awaits together.

**ProjectionEngine.** Events are positions and a read model is the sequence of
the events applied, so that losing, repeating and reordering show. `Load`,
`InitState`, `ApplyAndSave`, `AfterApply`, `SaveCheckpoint` are the awaits of
`processEvent`; `Retry` and `GiveUp` the two ends of its catch block. In
**CircuitBreaker** time is an age that `Tick` advances; calls that were admitted
end in whatever state the circuit is in by then.

**ProjectionHub.** Engines are numbered as they are made. `NewEngine` is
`create` and also `withRetryStrategy`, which starts over with an engine without
the capabilities given before; `WithSnapshots` replaces a capability by one that
has counted nothing. `Process` hands an event to every registered engine that is
interested; each loads, applies and saves in one step, then takes its snapshot in
another, and an error of one is swallowed. `Restart` forgets engines and registry,
not the stores. `Careful` says that an engine with snapshots is resumed, and put into
service, between events, and not built on afterwards, which the code does not
ask for.

**EventBus.** A publication walks over the *live* set of handlers in insertion
order: `CallHandler` enters one, which may subscribe, unsubscribe or publish
before it `Returns` or `Throws`; `EndLoop`, `Fulfil` and `Reject` are
`Promise.all`. The module follows one event type; all that types share is the
context of a handler (`handlerContexts` has the handler for its key), and
`SubscribeElsewhere` is a subscription under another type that sets it.
`MaxStamps` bounds insertions, which the code does not bound: what follows from
that alone is not claimed (`PublicationsSettle` has the end of insertions for
its hypothesis). **CommandBus** keeps the shared pipeline index that `next` moves. In
**CqrsModule** the type of each bus is an option of its own, and the constructor
is a sequence of phases, any of which may throw and lose the buses it made; the static registry that the decorators fill outlives
it, and another constructor may be tried.

**EventDispatch.** The captured events, the pipeline of middlewares, the domain
bus and then each processor. A sink that rejects ends the dispatch; the caller
may repeat it. A save of the audit store that rejects may have stored the entry
before. A middleware calls `next` at most once; one that calls it again delivers
again, which nothing prevents (section 7).

**IntegrationFlow.** Metadata are what the module is about: `Transform` makes one
integration event per target with an id of its own; `Copy` and its like follow
what serialization and `with...` methods keep; an outbox message is of one event;
`Deliver` hands any message, any number of times, to the handler of its type,
inherited or not, in the target context, which skips a key it has seen. Delivery
and the consumer's memory of keys are external: the library makes the keys.

**ServiceContainer.** `Start` begins `initializeServices`; `Create`, `Skip`,
`NextPass`, `Circular` are the iterations of its loop; `FactoryThrows` ends it.
Asynchronous services and `buildAndRegister` finish in steps of their own, which
is where they race. **ServiceTransaction** re-reads the `field` of the unit of
work exactly where the code does. **ServiceBuilding** gives every call of a
chain its own step: one that mutates the builder and one that copies it differ,
and whoever holds an earlier builder may go on with it. `told` keeps what was
said along each chain. Giving a service its unit of work comes last and replaces
its event bus by the one of that unit (`BusOf`).

**AclAdapter** separates the answer of the external system, the timer, and what
the caller is told. **BusinessRules** and **Policies** have an action for every
builder call; a callback of `when` or `otherwise` is a frame on `open`, entered,
filled and left by steps, and may throw. **DeepEqual** turns the recursion into
a stack of frames. In **Specifications** a program makes objects of those it
has, and a candidate is the value of the one property the tests read, null and
undefined included. **CoreRules** sees of a value what the rules see (absence,
length of its text, number, places where a pattern occurs) and keeps the
`lastIndex` of a pattern with the `g` flag from value to value.
**ErrorProjection** has one action per event. **OrderProjection** keeps the
orders themselves beside the summary: `Create`, `Ship` and `Cancel` are methods
of the sample's order aggregate whose event the summary gets, `Elsewhere` the
steps of an order (paid, delivered) of which it is not told, `Redeliver` the last
event once more; `listings` counts how often a placed order was delivered.

### Definitions with an underscore

`MarkProcessed_Forgets`, `Applied_StampsFirst` and the like are deliberately
wrong variants of the definition they precede (a guard dropped, a step
forgotten, an order swapped). No specification uses them. Each was put in the
place of the right one to confirm that a property notices; `PROJECT.json` pairs
variants with properties.

## 3. Abstract specifications

- `OutboxLifecycle`: a message is saved, picked up, and ends PROCESSED or FAILED,
  from where it may be picked up again; PROCESSED is final and only reached once
  delivered. `MessageProcessor` implements it when batches do not overlap
  (`ImplementsLifecycle`, refinement mapping `delivered <- {m : handled[m] > 0}`).
- The other components are held against a *reference definition* kept as a
  history or computed apart: the fold of the history (`StateIsHistory`), the
  contexts a configuration meant (`RoutesAsMeant`), what was said along a chain of
  calls (`MadeAsTold`), the keys a consumer has seen (`RepeatsHaveNoEffect`),
  bisimilarity of graphs
  (`EqualIsProved`), what was written under which condition
  (`ReportsWhatWasWritten`), conjunction and disjunction of members
  (`CombiningMeansWhatItSays`).

## 4. What the runs check

| run | parts | what it shows |
|---|---|---|
| `outbox_serial` | one run | lifecycle refinement; a second hand-over needs a completion that was not recorded; every saved message is processed once disruptions cease |
| `outbox_overlap` | two overlapping runs, direct calls, crashes | PROCESSED still means handled; one timer while running, none otherwise |
| `repository` | exclusive, racing, calm | in all: version, initialVersion and events of each copy agree; nothing is published that is not persisted; no event is lost. Exclusive: the stream is numbered, a success leaves the copy current, no event is published twice. Calm: every persisted event is published |
| `aggregates` | disciplined, free, upcasting, tools | the state is the fold of the history claimed; no applied event disappears; the audit trail is complete; whatever liberties are taken, the event store is numbered; events are raised step by step and only a gap stops them; when the processing of a list resolves, every processor of every aggregate that had the capability throughout has settled |
| `projections` | plain, retrying, letters, overlap; breaker under any and under pausing traffic; hub | an event that ended well is in the read model, once and in order; a dead letter is not; of overlapping calls only events in flight together may be lost; every registered engine gets an event whatever the others do; a checkpoint and, for engines resumed before they serve, a snapshot resume without loss; every event settles; the circuit opens and closes by its rules and recovers after a pause |
| `buses` | handled, rethrowing, contexts, commands, cqrs | every handler subscribed throughout is called, once, in order, whatever the others do meanwhile; no event of a foreign context unless the handler was subscribed for that context under another type; of a publication in trouble somebody hears; publications settle once insertions end; no command handler runs before all middlewares were entered; discovery completes when repeated; the metrics add up; a configuration that was constructed has what it was given on both buses, after failed constructions too |
| `dispatch` | serial, retried, overlap, router, flow | an event leaves the aggregate only when every sink has it, in order, domain bus first, again only after a failure; a repeated dispatch delivers in the end; rules route an event to the contexts meant, once; a consumer skips no event it had not seen, and takes each once where its id or key was kept |
| `services` | graphs, lifetimes, transactions, building, call, registries | creation after dependencies, giving up only on services no order could create, `initializeServices` ends, registered services are not replaced; a built service has what was said along its builder's chain and nothing else, the bus of its unit of work when it has one; a transaction's outcome is what the caller is told and no call ends another's; late answers and repeated `next` change nothing; the latest version is the greatest, an import replaces what it reports |
| `values` | graphs, trees, rules, several, core, paths, specifications, policies, orders, errors | `deepEqual` ends and answers true only on equal graphs, and false only on different trees; validators report exactly the written rules that fail; the core rules accept only what is within bounds and matches; the ways to validate along a path agree but for two cases; policies and specifications combine as conjunction and disjunction; the summary has every order as often as it was told of it, with the status it has or had when last told, and its statistics are those of the list but for shipments; the errors are counted and the newest remembered |
| `processor_reopens` | — | *violation*: overlapping batches take a message out of PROCESSED |
| `repository_lost_update` | — | *violation*: two saves from one version both append |
| `rules_nested` | — | *violation*: a rule under a condition under a condition is checked although the inner one does not hold |

### Bounds, and why they are enough

Every bound is a constant `Max...` in a guard or in the number of actors.

- **Actors**: two (runs, callers, calls, workers; three in `services` for
  transactions). Each race in the code is between two activations; the third
  transaction call adds one that overlaps with an end and a begin.
- **Messages, events**: two messages of two types and priorities (order and
  types matter, a third adds nothing new); 3 or 4 events, so that a batch has a
  first, a middle and a last, a checkpoint interval of 2 fills twice, and a
  replay can stop half way.
- **Failures**: 1 to 4, enough for a failure inside the handling of a failure,
  and, for the engine, for all three attempts to fail and another event to fail
  after that. `MaxCount` saturates history counters; 2 or 3 tells "none", "once",
  "again" apart.
- **Structures**: all dependency graphs of three services; all graphs of three
  objects with two keys and trees of four; programs of up to three rules, of up
  to four policies, routers of two rules with every kind of condition; four events
  of two orders; programs of four specifications and validators, rules and folds of up to two,
  on every candidate; all
  strings of the core rules up to length three, and paths of up to three steps
  through every kind of value; four errors in three units of time.
- **Around the components**: two engines of two projections, four events and one
  restart (a snapshot interval of two fills twice, and an engine takes the place
  of another); one command and one query type, enhanced or not each for
  itself, one middleware given and one added, two constructions; two handlers and
  three insertions on a bus, so that one leaves and subscribes again during a
  publication (two where contexts multiply the states); one transformer at a time, for two contexts or for
  everyone, two messages, two deliveries (the second is the repetition); one
  registry, two builders and two services, so that a builder is copied and both
  are used; lists of two aggregates, the same one twice included.
- `LifetimeNext` in `MCServices` looks only at graphs without self-dependency and
  at containers that are given their bus and unit of work before they create
  anything; what happens otherwise is described in section 7.
- Runs check deadlock unless the system may really stop (a call that has been
  answered, a program that is built, a list that is processed); those say so in their `.cfg`.

### Fairness, and why the code justifies it

Only two kinds of step are fair. *Steps of the code itself that nothing holds
up*: the event loop runs a continuation whose promise has settled, `setInterval`
fires, the loop of `initializeServices` and the recursion of `deepEqual` run on.
*Promises of the environment settle*, which no retry logic could do without:
`WF` on the steps of a run, a save, an engine call, a dispatch. Strong fairness
is used nowhere. Callers are not fair, except where the property is about them:
`calm` (a caller retries its save), `retried` (a failed dispatch is called again)
and the application that registers its handlers and starts the processor after a
restart. The external system behind an ACL adapter owes no answer; that is what
the timeout is for. In `pausing` the traffic pauses for longer than the recovery
timeout now and then: without it `CircuitRecovers` is false (section 7).

`EveryMessageProcessed` assumes an outbox that also hands out messages left
PROCESSING (`RecoveringFetch`).

## 5. What is proved

All constants are arbitrary within the named assumptions of the modules, and
within the hypothesis given in the last column. "Run" names the property of a
run that the theorem states; the run shows it for a few values, the theorem for
all of them.

| module | theorem | run | statement, and under which hypothesis |
|---|---|---|---|
| `MessagingProofs` | `TypeCorrect` | `TypeOK` | types; a run holds a message exactly while in the loop |
| | `ProcessedOnlyAfterHandling` | `ProcessedWasHandled` | PROCESSED only after a handler completed the message |
| | `TimersFollowTheFlag` | `OneTimer` | one timer while running, none otherwise |
| | `RedeliveredOnlyAfterLoss` | `RedeliveryNeedsLoss` | batches do not overlap (`Serial`): a second hand-over takes a completion that was not recorded |
| | `ImplementsTheLifecycle` | `ImplementsLifecycle` | `Serial`: the processor refines `OutboxLifecycle` |
| | `SerialProcessedIsFinal` | | `Serial`: PROCESSED is final, which overlapping batches violate (`processor_reopens`) |
| | `HandlersAreServed` | `HandlersServed` | any handlers, publications, contexts, subscriptions under other types included; an error handler is given |
| | `TroubleIsHandled`, `ResolvedIsHandled` | | the safety half of `PublicationsEndWell`: of a publication with trouble somebody hears an error, and with an error handler publish never rejects; without one, a publish that resolves waited for every promise |
| | `CommandsGoThrough` | `CommandsThroughMiddlewares` | any commands, registrations, middlewares, failing discoveries |
| | `ConfigurationIsMade` | `ConfigurationHolds` | any number of constructions, failed ones included |
| `StoredStateProofs` | `TypeCorrect`, `CopiesStayConsistent` | `TypeOK`, `CopiesConsistent` | for every setting, races and changes during a save included |
| | `PublishedWerePersisted`, `EventsAreKept` | `PublishedArePersisted`, `NoEventLost` | copies are left alone while being saved |
| | `StreamStaysNumbered`, `SavesLeaveCopiesCurrent` | | if moreover saves exclude each other |
| | `ExclusiveSavesHold` | `ExclusiveSaves` | in the part where saves exclude each other: the two above, and no event is published twice |
| | `ReadModelsAreRight` | `ReadModelRight` | every part of the projections, the overlapping calls and the hub included |
| | `CircuitKeepsItsRules` | `CircuitByTheRules` | any traffic |
| | `EnginesResume` | `StoredResumes` | checkpoints one call at a time; snapshots of engines that are resumed before they serve (`Careful`) |
| `ProjectionEngineProofs` | `TypeCorrect` | | any settings, overlapping calls included |
| | `NothingIsLost`, `OrderIsKept`, `RetriesApplyOnce`, `CheckpointsResume` | | one call at a time |
| | `DeadLettersWait` | | moreover neither checkpoints nor rebuilds |
| `AggregateRootProofs` | `TypeCorrect`, `AuditsAreComplete`, `StoreStaysNumbered` | `StoreNumbered` | whatever liberties the application takes |
| | `EventsAreKept` | | nobody uses the aggregate during a call to the store (`"overlap" \notin Liberties`) |
| | `StateFollowsHistory` | | no liberties (`Liberties = {}`) |
| `MCAggregatesProofs` | `DisciplineKeepsHistory` | `DisciplinedHistory` | no liberties in the disciplined part; types in all parts |
| | `StoresStayNumbered` | `StoreNumbered` | every part, all liberties included |
| | `EventsRaised` | `EventsAreRaised` | whatever upcasters come and go, up to any version |
| | `AllAreProcessed` | `AllWereProcessed` | any capabilities, lists and processors |
| `EventDispatchProofs` | `TypeCorrect` | | |
| | `DomainHearsFirst` | | no middleware drops events |
| | `ClearedWasDelivered`, `OrderIsKept` | | no event is applied during a dispatch; dispatches may overlap |
| | `RepeatsAreFailures` | | dispatches one at a time, every kind of processor once |
| `MCDispatchProofs` | `DispatchDelivers` | `ClearedAreDelivered` | the hypotheses of the four above for the parts `serial` and `retried`; the part `overlap` has its own |
| | `RoutedAsMeant` | `RoutedOnceAsMeant` | no constant condition `false` (section 7 says what that does) |
| | `ConsumersTakeOnce` | `ConsumersTakeEachOnce` | any transformers, copies, messages and deliveries |
| `ServiceTransactionProofs` | `OutcomeTold`, `OnOwn` | `OutcomeIsTold`, `KeepsToItsOwn` | while the unit of work stays set: outcomes are told as they are, calls keep to their own transactions |
| | `ServicesAreBuiltAsTold` | `BuiltAsTold` | any services, registries, units of work with buses of their own, and chains of builders |
| `MCAggregatesProofs` | `ComparisonTypes`, `NeverEnteredTwice`, `TrueAnswersAreProved` | `EqualIsProved` | for every heap, circular or not |

The hypotheses are the ones under which the code is meant to be used; what
happens without them is in section 7, with the configuration that shows it.

The arguments:

- *Processor.* `ProcessedWasHandled` is not inductive: a run about to store
  PROCESSED must have handled its message. `CompletionInv` adds that, for every
  run at the step `mark`; overlapping runs only ever raise `handled`. For the
  refinement `SerialInv` adds what a single run may rely on: the message it
  holds has the status its step implies, since nobody else writes it, and a
  message is handed out with as many completions as were lost. A crash is a
  stutter of the lifecycle.
- *Event buses.* `PublicationInv` relates a publication that walks over the live
  set of handlers to that set. No two subscriptions have one stamp
  (`StampsDiffer`); what was called was called at its stamp, in increasing order
  and not past the cursor (`CalledAt`, `Walk`); and a handler that was subscribed
  when the publication began, and has not been removed or renewed since, has been
  called or lies ahead of the cursor (`Expects`). Other publications, and handlers
  that subscribe or unsubscribe inside a call, only add behind the last stamp or
  take out of what is expected. `TargetInv`: the context that a handler is
  filtered by is the one its last subscription gave it, under this type of event or
  another.
  `NoErrorGetsOut` and `RethrownInv` follow the promises a publication collected.
- *Commands.* `CommandInv`: an execution is nowhere deeper in the pipeline than
  the shared index, which is not past the middlewares; what a discovery has not
  made yet is still to be visited, so that at its end nothing is missing. The
  metrics need counting: one step settles one execution and counts one, and the
  sums over all executions follow (the lemmas on tallies).
- *Configuration.* `ConfigurationInv`: nobody executes before the constructor is
  done (`NoCallsYet`); phase by phase, what was decorated before it began has been
  found or is still to be visited (`FoundSoFar`); both buses have the middlewares
  of the options given so far (`BothHaveThem`). A constructor that throws leaves
  only the static registry, and the next one begins with empty buses.
- *Repository.* `Shape` is types, agreement of copies, and that a save under way
  has pending events. `Kept` adds `Progress`: at `persist` the events that are not
  in `todo` are in the stream, at `dispatch` those not in `todo` are published and
  all are in the stream. `Ordered` says, for exclusive saves, that at most one
  save is under way (`Alone`) and that what it has left continues the stream
  (`Continues`), so that appending keeps it numbered.
- *Aggregate.* A save in flight carries events numbered from its expected
  version (`NumberInv`), and the store takes them only if they continue it: that
  alone makes the numbering independent of every liberty. `AuditInv` adds to the
  trail that a log was begun no later than now and that only applied events are
  poisoned. `EventsAreKept` needs, without overlap, that a save in flight carries
  exactly what is pending, and that once it is answered the store has it
  (`KeptInv`). `StateFollowsHistory` is the longest: `HistoryHolds` says that the
  state is that of the history whenever the version accounts for the changes, and
  that the snapshot has the state of the stored events up to its version;
  `CallLeadsOn` says what a call in flight will make true: a save answered leaves
  the store with the aggregate's own events at its end, and a load brings the
  stored events after the initial version of an aggregate with nothing pending.
  `Without`, a fold over the history, is handled by lemmas on append,
  concatenation and irrelevant ids.
- *Raising.* While an event is being raised its version is where it started plus
  the steps taken, and below the latest (`RaisingInv`); the latest version is the
  greatest registered one plus one (`LatestIs`), which the code computes by
  sorting.
- *Utilities.* `UtilitiesInv` is stated job by job. A job is inside the last call
  made (`InsideInv`); has called only what was had at some time (`KnownInv`); is past
  everything it called (`BehindInv`), which gives the order; and has called all
  it went past of what was had all along (`CalledInv`), which at the end is
  everything. What counts as had all along is had now, what is had while a job
  is active counts as had (`HavingInv`): so a processor that takes a capability away
  or gives one breaks neither.
- *Dispatch.* `DispatchInv` relates a caller's position among the processors and
  sinks to what each sink received. `WaitInv` says that every applied event is
  pending or delivered, and is delivered or in the queue of every busy caller: so
  a caller may clear what another one captured, nothing being applied meanwhile.
  `OrderInv` carries the order. `RepeatsAreFailures` counts (`CountInv`): a sink
  received an event at most once more than dispatches failed, and not more often
  while the dispatch under way has still to reach it.
- *Router.* `RouterInv`: a context is meant to get a type exactly when a rule in
  force sends it there, however the calls that configured the rules overlapped.
- *Integration flow.* An event id belongs to one occasion and one target
  (`IdsInv`). What a consumer has seen contains the key of everything delivered to
  it, and each such key was drawn at random or is that of a delivery that had its
  effect (`SeenInv`). So what is skipped was taken before (`NoneSkipped`), and the
  same telling does not have its effect twice (`NoneRepeats`).
- *Transactions.* `Holds`: a call inside its transaction began it on the unit the
  field holds, and that unit is open for it and for nobody else. Everything is
  asserted only while no change of the field was counted (`UnlessChanged`), since
  the code promises nothing afterwards.
- *Builders of services.* `BuildingInv`: each builder follows what was said along
  its own chain, each service has what its builder had when it was made, and
  every builder has a registry that exists.
- *One call of an engine at a time.* `SerialInv` says what the call under way has at
  each step (`Stands`): what it loaded is still what is stored, what it saved is in
  the model, and every published event has failed, is in the model or is in its
  hands. `ReadInv` adds that its event is the greatest so far and, before it is
  saved, in the model only if its checkpoint was rejected (`torn`): that bounds
  repetition. `LettersInv` adds that the event in hand is not a dead letter.
- *Overlapping calls.* `OverlapInv(t)` is stated for a set `t` of events that
  contains all that calls had in hand while they were under way together
  (`AreTogether`). A call about to save holds everything settled but for `t`, since
  what was settled after it loaded was in the hands of another call at the same
  time; so its save loses nothing outside `t`. `together` of the run is such a set.
- *Circuit breaker.* `ClosesAfterProbes` needs what `BreakerInv` adds: a half open
  circuit has counted fewer successes than would close it, and each of them was a
  call that ended well since the circuit became half open.
- *Hub.* An engine is at work for at most one event, and engines at work are of
  different projections (`HubTypes`); one about to take a snapshot has stored the
  event last (`AtWork`). A snapshot is a prefix of the read model, and what
  follows it there is newer than its position (`ModelsKept`), which stays true
  because a read model only grows at its end and by newer events. Versions grow
  since the engine that is in service or at work has one not below any taken so
  far, and below none it is about to take (`VersionsGrow`); this is where `Careful`
  is needed.
- *deepEqual.* `EqualIsProved` speaks of the end. `Accounted` carries it there:
  every key of a visited pair is either alike on both sides or still to be
  compared by a frame of the stack. With the stack empty, the visited pairs form
  a bisimulation.

The theorems about the `MC` modules are about all their parts at once: a step of
a part is a step or a stutter of each component (`PartsStay`, `OneMoves`), so
the component's invariant holds in every part. Where a part is an `INSTANCE` of
a component with other constants (the aggregate that takes every liberty, the
overlapping dispatch, the four engines of the projections), the component's
proof module is instantiated with the same constants and its theorems are cited.
The bounds of the parts that were literals of the `INSTANCE` are constants of
`MCAggregates`, `MCBuses`, `MCDispatch`, `MCServices` and `MCProjections` with their
values in the `.cfg`, so that the theorems hold for all of them. What the instances
need of them is in the `ASSUME`s of these modules.

Assumed, not proved: the behaviour of the external parts, which are modelled
from how the library uses them (outbox repository, persistence handler, event
store, units of work, external systems, application handlers); that
JavaScript's run-to-completion makes the code between two awaits atomic.

Some definitions were given another form of the same meaning, since the provers
cannot expand the first one: a filter by `SelectSeq` is a recursive function
(`Without`), separate sequences (`told` in `ServiceBuilding`) or a statement about
a prefix and what follows it (`SnapshotsResume`), a set over a pattern of
tuples a set of pairs (`Having`), and a set of pairs a record of two sets
(`expected` in `CqrsModule`). Two were wrong in what they left
open and were corrected: `GenerateIdempotencyKey` was a `CASE` with guards that
overlap, whose value TLA+ does not determine though TLC takes the first, and is
now the chain of conditions of the code; `DispatchAssumption` asked for more than
the module needs.

## 6. What is only model-checked

- Liveness, and whatever rests on fairness or ENABLED: `EveryMessageProcessed`,
  `CalmSavesPublish`, `EventsSettle`, `CircuitRecovers`, `EventsArrive`,
  the ending of `initializeServices`, of timed calls, of comparisons. A property
  of a run that joins safety with such an ending (`InitializesInOrder`,
  `CallsEndAsAnswered`, `ComparisonEndsRight`, `PublicationsEndWell`) stays with TLC
  as a whole; of the last, the safety half is proved.
- `BusinessRules`, `Policies` and `Specifications`, whose judgement of nested
  structures is recursive, and with them whatever only `MCValues` states, since
  it brings them together: `SummaryIsCurrent` and the properties of validators,
  policies, core rules and errors.
- What the library's induction theorems say for every predicate cannot be cited;
  induction over the naturals is derived from well-founded induction for *sets*
  instead (`InductionOnNat`), which is enough for folds over a sequence but not
  for structures of unbounded nesting.
- The container and the registries of adapters: within reach, not proved
  (section 8).

## 7. Where code and documentation part

Three divergences have a run of their own (above). The following were met while
modelling. For those with constants in brackets, the counterexample appears when
the configuration of the module is changed that way; the others show directly in
the lines named.

- *Outbox.* FAILED is stored after the first failed attempt
  (`message-processor.ts:146`), though the guide says "after retries"
  (`HOW-TO-outbox.md:160`). If the catch block is itself rejected the message
  stays PROCESSING, and nothing retries it with the statuses the guide lets a
  retry start from [`FetchStatuses = {"PENDING", "FAILED"}`,
  `EveryMessageProcessed`].
- *Repository.* A rejected dispatch leaves persisted events that no retry
  publishes: the retry conflicts (`base-repository.ts:25`, `:40`), against
  `HOW-TO-repositories.md:284` [`MaxFailures = 1`, `PersistedGetPublished`];
  what the runs show of such a retry is that it repeats nothing. An event
  applied during the save is not persisted (`:20`), and published or lost with
  the commit (`event-dispatcher.ts:71`) [`ApplyDuringSave = TRUE`,
  `PublishedArePersisted`, `NoEventLost`; in `EventDispatch`, `ApplyMeanwhile =
  TRUE`, `ClearedWereDelivered`]. No run allows either.
- *Aggregate.* The same for `saveToEventStore`
  (`event-sourcing-capability.ts:55`) [`Liberties = {"overlap"}`,
  `NoEventLost`]. Replaying onto a loaded aggregate counts and handles events
  twice (`aggregate-root.ts:129`) [`Liberties = {"reload"}`, `StateIsHistory`],
  and so does rebuilding over changes or from a version that is not the initial
  one (`event-sourcing-capability.ts:110`). With both audit and snapshot
  capabilities every `apply` throws, since the wrapper calls `saveSnapshot`
  without the serializer (`audit-capability.ts:117`); removing audit makes every
  later `apply` throw (`:113`); an event whose handler throws is recorded but
  not audited (`:121`). `Blocked` and `AuditTrail` state these. An event that
  `apply` has just made carries no version and is raised like a stored one of
  version 1 (`versioning-capability.ts:80`); one without a handler is passed
  over (`:67`).
- *Projections.* Two events in flight: the later save overwrites the earlier
  update [`Overlapping = TRUE`, two workers, `NoUpdateLost`]; that nothing else
  is lost is part of `ReadModelRight`. An after hook that rejects fails a call
  whose read model is saved, and a retry applies the event again
  (`projection-engine.ts:191`); a rebuild that fails half way leaves the first
  events. `ReadModelRight` exempts both: the event is `torn` and may occur
  twice, what was not replayed counts as `failed`. The default retry list never
  retries a `ProjectionError`, into which every error has been wrapped by then
  (`projection-engine.ts:200`, `error-strategy.ts:34`): nothing is retried by
  default. `withRetryStrategy` of the builder drops the capabilities added
  before it. The snapshots of an engine that was not resumed start again from
  the first version (`snapshot-capability.ts`): `SnapshotsResume` claims growing
  versions only of careful applications.
  The breaker's own rejections renew its timeout
  (`circuit-breaker-capability.ts:65`): under steady traffic it stays open
  though the projection works again [`Traffic = "steady"`, `Recovers`].
- *Buses.* Without an error handler, a handler that throws keeps the later ones
  from being called (`base-event-bus.ts:129`) [`OnError = FALSE`,
  `EveryHandlerCalled`], and `Promise.all` returns before the other handlers
  have ended (`:136`). It tells of the first rejection: of those after it
  neither `onError` nor the caller hears (`TroubleIsTold` claims one error per
  publication). The loop goes over the live Set (`:113`): a handler that
  unsubscribes and subscribes itself again whenever it is called keeps `publish`
  going for ever, so that `PublicationsSettle` has the hypothesis that
  insertions end. Priorities are not read (`:113`). The contexts of handlers are
  kept by handler, for all types of event together
  (`in-memory-integraton-event-bus.ts:27`, `:50`): one subscribed to A for one
  context and later to B for another gets the events A targeted at the other,
  and `NoForeignEvents` excepts exactly these. A handler's context outlives its
  subscription (`:91`), and asynchronous errors of the integration bus bypass
  `onError` (`:116`).
- *Router.* A constant `false` routes everything (`context-router.ts:148`)
  [`Constants = {TRUE, FALSE}`, `RoutesAsMeant`].
- *Dispatcher.* The first middleware added runs first, against the comment at
  `event-dispatcher.ts:117`. Nothing keeps a middleware from calling `next`
  twice, which delivers twice; the model's middlewares call it at most once.
- *Services.* `initializeServices` returns while asynchronous services are still
  initializing (`domain-service-container.ts:179`, `HOW-TO-services.md:440`). A
  missing factory is reported as a circular dependency (`:172`). A later
  `setEventBus` reaches no service created before (`:153`). A service aware of
  both is given its unit of work after its bus (`service-builder.ts:225`), which
  replaces the bus it was told by that of the unit
  (`base-domain-service.ts:125`). When the unit of work is cleared during the
  operation, commit and rollback reach the wrong unit or none and the
  transaction stays open (`base-domain-service.ts:180`).
- *Adapters.* `registerSupportedOperations` runs in the base constructor, before
  the fields of `SimpleACLAdapter` are assigned (`base-acl-adapter.ts:191`):
  neither it nor its subclass can be constructed.
- *Integration events.* Without an event id the idempotency key is a random one,
  so a repeated message is not recognised; the models state exactly-once only
  for events that carry an id or a key of their own.
- *Validation.* A pattern with the `g` flag may refuse a value that matches,
  after one that did (`rules-registry.ts`). Of the two ways to validate along a
  path, `forNestedPath` refuses a null at the end and `validatePath` leaves it
  to the validator (`PathsAgree` names the cases).
- *deepEqual.* An object keeps one partner: met with another, equal graphs are
  called different (`lib-utils.ts:234`) [`DifferentIsDeserved` on graphs instead
  of trees].
- *Orders summary.* Nothing tells a redelivered `OrderPlaced` from a new one:
  the order is listed again (`order.projection.ts:84`) and counts twice in the
  number of orders, the revenue and what its customer spent. `PROMPT.md:205`
  names "safe repeated processing of events" (in Polish) among the aims of the
  library. `SummaryIsCurrent` compares with the orders themselves, each as often
  as it was listed: a doubled order is the one departure it allows.

## 8. Not modelled yet, and the plan

Not modelled, with reasons, are in `PROJECT.json`: types, errors, decorators and
metadata; the conversions of identifiers and results; logging; the Nest sample.

What is left out of a component that is modelled in part is in its note there.
The larger of these: the policy registry and factory (a map of maps whose
`register` replaces silently), the ACL translator, `fetch` and `executeTyped`
(one call each around the pipeline that is modelled), the application service
base (it validates, calls and wraps an error), value objects and `Result`
(immutable; equality is `DeepEqual`), audit queries and the wording of errors.

What the plan has left, in order:

1. *More of the system.* The order aggregate of the sample composed with
   repository, dispatcher and command bus; the policy registry.
2. *More interaction.* Aggregate, repository and dispatcher in one module instead
   of two; the circuit breaker inside the engine; the whole engine inside
   `ProjectionHub`; `IntegrationFlow` over `MessageProcessor` in place of an outbox
   that only holds messages.
3. *More proofs.* `DependenciesFirst` of `ServiceContainer` and `LatestIsGreatest` of `AclRegistries`, next to the
   theorems about services.
