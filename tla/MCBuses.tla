------------------------------ MODULE MCBuses ------------------------------
(***************************************************************************)
(* The buses for TLC, in one run of five parts: a domain bus with an error *)
(* handler and two publications, one without an error handler, the         *)
(* integration bus with contexts, the command bus, and a command bus and a *)
(* query bus under one configuration.  A behaviour moves one part.         *)
(***************************************************************************)
EXTENDS Integers, Sequences, FiniteSets

CONSTANTS
  Handlers, Publications, FewPublications, Contexts, None,
  MaxStamps, FewStamps, MaxSets, Troubles, FewTroubles, \* bounds
  CommandTypes, Commands, CommandNexts, CommandHandlers,
  ConfiguredTypes, ConfiguredCommands, QueryTypes, Queried,
  ConfiguredNexts, ConfiguredHandlers,                  \* bounds
  MaxMiddlewares, Given, MaxTries

VARIABLES bus,     \* the part that moves
  sets, created, current, clock, contextOf, given, elsewhere, stack, place, target, over,
  cursor, promises, calls, expected, renewed, troubled, informed, failures,
  chosen, manual, decorated, made, toDiscover, middlewares, at, handler,
  index, depth, nexts, reached, verdict, counted,
  phase, options, tries, used, toFind,
  cHandlers, cManual, cDecorated, cMade, cToDiscover, cMiddlewares,
  cPc, cHandler, cIndex, cDepth, cNexts, cReached, cVerdict, cCounted,
  qHandlers, qManual, qDecorated, qMade, qToDiscover, qMiddlewares,
  qPc, qHandler, qIndex, qDepth, qNexts, qReached, qVerdict, qCounted, forgotten

Handling == INSTANCE EventBus
  WITH Contexts <- {}, Filtering <- FALSE, OnError <- TRUE, MaxFailures <- Troubles,
       pc <- place

Rethrowing == INSTANCE EventBus
  WITH Publications <- FewPublications, Contexts <- {}, Filtering <- FALSE,
       OnError <- FALSE, MaxFailures <- Troubles, pc <- place

Integration == INSTANCE EventBus
  WITH Publications <- FewPublications, Filtering <- TRUE, OnError <- TRUE,
       MaxStamps <- FewStamps, MaxFailures <- FewTroubles, pc <- place

(* Calls of each type, if there are enough of them.                        *)
Typed(some, types) ==
  CHOOSE f \in [some -> types] : \A t \in types : \E c \in some : f[c] = t

TypeOfCommand    == Typed(Commands, CommandTypes)
TypeOfConfigured == Typed(ConfiguredCommands, ConfiguredTypes)
TypeOfQuery      == Typed(Queried, QueryTypes)

Bus == INSTANCE CommandBus
  WITH Types <- CommandTypes, Calls <- Commands, TypeOf <- TypeOfCommand,
       MaxNexts <- CommandNexts, MaxHandlers <- CommandHandlers,
       handlers <- chosen, pc <- at

Cqrs == INSTANCE CqrsModule
  WITH Types <- ConfiguredTypes, Calls <- ConfiguredCommands, TypeOf <- TypeOfConfigured,
       QueryCalls <- Queried, QueryTypeOf <- TypeOfQuery,
       MaxNexts <- ConfiguredNexts, MaxHandlers <- ConfiguredHandlers, expected <- toFind,
       handlers <- cHandlers, manual <- cManual, decorated <- cDecorated,
       made <- cMade, toDiscover <- cToDiscover, middlewares <- cMiddlewares,
       pc <- cPc, handler <- cHandler, index <- cIndex, depth <- cDepth,
       nexts <- cNexts, reached <- cReached, verdict <- cVerdict, counted <- cCounted

ASSUME EventBusesAssumption ==
  /\ Handling!BusAssumption /\ Rethrowing!BusAssumption /\ Integration!BusAssumption
  /\ FewPublications \subseteq Publications
ASSUME CommandsAssumption == Bus!CommandBusAssumption /\ Cqrs!CqrsAssumption

published == <<sets, created, current, clock, contextOf, given, elsewhere, stack, place,
               target, over, cursor, promises, calls, expected, renewed, troubled,
               informed, failures>>
commanded == <<chosen, manual, decorated, made, toDiscover, middlewares, at,
               handler, index, depth, nexts, reached, verdict, counted>>
configured == <<phase, options, tries, used, toFind, cHandlers, cManual, cDecorated,
                cMade, cToDiscover, cMiddlewares, cPc, cHandler, cIndex, cDepth, cNexts,
                cReached, cVerdict, cCounted, qHandlers, qManual, qDecorated,
                qMade, qToDiscover, qMiddlewares, qPc, qHandler, qIndex, qDepth, qNexts,
                qReached, qVerdict, qCounted, forgotten>>
buses == <<bus, published, commanded, configured>>

BusesInit ==
  /\ bus \in {"handled", "rethrowing", "contexts", "commands", "cqrs"}
  /\ CASE bus = "rethrowing" -> Rethrowing!Init
       [] bus = "contexts"   -> Integration!Init
       [] OTHER              -> Handling!Init
  /\ Bus!Init /\ Cqrs!CqrsInit
  /\ bus # "commands" => decorated = {}
  /\ cDecorated \cup qDecorated = {}

BusesNext ==
  /\ UNCHANGED bus
  /\ \/ /\ \/ bus = "handled" /\ Handling!Next
           \/ bus = "rethrowing" /\ Rethrowing!Next
           \/ bus = "contexts" /\ Integration!Next
        /\ UNCHANGED <<commanded, configured>>
     \/ bus = "commands" /\ Bus!Next /\ UNCHANGED <<published, configured>>
     \/ bus = "cqrs" /\ Cqrs!CqrsNext /\ UNCHANGED <<published, commanded>>

(* Handlers return and their promises settle.                              *)
BusesSpec ==
  /\ BusesInit /\ [][BusesNext]_buses
  /\ \A p \in FewPublications : WF_published(bus = "rethrowing" /\ Rethrowing!Progress(p))

-----------------------------------------------------------------------------
(* The properties of the parts they are stated for. *)

(* Whoever throws, rejects, subscribes, unsubscribes or publishes while    *)
(* the handlers run: with an error handler each handler subscribed         *)
(* throughout is called, once and in order, and a handler of the           *)
(* integration bus gets an event targeted at another context only when it  *)
(* was subscribed for that one under another type of event since           *)
(* (base-event-bus.ts publish; in-memory-integraton-event-bus.ts).         *)
HandlersServed ==
  /\ [](bus = "handled" =>
          /\ Handling!TypeOK /\ Handling!EveryHandlerCalled
          /\ Handling!CalledOnce /\ Handling!CalledInOrder)
  /\ Integration!NoForeignEvents

(* With an error handler publish does not reject, and of a publication     *)
(* with trouble the error handler hears an error; without one a publish    *)
(* that resolves waited for every handler, who published hears of trouble, *)
(* and every publish settles once insertions end (base-event-bus.ts        *)
(* publish, handleError); of the integration bus somebody hears as well.   *)
PublicationsEndWell ==
  /\ [](bus = "handled" => Handling!TroubleIsTold /\ Handling!OnErrorTakesErrors)
  /\ [](bus = "rethrowing" =>
          /\ Rethrowing!TypeOK /\ Rethrowing!ResolvedMeansHandled
          /\ Rethrowing!TroubleIsTold)
  /\ [](bus = "contexts" => Integration!TypeOK /\ Integration!TroubleIsTold)
  /\ bus = "rethrowing" => Rethrowing!PublicationsSettle

(* Commands that overlap with each other, with registrations, a failing    *)
(* discovery and added middleware: no handler runs before every middleware *)
(* was entered, discovery completes when repeated and replaces nothing,    *)
(* and each execution the enhanced bus has settled is counted once, as     *)
(* what the caller was told (command-bus.ts; enhanced-command-bus.ts).     *)
CommandsThroughMiddlewares ==
  /\ [](bus = "commands" => Bus!TypeOK /\ Bus!MetricsAddUp)
  /\ Bus!HandlerAfterMiddlewares
  /\ Bus!OnlyRegisterReplaces
  /\ Bus!DiscoveryCompletes

(* A configuration, the first one and one made after a failure: commands   *)
(* and queries go through every middleware of its options, all that was    *)
(* decorated before has its handler, and queries are counted as they end   *)
(* (cqrs-configuration.ts, cqrs-module.ts, enhanced-query-bus.ts).         *)
ConfigurationHolds ==
  bus = "cqrs" =>
    Cqrs!TypeOK /\ Cqrs!ConfiguredAlike /\ Cqrs!AllDiscovered /\ Cqrs!QueriesAddUp
=============================================================================
