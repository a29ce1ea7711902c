------------------------------ MODULE CqrsModule ------------------------------
(***************************************************************************)
(* A command bus and a query bus under one configuration (cqrs/            *)
(* configuration, registry, decorators): the constructor makes both, gives *)
(* each middleware to both, and discovers the handlers of commands, then   *)
(* those of queries, in the static registry the decorators fill.  Where    *)
(* one throws, the constructor does, and its buses are lost.  QueryBus and *)
(* EnhancedQueryBus are CommandBus and EnhancedCommandBus for queries.     *)
(***************************************************************************)
EXTENDS CommandBus

CONSTANTS QueryTypes, QueryCalls, QueryTypeOf,
          Given,           \* how many middlewares the options give
          MaxTries         \* bound: configurations made

VARIABLES
  phase,           \* "none", "using", "commands", "queries", "ready"
  options,         \* of the last configuration: which bus is enhanced, discovery
  tries, used,
  expected,        \* [commands, queries]: what was decorated when it was made
  qHandlers, qManual, qDecorated, qMade, qToDiscover, qMiddlewares,
  qPc, qHandler, qIndex, qDepth, qNexts, qReached, qVerdict, qCounted,
  forgotten        \* settled queries that resetMetrics dropped, history

Queries == INSTANCE CommandBus
  WITH Types <- QueryTypes, Calls <- QueryCalls, TypeOf <- QueryTypeOf,
       handlers <- qHandlers, manual <- qManual, decorated <- qDecorated,
       made <- qMade, toDiscover <- qToDiscover, middlewares <- qMiddlewares,
       pc <- qPc, handler <- qHandler, index <- qIndex, depth <- qDepth,
       nexts <- qNexts, reached <- qReached, verdict <- qVerdict, counted <- qCounted

commands      == vars
qCalls        == <<qPc, qHandler, qIndex, qDepth, qNexts, qReached, qVerdict>>
queries       == <<qHandlers, qManual, qDecorated, qMade, qToDiscover, qMiddlewares,
                   qCalls, qCounted>>
configuration == <<phase, options, tries, used, expected>>
moduleVars    == <<commands, queries, configuration, forgotten>>

CqrsAssumption ==
  /\ CommandBusAssumption /\ Queries!CommandBusAssumption
  /\ {Given, MaxTries} \subseteq Nat /\ Given < MaxMiddlewares

CqrsInit ==
  /\ Init /\ Queries!Init
  /\ phase = "none" /\ options = [commands |-> FALSE, queries |-> FALSE, auto |-> FALSE]
  /\ tries = 0 /\ used = 0
  /\ expected = [commands |-> {}, queries |-> {}] /\ forgotten = [ok |-> 0, errors |-> 0]

----------------------------------------------------------------------------
(* The constructor of CQRSConfiguration, given which of the buses are to   *)
(* be enhanced ones: these start with the logging middleware.              *)
Construct(ofCommands, ofQueries, auto) ==
  /\ phase = "none" /\ tries < MaxTries
  /\ phase' = "using" /\ tries' = tries + 1 /\ used' = 0
  /\ options' = [commands |-> ofCommands, queries |-> ofQueries, auto |-> auto]
  /\ expected' = [commands |-> decorated, queries |-> qDecorated]
  /\ middlewares' = IF ofCommands THEN 1 ELSE 0
  /\ qMiddlewares' = IF ofQueries THEN 1 ELSE 0
  /\ handlers' = [t \in Types |-> 0] /\ qHandlers' = [t \in QueryTypes |-> 0]
  /\ made' = 0 /\ qMade' = 0
  /\ UNCHANGED <<manual, decorated, toDiscover, callVars, counted, qManual, qDecorated,
                 qToDiscover, qCalls, qCounted, forgotten>>

UseForBoth_Commands ==
  /\ phase = "using" /\ used < Given
  /\ used' = used + 1
  /\ Use
  /\ UNCHANGED <<queries, phase, options, tries, expected, forgotten>>

UseForBoth ==
  /\ phase = "using" /\ used < Given
  /\ used' = used + 1
  /\ Use /\ Queries!Use
  /\ UNCHANGED <<phase, options, tries, expected, forgotten>>

Enter(next) == phase' = next /\ UNCHANGED <<options, tries, used, expected, forgotten>>

StartDiscovery ==
  /\ phase = "using" /\ used = Given
  /\ Enter(IF options.auto THEN "commands" ELSE "ready")
  /\ IF options.auto /\ decorated # {} THEN DiscoverHandlers ELSE UNCHANGED commands
  /\ UNCHANGED queries

DiscoverCommands ==
  /\ phase = "commands"
  /\ \/ /\ \E t \in Types : \/ Discover(t) /\ Enter("commands")
                            \/ DiscoverThrows(t) /\ Enter("none")
        /\ UNCHANGED queries
     \/ /\ ~Running /\ Enter("queries") /\ UNCHANGED commands
        /\ IF qDecorated # {} THEN Queries!DiscoverHandlers ELSE UNCHANGED queries

DiscoverQueries ==
  /\ phase = "queries"
  /\ \/ \E t \in QueryTypes : \/ Queries!Discover(t) /\ Enter("queries")
                              \/ Queries!DiscoverThrows(t) /\ Enter("none")
     \/ ~Queries!Running /\ Enter("ready") /\ UNCHANGED queries
  /\ UNCHANGED commands

----------------------------------------------------------------------------
Free == phase \in {"none", "ready"} /\ ~Running /\ ~Queries!Running

(* @CommandHandler and @QueryHandler, whenever a file is loaded, and       *)
(* CQRSMetadataRegistry.clearAll().                                        *)
SetDecorated(ofCommands, ofQueries) ==
  /\ Free /\ decorated' = ofCommands /\ qDecorated' = ofQueries
  /\ UNCHANGED <<handlers, manual, made, toDiscover, middlewares, callVars, counted,
                 qHandlers, qManual, qMade, qToDiscover, qMiddlewares, qCalls,
                 qCounted, configuration, forgotten>>

CommandStep ==
  /\ phase = "ready" /\ ~Queries!Running
  /\ Next /\ UNCHANGED <<queries, configuration, forgotten>>

QueryStep ==
  /\ phase = "ready" /\ ~Running
  /\ Queries!Next /\ UNCHANGED <<commands, configuration, forgotten>>

(* Only an enhanced bus has metrics to reset.                              *)
ResetMetrics ==
  /\ Free /\ options.queries
  /\ forgotten' = [ok |-> forgotten.ok + qCounted.ok,
                   errors |-> forgotten.errors + qCounted.errors]
  /\ qCounted' = [ok |-> 0, errors |-> 0]
  /\ UNCHANGED <<commands, qHandlers, qManual, qDecorated, qMade, qToDiscover,
                 qMiddlewares, qCalls, configuration>>

CqrsNext ==
  \/ \E ofCommands, ofQueries, auto \in BOOLEAN : Construct(ofCommands, ofQueries, auto)
  \/ UseForBoth \/ StartDiscovery \/ DiscoverCommands \/ DiscoverQueries
  \/ \E t \in Types : SetDecorated(decorated \cup {t}, qDecorated)
  \/ \E t \in QueryTypes : SetDecorated(decorated, qDecorated \cup {t})
  \/ SetDecorated({}, {})
  \/ CommandStep \/ QueryStep \/ ResetMetrics

CqrsSpec == CqrsInit /\ [][CqrsNext]_moduleVars

----------------------------------------------------------------------------
(* No handler of a command or a query runs before it went through every    *)
(* middleware of the options, and the logging one when its own bus is      *)
(* enhanced, whatever the other bus is (CQRSConfiguration).                *)
ConfiguredAlike ==
  LET least(enhanced) == used + (IF enhanced THEN 1 ELSE 0)
  IN  /\ \A c \in Calls :
           reached[c] # NotReached => reached[c] >= least(options.commands)
      /\ \A c \in QueryCalls :
           qReached[c] # Queries!NotReached => qReached[c] >= least(options.queries)

(* A configuration made with auto-discovery that does not throw has a      *)
(* handler for everything decorated before it, also when an earlier one    *)
(* threw half way (CQRSConfiguration, discoverHandlers).                   *)
AllDiscovered ==
  phase = "ready" /\ options.auto =>
    /\ \A t \in expected.commands : handlers[t] # 0
    /\ \A t \in expected.queries : qHandlers[t] # 0

(* Each query that settled is counted once, before or after a reset, as    *)
(* what the caller was told (EnhancedQueryBus).                            *)
QueriesAddUp ==
  LET settled(v) == Cardinality({c \in QueryCalls : qPc[c] = "settled" /\ qVerdict[c] = v})
  IN  /\ qCounted.ok + forgotten.ok = settled("ok")
      /\ qCounted.errors + forgotten.errors = settled("failed")
=============================================================================
