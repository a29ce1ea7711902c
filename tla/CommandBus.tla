------------------------------- MODULE CommandBus -------------------------------
(***************************************************************************)
(* CommandBus and EnhancedCommandBus (cqrs/implementations); QueryBus and  *)
(* EnhancedQueryBus are the same code for queries.  Commands execute       *)
(* concurrently: each takes its handler from the map first, then awaits    *)
(* its validation, then goes through the middlewares, of which more may be *)
(* added meanwhile, to the handler.  Middleware, handlers, validation and  *)
(* the resolver of handlers are external and may fail.                     *)
(***************************************************************************)
EXTENDS Naturals, FiniteSets

CONSTANTS Types,          \* the command types
          Calls,          \* calls of execute
          TypeOf,         \* the command type of each call
          MaxMiddlewares, \* bound: middlewares ever added
          MaxNexts,       \* bound: times the middlewares of one call call next
          MaxHandlers     \* bound: handlers ever made

CommandBusAssumption ==
  /\ TypeOf \in [Calls -> Types] /\ IsFiniteSet(Calls)
  /\ {MaxMiddlewares, MaxNexts, MaxHandlers} \subseteq Nat

VARIABLES handlers,    \* of each type: its handler, 0 for none
          manual,      \* the types registered by hand
          decorated,   \* the types in CQRSMetadataRegistry
          made,        \* handlers made so far
          toDiscover,  \* types the running discoverHandlers has still to visit
          middlewares, \* how many middlewares the bus has
          pc,          \* of each call: "ready", "validating", "next", "inside", "settled"
          handler,     \* of each call: the handler it took
          index,       \* of each call: the index of its pipeline
          depth,       \* of each call: middlewares it is inside of
          nexts,       \* of each call: times next was called from a middleware
          reached,     \* of each call: middlewares entered when its handler first ran, or "no"
          verdict,     \* of each call: what the last next or execute came to
          counted      \* the enhanced bus's executionCount and errors

regVars == <<handlers, manual, decorated, made, toDiscover>>
callVars == <<pc, handler, index, depth, nexts, reached, verdict>>
vars == <<regVars, middlewares, callVars, counted>>

NotReached == MaxMiddlewares + 1

Init ==
  /\ handlers = [t \in Types |-> 0] /\ manual = {} /\ decorated \in SUBSET Types
  /\ made = 0 /\ toDiscover = {} /\ middlewares = 0
  /\ pc = [c \in Calls |-> "ready"] /\ handler = [c \in Calls |-> 0]
  /\ index = [c \in Calls |-> 0] /\ depth = [c \in Calls |-> 0] /\ nexts = [c \in Calls |-> 0]
  /\ reached = [c \in Calls |-> NotReached] /\ verdict = [c \in Calls |-> "none"]
  /\ counted = [ok |-> 0, errors |-> 0]

Running == toDiscover # {}   \* discoverHandlers is synchronous

----------------------------------------------------------------------------
(* Handlers. *)

\* register and registerFactory replace whatever is there.
Register(t) ==
  /\ ~Running /\ made < MaxHandlers
  /\ made' = made + 1
  /\ handlers' = [handlers EXCEPT ![t] = made'] /\ manual' = manual \union {t}
  /\ UNCHANGED <<decorated, toDiscover, middlewares, callVars, counted>>

DiscoverHandlers ==
  /\ ~Running /\ decorated # {}
  /\ toDiscover' = decorated
  /\ UNCHANGED <<handlers, manual, decorated, made, middlewares, callVars, counted>>

\* One turn of the loop: a type that has a handler is skipped.
Discover(t) ==
  /\ t \in toDiscover /\ toDiscover' = toDiscover \ {t}
  /\ IF handlers[t] # 0 THEN UNCHANGED <<handlers, made>>
     ELSE /\ made < MaxHandlers /\ made' = made + 1
          /\ handlers' = [handlers EXCEPT ![t] = made']
  /\ UNCHANGED <<manual, decorated, middlewares, callVars, counted>>

\* Without a resolver, or when it throws, the loop ends there and keeps what it registered.
DiscoverThrows(t) ==
  /\ t \in toDiscover /\ handlers[t] = 0
  /\ toDiscover' = {}
  /\ UNCHANGED <<handlers, manual, decorated, made, middlewares, callVars, counted>>

Use ==
  /\ ~Running /\ middlewares < MaxMiddlewares
  /\ middlewares' = middlewares + 1
  /\ UNCHANGED <<regVars, callVars, counted>>

----------------------------------------------------------------------------
(* execute. *)

Goto(c, to) == pc' = [pc EXCEPT ![c] = to]
Say(c, v) == verdict' = [verdict EXCEPT ![c] = v]
Count(v) == counted' = IF v = "ok" THEN [counted EXCEPT !.ok = @ + 1] ELSE [counted EXCEPT !.errors = @ + 1]
Settle(c, v) == Goto(c, "settled") /\ Say(c, v) /\ Count(v)

NoHandler(c) ==
  /\ ~Running /\ pc[c] = "ready" /\ handlers[TypeOf[c]] = 0
  /\ Settle(c, "failed")
  /\ UNCHANGED <<regVars, middlewares, handler, index, depth, nexts, reached>>

Execute(c) ==
  /\ ~Running /\ pc[c] = "ready" /\ handlers[TypeOf[c]] # 0
  /\ handler' = [handler EXCEPT ![c] = handlers[TypeOf[c]]]
  /\ Goto(c, "validating")
  /\ UNCHANGED <<regVars, middlewares, index, depth, nexts, reached, verdict, counted>>

Valid(c) ==
  /\ ~Running /\ pc[c] = "validating"
  /\ Goto(c, "next")
  /\ UNCHANGED <<regVars, middlewares, handler, index, depth, nexts, reached, verdict, counted>>

Invalid(c) ==
  /\ ~Running /\ pc[c] = "validating"
  /\ Settle(c, "failed")
  /\ UNCHANGED <<regVars, middlewares, handler, index, depth, nexts, reached>>

EnterMiddleware(c) ==
  /\ ~Running /\ pc[c] = "next" /\ index[c] < middlewares
  /\ index' = [index EXCEPT ![c] = @ + 1] /\ depth' = [depth EXCEPT ![c] = @ + 1]
  /\ Goto(c, "inside") /\ Say(c, "none")
  /\ UNCHANGED <<regVars, middlewares, handler, nexts, reached, counted>>

\* Past the last middleware there is by now, the handler runs.
RunHandler_Early(c, v) ==
  /\ ~Running /\ pc[c] = "next"
  /\ reached' = [reached EXCEPT ![c] = IF @ = NotReached THEN index[c] ELSE @]
  /\ IF depth[c] = 0 THEN Settle(c, v) ELSE Goto(c, "inside") /\ Say(c, v) /\ UNCHANGED counted
  /\ UNCHANGED <<regVars, middlewares, handler, index, depth, nexts>>
RunHandler(c, v) ==
  /\ ~Running /\ pc[c] = "next" /\ index[c] >= middlewares
  /\ reached' = [reached EXCEPT ![c] = IF @ = NotReached THEN index[c] ELSE @]
  /\ IF depth[c] = 0 THEN Settle(c, v) ELSE Goto(c, "inside") /\ Say(c, v) /\ UNCHANGED counted
  /\ UNCHANGED <<regVars, middlewares, handler, index, depth, nexts>>

CallNext(c) ==
  /\ ~Running /\ pc[c] = "inside" /\ nexts[c] < MaxNexts
  /\ nexts' = [nexts EXCEPT ![c] = @ + 1]
  /\ Goto(c, "next")
  /\ UNCHANGED <<regVars, middlewares, handler, index, depth, reached, verdict, counted>>

\* The innermost middleware returns or throws, and the one around it goes on.
Leave(c, v) ==
  /\ ~Running /\ pc[c] = "inside"
  /\ depth' = [depth EXCEPT ![c] = @ - 1]
  /\ IF depth[c] = 1 THEN Settle(c, v) ELSE Say(c, v) /\ UNCHANGED <<pc, counted>>
  /\ UNCHANGED <<regVars, middlewares, handler, index, nexts, reached>>

Next ==
  \/ \E t \in Types : Register(t) \/ Discover(t) \/ DiscoverThrows(t)
  \/ DiscoverHandlers \/ Use
  \/ \E c \in Calls :
       \/ NoHandler(c) \/ Execute(c) \/ Valid(c) \/ Invalid(c) \/ EnterMiddleware(c) \/ CallNext(c)
       \/ \E v \in {"ok", "failed"} : RunHandler(c, v) \/ Leave(c, v)
Spec == Init /\ [][Next]_vars

----------------------------------------------------------------------------
(* Properties. *)

\* Every variable has its type.
TypeOK ==
  /\ handlers \in [Types -> 0..made] /\ manual \subseteq Types /\ decorated \subseteq Types
  /\ made \in 0..MaxHandlers /\ toDiscover \subseteq Types /\ middlewares \in 0..MaxMiddlewares
  /\ pc \in [Calls -> {"ready", "validating", "next", "inside", "settled"}]
  /\ handler \in [Calls -> 0..made]
  /\ index \in [Calls -> 0..MaxMiddlewares] /\ depth \in [Calls -> 0..MaxMiddlewares]
  /\ nexts \in [Calls -> 0..MaxNexts] /\ reached \in [Calls -> 0..NotReached]
  /\ verdict \in [Calls -> {"none", "ok", "failed"}]
  /\ counted \in [ok : Nat, errors : Nat]

\* A handler runs when every middleware the bus has at that moment was entered, those added
\* while the command was under way included, even if a middleware calls next again.
HandlerAfterMiddlewares ==
  [][\A c \in Calls : reached'[c] # reached[c] => reached'[c] = middlewares /\ handler[c] # 0]_vars

\* Discovery leaves the handlers registered by hand alone: only register replaces a handler.
OnlyRegisterReplaces ==
  [][\A t \in Types : handlers[t] # 0 /\ handlers'[t] # handlers[t] => ~Running]_vars

\* A discovery that comes to its end left every decorated type with a handler, also when an
\* earlier one had thrown half way.
DiscoveryCompletes ==
  [][Running /\ toDiscover' = {} /\ (\A t \in toDiscover : handlers'[t] # 0)
       => \A t \in decorated : handlers'[t] # 0]_vars

\* Each execution the enhanced bus has settled is counted once, as a success or as an error,
\* and as what the caller was told.
MetricsAddUp ==
  LET settled(v) == Cardinality({c \in Calls : pc[c] = "settled" /\ verdict[c] = v})
  IN counted.ok = settled("ok") /\ counted.errors = settled("failed")
=============================================================================
