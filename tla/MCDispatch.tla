----------------------------- MODULE MCDispatch -----------------------------
(***************************************************************************)
(* The ways of events between contexts, for TLC, in one run of five parts: *)
(* dispatches one at a time, the same under fairness, overlapping ones     *)
(* with a middleware that drops events, a router being configured, and     *)
(* integration events on their way through the outbox to their handlers.   *)
(* Events alternate between a type routed to two contexts and audited, and *)
(* one routed to the first context only.                                   *)
(***************************************************************************)
EXTENDS EventDispatch

CONSTANTS placed, shipped, billing, stock, k1, k2,
  Constants, MaxRules,                             \* of the router
  FlowTypes, FlowContexts, Transformers, Classes,  \* of the flow to the handlers
  MaxRaised, MaxPublished, MaxMessages, MaxDeliveries

VARIABLES part, routingRules, meant,
  uuids, domainEvents, registry, published, outbox, handlers, seen, deliveries

MCTypes    == {placed, shipped}
MCContexts == {billing, stock}
MCRules    == << Rule(<<billing>>, [kind |-> "predicate", types |-> MCTypes]),
                 Rule(<<stock, billing>>, [kind |-> "type", types |-> {placed}]) >>
MCTypeOf   == [e \in Event |-> IF e % 2 = 1 THEN placed ELSE shipped]
Both       == <<"integration", "audit">>

Retried == INSTANCE EventDispatch WITH MaxEvents <- 2

Overlap == INSTANCE EventDispatch
  WITH Callers <- {k1, k2}, Overlapping <- TRUE, Dropping <- TRUE,
       MaxEvents <- 2, MaxFailures <- 1

Router == INSTANCE ContextRouter

\* One transformer for everyone and one for two contexts; a handler class, and one that
\* extends it.
MCTransformers == {[to |-> to, type |-> "Placed"] : to \in {<<"everyone">>, <<"billing", "stock">>}}
MCClasses == [base    |-> [type |-> "Placed", parent |-> "none", method |-> "neither"],
              derived |-> [type |-> "Shipped", parent |-> "base", method |-> "process"]]

Flow == INSTANCE IntegrationFlow
  WITH EventTypes <- FlowTypes, Contexts <- FlowContexts, MaxEvents <- MaxRaised

ASSUME ConfigurationAssumption ==
  Overlap!DispatchAssumption /\ Router!RouterAssumption /\ Flow!FlowAssumption

router == <<routingRules, meant>>
flow == <<uuids, domainEvents, registry, published, outbox, handlers, seen, deliveries>>
mcvars == <<part, vars, router, flow>>

MCInit ==
  /\ part \in {"serial", "retried", "overlap", "router", "flow"}
  /\ IF part = "overlap" THEN Overlap!Init ELSE Init
  /\ Router!Init /\ Flow!Init

MCNext ==
  /\ UNCHANGED part
  /\ \/ /\ \/ part = "serial" /\ Next
           \/ part = "retried" /\ Retried!Next
           \/ part = "overlap" /\ Overlap!Next
        /\ UNCHANGED <<router, flow>>
     \/ part = "router" /\ Router!Next /\ UNCHANGED <<vars, flow>>
     \/ part = "flow" /\ Flow!Next /\ UNCHANGED <<vars, router>>

(* What is awaited settles, and a dispatch that failed is called again.    *)
MCSpec ==
  /\ MCInit /\ [][MCNext]_mcvars
  /\ WF_vars(part = "retried" /\ Retried!Step(k1))
  /\ WF_vars(part = "retried" /\ Retried!DispatchEventsForAggregate(k1))

-----------------------------------------------------------------------------
(* The properties of the parts they are stated for. *)

(* Whatever is rejected and however often a dispatch is repeated, an event *)
(* leaves the aggregate only when every sink has it; sinks get events in   *)
(* order, the domain bus first, and again only after a failure.  Neither   *)
(* overlapping dispatches nor a middleware that drops events keeps the     *)
(* processors from an event that is cleared (event-dispatcher.ts).         *)
ClearedAreDelivered ==
  /\ part = "serial" =>
       /\ TypeOK /\ ClearedWereDelivered
       /\ FirstReceivedInOrder /\ DomainFirst /\ RepeatedByFailures
  /\ part = "overlap" => Overlap!TypeOK /\ Overlap!ClearedWereDelivered

(* When a failed dispatch is repeated, every event is delivered in the end *)
(* (event-dispatcher.ts dispatchEventsForAggregate).                       *)
EventsArrive == part = "retried" => Retried!AllDelivered

(* However rules overlap, an event goes to exactly the contexts it was     *)
(* meant for, once (context-router.ts determineTargetContexts).            *)
RoutedOnceAsMeant == part = "router" => Router!RoutesAsMeant /\ Router!RoutesOnce

(* Transformed, copied, serialized, put into the outbox and delivered in   *)
(* any order and number: a context that skips the keys it has seen skips   *)
(* nothing it was not told, and repeats have no effect unless the event    *)
(* was transformed again (integration-event.utils.ts                       *)
(* generateIdempotencyKey).                                                *)
ConsumersTakeEachOnce ==
  part = "flow" => Flow!TypeOK /\ Flow!NothingSkipped /\ Flow!RepeatsHaveNoEffect
=============================================================================
