---------------------------- MODULE EventDispatch ----------------------------
(***************************************************************************)
(* The universal dispatcher (core/events/event-dispatcher.ts) taking the   *)
(* pending events of an aggregate through its middleware to the domain bus *)
(* and then through its processors: the integration processor, which sends *)
(* an event to every context it is routed to, and the audit processor.     *)
(* Every await is a step boundary; whatever is awaited may reject, before  *)
(* or after it took effect.                                                *)
(***************************************************************************)
EXTENDS ContextRouting, Integers, FiniteSets

CONSTANTS
  Callers,           \* calls of dispatchEventsForAggregate
  Overlapping,       \* BOOLEAN: calls overlap
  ApplyMeanwhile,    \* BOOLEAN: events are applied during a dispatch
  Dropping,          \* BOOLEAN: a middleware may not call next
  Middlewares,       \* what `use' is called with
  Processors,        \* sequence of "integration" and "audit"
  Rules,             \* rules of the context router of the transformers
  Audited,           \* event types the audit processor is configured for
  TypeOf,            \* the type of each event
  MaxEvents,         \* bound: events applied
  MaxFailures        \* bound: rejections

ASSUME DispatchAssumption ==
  /\ {Overlapping, ApplyMeanwhile, Dropping} \subseteq BOOLEAN
  /\ Processors \in Seq({"integration", "audit"})
  /\ Rules \in Seq([targets : Seq(Contexts), condition : Conditions])
  /\ \A e \in 1 .. MaxEvents : TypeOf[e] \in EventTypes
  /\ {MaxEvents, MaxFailures} \subseteq Nat
  /\ "domain" \notin Contexts /\ "audit" \notin Contexts

Event == 1 .. MaxEvents
Sinks == Contexts \cup {"domain", "audit"}
Steps == {"idle", "pipeline", "process", "fanout", "commit"}

VARIABLES
  pending,           \* the aggregate's domain events
  applied,           \* how many were applied
  middlewares,       \* in the order they were added
  pc,                \* [Callers -> Steps]
  queue,             \* [Callers -> events not dispatched yet, current first]
  plan,              \* [Callers -> middlewares still to run for the event]
  stage,             \* [Callers -> index in Processors]
  targets,           \* [Callers -> contexts the event has still to go to]
  received,          \* [Sinks -> sequence of events received]
  failures

vars == <<pending, applied, middlewares, pc, queue, plan, stage, targets,
          received, failures>>

Targets(e) == DetermineTargetContexts(Rules, TypeOf[e])

Goto(c, step) == pc' = [pc EXCEPT ![c] = step]

Quiet == \A c \in Callers : pc[c] = "idle"

Receive(s, e) == received' = [received EXCEPT ![s] = Append(@, e)]

(* What is awaited by c rejects, and with it the whole dispatch.           *)
Fail(c) ==
  /\ failures < MaxFailures
  /\ failures' = failures + 1
  /\ Goto(c, "idle")
  /\ queue' = [queue EXCEPT ![c] = <<>>]

Init ==
  /\ pending = <<>>
  /\ applied = 0
  /\ middlewares = <<>>
  /\ pc = [c \in Callers |-> "idle"]
  /\ queue = [c \in Callers |-> <<>>]
  /\ plan = [c \in Callers |-> <<>>]
  /\ stage = [c \in Callers |-> 1]
  /\ targets = [c \in Callers |-> <<>>]
  /\ received = [s \in Sinks |-> <<>>]
  /\ failures = 0

-----------------------------------------------------------------------------

Apply ==
  /\ applied < MaxEvents
  /\ Quiet \/ ApplyMeanwhile
  /\ applied' = applied + 1
  /\ pending' = Append(pending, applied + 1)
  /\ UNCHANGED <<middlewares, pc, queue, plan, stage, targets, received, failures>>

Use(m) ==
  /\ m \notin ToSet(middlewares)
  /\ middlewares' = Append(middlewares, m)
  /\ UNCHANGED <<pending, applied, pc, queue, plan, stage, targets, received,
                 failures>>

(* The pipeline is built anew for each event.                              *)
StartEvent(c) ==
  /\ Goto(c, "pipeline")
  /\ plan' = [plan EXCEPT ![c] = middlewares]

DispatchEventsForAggregate(c) ==
  /\ pc[c] = "idle"
  /\ Quiet \/ Overlapping
  /\ pending # <<>>
  /\ queue' = [queue EXCEPT ![c] = pending]
  /\ StartEvent(c)
  /\ UNCHANGED <<pending, applied, middlewares, stage, targets, received, failures>>

StartProcessors(c) ==
  /\ Goto(c, "process")
  /\ stage' = [stage EXCEPT ![c] = 1]

(* A middleware passes the event on, does not, or rejects; none calls next *)
(* a second time, which would send the event through the rest once more.   *)
RunMiddleware(c) ==
  /\ pc[c] = "pipeline"
  /\ plan[c] # <<>>
  /\ plan' = [plan EXCEPT ![c] = Tail(@)]
  /\ \/ UNCHANGED <<pc, queue, stage, failures>>
     \/ Dropping /\ StartProcessors(c) /\ UNCHANGED <<queue, failures>>
     \/ Fail(c) /\ UNCHANGED stage
  /\ UNCHANGED <<pending, applied, middlewares, targets, received>>

PublishToDomainBus_Skips(c) ==
  /\ pc[c] = "pipeline"
  /\ plan[c] = <<>>
  /\ StartProcessors(c)
  /\ UNCHANGED <<pending, applied, middlewares, queue, plan, targets, received,
                 failures>>

(* The rejection may also come from a middleware, after next returned.     *)
PublishToDomainBus(c) ==
  /\ pc[c] = "pipeline"
  /\ plan[c] = <<>>
  /\ \/ /\ Receive("domain", Head(queue[c]))
        /\ StartProcessors(c) /\ UNCHANGED <<queue, failures>>
     \/ /\ Receive("domain", Head(queue[c])) \/ UNCHANGED received
        /\ Fail(c) /\ UNCHANGED stage
  /\ UNCHANGED <<pending, applied, middlewares, plan, targets>>

NextProcessor(c) ==
  /\ Goto(c, "process")
  /\ stage' = [stage EXCEPT ![c] = @ + 1]

StartTransforming_First(c) ==
  /\ pc[c] = "process" /\ stage[c] <= Len(Processors)
  /\ Processors[stage[c]] = "integration"
  /\ LET to == Targets(Head(queue[c]))
     IN  /\ targets' = [targets EXCEPT ![c] = SubSeq(to, 1, 1)]
         /\ IF to = <<>> THEN NextProcessor(c) ELSE Goto(c, "fanout") /\ UNCHANGED stage
  /\ UNCHANGED <<pending, applied, middlewares, queue, plan, received, failures>>

(* transformToMultipleTargets                                              *)
StartTransforming(c) ==
  /\ pc[c] = "process" /\ stage[c] <= Len(Processors)
  /\ Processors[stage[c]] = "integration"
  /\ LET to == Targets(Head(queue[c]))
     IN  /\ targets' = [targets EXCEPT ![c] = to]
         /\ IF to = <<>> THEN NextProcessor(c) ELSE Goto(c, "fanout") /\ UNCHANGED stage
  /\ UNCHANGED <<pending, applied, middlewares, queue, plan, received, failures>>

PublishIntegrationEvent(c) ==
  /\ pc[c] = "fanout"
  /\ \/ /\ Receive(Head(targets[c]), Head(queue[c]))
        /\ targets' = [targets EXCEPT ![c] = Tail(@)]
        /\ IF Len(targets[c]) = 1 THEN NextProcessor(c) ELSE UNCHANGED <<pc, stage>>
        /\ UNCHANGED <<queue, failures>>
     \/ /\ Receive(Head(targets[c]), Head(queue[c])) \/ UNCHANGED received
        /\ Fail(c) /\ UNCHANGED <<stage, targets>>
  /\ UNCHANGED <<pending, applied, middlewares, plan>>

ShouldAudit(e) == TypeOf[e] \in Audited

SaveAudit(c) ==
  /\ pc[c] = "process" /\ stage[c] <= Len(Processors)
  /\ Processors[stage[c]] = "audit"
  /\ IF ShouldAudit(Head(queue[c]))
     THEN \/ /\ Receive("audit", Head(queue[c]))
             /\ NextProcessor(c) /\ UNCHANGED <<queue, failures>>
          \/ /\ Receive("audit", Head(queue[c])) \/ UNCHANGED received
             /\ Fail(c) /\ UNCHANGED stage
     ELSE NextProcessor(c) /\ UNCHANGED <<received, queue, failures>>
  /\ UNCHANGED <<pending, applied, middlewares, plan, targets>>

NextEvent(c) ==
  /\ pc[c] = "process" /\ stage[c] > Len(Processors)
  /\ queue' = [queue EXCEPT ![c] = Tail(@)]
  /\ IF Len(queue[c]) = 1
     THEN Goto(c, "commit") /\ UNCHANGED plan
     ELSE StartEvent(c)
  /\ UNCHANGED <<pending, applied, middlewares, stage, targets, received, failures>>

(* Clears all that is pending then.                                        *)
Commit(c) ==
  /\ pc[c] = "commit"
  /\ pending' = <<>>
  /\ Goto(c, "idle")
  /\ UNCHANGED <<applied, middlewares, queue, plan, stage, targets, received,
                 failures>>

Step(c) ==
  \/ RunMiddleware(c) \/ PublishToDomainBus(c) \/ StartTransforming(c)
  \/ PublishIntegrationEvent(c) \/ SaveAudit(c) \/ NextEvent(c) \/ Commit(c)

Next ==
  \/ Apply
  \/ \E m \in Middlewares : Use(m)
  \/ \E c \in Callers : DispatchEventsForAggregate(c) \/ Step(c)

Spec == Init /\ [][Next]_vars

(* What is awaited settles, and a dispatch that failed is called again.    *)
FairSpec ==
  /\ Spec
  /\ \A c \in Callers : WF_vars(Step(c)) /\ WF_vars(DispatchEventsForAggregate(c))

-----------------------------------------------------------------------------
(* Properties *)

(* A middleware that drops an event keeps it from the domain bus only.     *)
SinksOf(e) ==
  (IF Dropping THEN {} ELSE {"domain"})
    \cup (IF "integration" \in ToSet(Processors) THEN ToSet(Targets(e)) ELSE {})
    \cup (IF "audit" \in ToSet(Processors) /\ ShouldAudit(e) THEN {"audit"} ELSE {})

Delivered(e) == \A s \in SinksOf(e) : e \in ToSet(received[s])

Count(s, e) == Cardinality({i \in DOMAIN received[s] : received[s][i] = e})

TypeOK ==
  /\ pending \in Seq(Event)
  /\ applied \in 0 .. MaxEvents
  /\ pc \in [Callers -> Steps]
  /\ queue \in [Callers -> Seq(Event)]
  /\ \A c \in Callers : pc[c] \in {"pipeline", "process", "fanout"} => queue[c] # <<>>
  /\ stage \in [Callers -> 1 .. Len(Processors) + 1]
  /\ targets \in [Callers -> Seq(Contexts)]
  /\ received \in [Sinks -> Seq(Event)]
  /\ failures \in 0 .. MaxFailures

(* An event leaves the aggregate only when the domain bus, every context   *)
(* it is routed to and the audit log received it, whatever was rejected on *)
(* the way and however often the dispatch was repeated.                    *)
ClearedWereDelivered ==
  \A e \in 1 .. applied : e \notin ToSet(pending) => Delivered(e)

(* A sink receives the events for the first time in their order.           *)
FirstReceivedInOrder ==
  \A s \in Sinks : \A j \in DOMAIN received[s] : \A e \in 1 .. received[s][j] :
    s \in SinksOf(e) => e \in ToSet(SubSeq(received[s], 1, j))

(* Nobody outside hears of an event before the domain bus did.             *)
DomainFirst ==
  \A s \in Sinks : ToSet(received[s]) \subseteq ToSet(received["domain"])

(* An event is received again only because of a failure.                   *)
RepeatedByFailures ==
  \A s \in Sinks, e \in Event : Count(s, e) <= failures + 1

(* Every event applied is delivered in the end.                            *)
AllDelivered == \A e \in Event : applied >= e ~> Delivered(e)

=============================================================================
