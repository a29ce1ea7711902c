--------------------------- MODULE IntegrationFlow ---------------------------
(***************************************************************************)
(* An event on its way out of its context: a domain event is transformed   *)
(* into an integration event for each target, which goes through the       *)
(* outbox, perhaps copied or serialized on the way, and is handed to the   *)
(* handler of its type in the target context, perhaps more than once.  A   *)
(* context skips messages whose idempotency key it has seen.               *)
(* (domain-to-integration-transformer.ts, integration-event*.ts,           *)
(* outbox-message-factory.ts, message-processor.decorator.ts.)             *)
(*                                                                         *)
(* A UUID is a number that was not used before.  Payloads are left out: an *)
(* event is of an occasion, what it tells of.                              *)
(***************************************************************************)
EXTENDS Naturals, Sequences, FiniteSets, SequencesExt

CONSTANTS
  EventTypes,    \* of domain events
  Contexts,      \* that have a router's rules
  Transformers,  \* [to: Seq(Contexts) or Everyone, type: integration type]
  Classes,       \* [class -> [type, parent, method]] of decorated handlers
  MaxEvents, MaxPublished, MaxMessages, MaxDeliveries    \* bounds

Absent   == 0             \* no id, no key
Everyone == <<"everyone">>  \* a transformer without a router
None     == "none"        \* no parent, no handler

Places == Contexts \cup {"everyone"}

FlowAssumption ==
  /\ \A t \in Transformers : t.to = Everyone \/ t.to \in Seq(Contexts)
  /\ \A c \in DOMAIN Classes : Classes[c].parent \in DOMAIN Classes \cup {None}
  /\ {MaxEvents, MaxPublished, MaxMessages, MaxDeliveries} \subseteq Nat

VARIABLES
  uuids,         \* how many were made
  domainEvents,  \* Seq([type, occasion, id]), id: metadata.eventId
  registry,      \* [EventTypes -> SUBSET Transformers], none or one
  published,     \* Seq([type, metadata, occasion]): integration events
  outbox,        \* Seq([messageType, metadata, occasion])
  handlers,      \* [messageType -> class] of the processor, the same everywhere
  seen,          \* [Places -> keys]
  deliveries     \* Seq([message, effect])

vars == <<uuids, domainEvents, registry, published, outbox, handlers, seen, deliveries>>

MessageTypes == {"integration_event"} \X {t.type : t \in Transformers}

Init ==
  /\ uuids = 0 /\ domainEvents = <<>> /\ published = <<>> /\ outbox = <<>>
  /\ registry = [t \in EventTypes |-> {}]
  /\ handlers = [t \in MessageTypes |-> None]
  /\ seen = [p \in Places |-> {}]
  /\ deliveries = <<>>

-----------------------------------------------------------------------------
\* createDomainEvent() puts an id in the metadata, the constructor of a
\* DomainEvent does not.
Raise(type, withId) ==
  /\ Len(domainEvents) < MaxEvents
  /\ uuids' = uuids + 1
  /\ domainEvents' = Append(domainEvents,
       [type |-> type, occasion |-> Len(domainEvents) + 1,
        id |-> IF withId THEN uuids' ELSE Absent])
  /\ UNCHANGED <<registry, published, outbox, handlers, seen, deliveries>>

\* register() replaces, clear() empties.
SetTransformers(now) ==
  /\ registry' = now
  /\ UNCHANGED <<uuids, domainEvents, published, outbox, handlers, seen, deliveries>>

RegisterTransformer(type, t) == SetTransformers([registry EXCEPT ![type] = {t}])

ClearTransformers == SetTransformers([type \in EventTypes |-> {}])

\* transformMetadata() over what createIntegrationEvent() puts there.
Metadata(event, id, to, key) ==
  [eventId |-> id, causationId |-> event.id, targetContext |-> to, idempotencyKey |-> key]

\* transformToMultipleTargets(): a copy with an id of its own for each target,
\* whenever the event is dispatched; all carry a key when the application's
\* metadata has one.
Transform(event, keyed) ==
  \E t \in registry[event.type] :
    /\ Len(published) + Len(t.to) <= MaxPublished
    /\ published' = published \o [i \in DOMAIN t.to |->
         [type |-> t.type, occasion |-> event.occasion,
          metadata |-> Metadata(event, uuids + i, t.to[i],
                                IF keyed THEN event.occasion ELSE Absent)]]
    /\ uuids' = uuids + Len(t.to)
    /\ UNCHANGED <<domainEvents, registry, outbox, handlers, seen, deliveries>>

\* withMetadata() and deserialize() make a new IntegrationEvent whose field
\* eventId is new and whose metadata is that of the one before.
Copy(event) ==
  /\ Len(published) < MaxPublished
  /\ uuids' = uuids + 1
  /\ published' = Append(published, event)
  /\ UNCHANGED <<domainEvents, registry, outbox, handlers, seen, deliveries>>

Put(message) ==
  /\ Len(outbox) < MaxMessages
  /\ outbox' = Append(outbox, message)
  /\ UNCHANGED <<uuids, domainEvents, registry, published, handlers, seen, deliveries>>

\* createFromIntegrationEvent(): the metadata of the options wins.
CreateFromIntegrationEvent(event, keyed) ==
  Put([messageType |-> <<"integration_event", event.type>>, occasion |-> event.occasion,
       metadata |-> IF keyed THEN [event.metadata EXCEPT !.idempotencyKey = event.occasion]
                    ELSE event.metadata])

\* createMessage() without metadata.
CreateMessage(event) ==
  Put([messageType |-> <<"integration_event", event.type>>, occasion |-> event.occasion,
       metadata |-> [event.metadata EXCEPT !.eventId = Absent, !.idempotencyKey = Absent]])

-----------------------------------------------------------------------------
\* @IntegrationEventHandler: getMessageType and handle are added to a class
\* unless it has or inherits one, a decorated parent's included.
MessageTypeOf[c \in DOMAIN Classes] ==
  IF Classes[c].parent = None THEN <<"integration_event", Classes[c].type>>
  ELSE MessageTypeOf[Classes[c].parent]

HandlesOrProcesses[c \in DOMAIN Classes] ==
  \/ Classes[c].method \in {"handle", "process"}
  \/ Classes[c].parent # None /\ HandlesOrProcesses[Classes[c].parent]

RegisterHandler(c) ==
  /\ handlers' = [handlers EXCEPT ![MessageTypeOf[c]] = c]
  /\ UNCHANGED <<uuids, domainEvents, registry, published, outbox, seen, deliveries>>

GenerateIdempotencyKey_ByCause(message) ==
  <<"id", message.metadata.causationId, message.messageType>>

\* generateIdempotencyKey(): the key given, else the id and the type, else a
\* UUID that nobody has seen.
GenerateIdempotencyKey(message) ==
  IF message.metadata.idempotencyKey # Absent THEN <<"given", message.metadata.idempotencyKey>>
  ELSE IF message.metadata.eventId # Absent
  THEN <<"id", message.metadata.eventId, message.messageType>>
  ELSE <<"random", uuids + 1>>

\* The processor hands a message out at least once and in any order; without a
\* handler, or one that can handle, the message is not handled this time.
Deliver(i) ==
  LET message == outbox[i]
      place   == message.metadata.targetContext
      key     == GenerateIdempotencyKey(message)
      handler == handlers[message.messageType]
  IN  /\ Len(deliveries) < MaxDeliveries
      /\ handler # None /\ HandlesOrProcesses[handler]
      /\ seen' = [seen EXCEPT ![place] = @ \cup {key}]
      /\ deliveries' = Append(deliveries, [message |-> i, effect |-> key \notin seen[place]])
      /\ uuids' = IF key[1] = "random" THEN uuids + 1 ELSE uuids
      /\ UNCHANGED <<domainEvents, registry, published, outbox, handlers>>

Next ==
  \/ \E type \in EventTypes :
       \/ \E withId \in BOOLEAN : Raise(type, withId)
       \/ \E t \in Transformers : RegisterTransformer(type, t)
  \/ ClearTransformers
  \/ \E event \in Range(domainEvents), keyed \in BOOLEAN : Transform(event, keyed)
  \/ \E event \in Range(published) :
       \/ Copy(event) \/ CreateMessage(event)
       \/ \E keyed \in BOOLEAN : CreateFromIntegrationEvent(event, keyed)
  \/ \E c \in DOMAIN Classes : RegisterHandler(c)
  \/ \E i \in DOMAIN outbox : Deliver(i)

Spec == Init /\ [][Next]_vars

-----------------------------------------------------------------------------
TypeOK ==
  /\ \A type \in EventTypes : registry[type] \subseteq Transformers
                              /\ Cardinality(registry[type]) <= 1
  /\ \A m \in Range(published) \cup Range(outbox) :
       /\ m.occasion \in 1 .. Len(domainEvents) /\ m.metadata.targetContext \in Places
       /\ m.metadata.causationId = domainEvents[m.occasion].id
  /\ \A d \in Range(deliveries) : d.message \in DOMAIN outbox

\* What was to be told where, of a delivery.
Told(d) == <<outbox[d.message].occasion, outbox[d.message].metadata.targetContext>>

\* A context that skips the keys it has seen skips nothing that it was not told
\* before: ids are not shared, neither by the copies for several contexts nor by
\* events that have no id of their own (generateIdempotencyKey).
NothingSkipped ==
  \A j \in DOMAIN deliveries : ~deliveries[j].effect =>
    \E k \in 1 .. j - 1 : deliveries[k].effect /\ Told(deliveries[k]) = Told(deliveries[j])

\* Telling again has an effect only when the event was transformed again or
\* carries no id: copies, serialization, more messages and more deliveries have
\* none, and with a key given not even another transformation has
\* (transform, withMetadata, deserialize, createFromIntegrationEvent).
SameTelling(m, n) ==
  /\ m.occasion = n.occasion /\ m.metadata.targetContext = n.metadata.targetContext
  /\ IF m.metadata.idempotencyKey # Absent THEN n.metadata.idempotencyKey # Absent
     ELSE /\ n.metadata.idempotencyKey = Absent
          /\ m.metadata.eventId = n.metadata.eventId /\ m.metadata.eventId # Absent

RepeatsHaveNoEffect ==
  \A j \in DOMAIN deliveries : \A k \in 1 .. j - 1 :
    /\ deliveries[j].effect
    /\ outbox[deliveries[k].message].messageType = outbox[deliveries[j].message].messageType
    => ~SameTelling(outbox[deliveries[j].message], outbox[deliveries[k].message])

=============================================================================
