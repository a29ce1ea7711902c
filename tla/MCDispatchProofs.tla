------------------------- MODULE MCDispatchProofs -------------------------
(* Theorems about the ways of events as they are checked together: for any *)
(* rules, transformers, handlers and bounds.                               *)
EXTENDS MCDispatch, EventDispatchProofs

-----------------------------------------------------------------------------
(* The router *)

(* Each part has operators of its own; these are the same.                 *)
LEMMA RouterOperators ==
  /\ \A s : Router!ToSet(s) = ToSet(s) /\ (Router!IsInjective(s) <=> IsInjective(s))
  /\ \A r : Router!Normalized(r) = Normalized(r)
  /\ \A r, t : Router!DetermineTargetContexts(r, t) = DetermineTargetContexts(r, t)
<1>1. \A s : Router!ToSet(s) = ToSet(s) /\ (Router!IsInjective(s) <=> IsInjective(s))
  BY DEF Router!ToSet, ToSet, Router!IsInjective, IsInjective
<1>2. \A r : Router!Normalized(r) = Normalized(r)
  BY DEF Router!Normalized, Normalized
<1>3. \A r, t : Router!DetermineTargetContexts(r, t) = DetermineTargetContexts(r, t)
  BY DEF Router!DetermineTargetContexts, DetermineTargetContexts, Router!AddTargets, AddTargets,
     Router!Normalized, Normalized, Router!FoldLeft, FoldLeft,
     Router!MapThenFoldSet, MapThenFoldSet, Router!Max, Max, Router!ToSet, ToSet
<1> QED
  BY <1>1, <1>2, <1>3

RuleType == [targets : Seq(Contexts), condition : Router!Conditions]

(* A call meant a context to receive a type just if a rule sends it there. *)
RouterInv ==
  /\ routingRules \in Seq(RuleType)
  /\ meant \in [Contexts -> SUBSET EventTypes]
  /\ \A c \in Contexts, t \in EventTypes :
       t \in meant[c] <=> \E i \in 1 .. Len(routingRules) :
                            /\ t \in Normalized(routingRules[i].condition)
                            /\ c \in ToSet(routingRules[i].targets)

(* A rule is added for what the call means.                                *)
LEMMA AddsOne ==
  ASSUME RouterInv, NEW contexts \in Seq(Contexts), NEW condition \in Router!Conditions,
         NEW types \in SUBSET EventTypes, Normalized(condition) = types,
         Router!Adds(<<Router!Rule(contexts, condition)>>, ToSet(contexts), types)
  PROVE  RouterInv'
<1> DEFINE old == routingRules
           rule == [targets |-> contexts, condition |-> condition]
           n == Len(old)
<1>1. routingRules' = old \o <<rule>>
  BY DEF Router!Adds, Router!Rule
<1>2. old \in Seq(RuleType) /\ rule \in RuleType
  BY DEF RouterInv, RuleType
<1>3. <<rule>> \in Seq(RuleType) /\ Len(<<rule>>) = 1 /\ <<rule>>[1] = rule
  BY <1>2
<1>4. rule.targets = contexts /\ Normalized(rule.condition) = types
  OBVIOUS
<1>5. meant' = [c \in Contexts |-> IF c \in ToSet(contexts) THEN meant[c] \cup types ELSE meant[c]]
  BY DEF Router!Adds
<1> HIDE DEF rule, old
<1>6. /\ old \o <<rule>> \in Seq(RuleType) /\ Len(old \o <<rule>>) = n + 1 /\ n \in Nat
      /\ \A i \in 1 .. n : (old \o <<rule>>)[i] = old[i]
      /\ (old \o <<rule>>)[n + 1] = rule
  BY <1>2, <1>3, ConcatProperties, LenProperties
<1>7. meant' \in [Contexts -> SUBSET EventTypes]
  BY <1>5 DEF RouterInv
<1>8. ASSUME NEW c \in Contexts, NEW t \in EventTypes
      PROVE  t \in meant'[c] <=> \E i \in 1 .. Len(routingRules') :
                                   /\ t \in Normalized(routingRules'[i].condition)
                                   /\ c \in ToSet(routingRules'[i].targets)
  <2> DEFINE P(r) == t \in Normalized(r.condition) /\ c \in ToSet(r.targets)
  <2>1. t \in meant[c] <=> \E i \in 1 .. n : P(old[i])
    BY DEF RouterInv, old
  <2>2. t \in meant'[c] <=> t \in meant[c] \/ P(rule)
    BY <1>4, <1>5
  <2> SUFFICES t \in meant'[c] <=> \E i \in 1 .. n + 1 : P((old \o <<rule>>)[i])
    BY <1>1, <1>6
  <2> HIDE DEF P, n
  <2>3. \A i \in 1 .. n + 1 : i \in 1 .. n \/ i = n + 1
    BY <1>6
  <2>4. \A i \in 1 .. n : i \in 1 .. n + 1
    BY <1>6
  <2>5. n + 1 \in 1 .. n + 1
    BY <1>6
  <2> QED
    BY <1>6, <2>1, <2>2, <2>3, <2>4, <2>5
<1> QED
  BY <1>1, <1>6, <1>7, <1>8 DEF RouterInv

LEMMA RouterStep ==
  ASSUME FALSE \notin Constants, RouterInv, Router!Next
  PROVE  RouterInv'
<1>0. \A s : Router!ToSet(s) = ToSet(s)
  BY RouterOperators
<1>1. \A contexts \in Router!ContextLists : contexts \in Seq(Contexts)
  <2>1. \A c, d \in Contexts : <<c>> \in Seq(Contexts) /\ <<c, d>> \in Seq(Contexts)
    OBVIOUS
  <2>2. ASSUME NEW contexts \in Router!ContextLists
        PROVE  \E c, d \in Contexts : contexts = <<c>> \/ contexts = <<c, d>>
    <3> DEFINE Pairs == {<<c, d>> : c \in Contexts, d \in Contexts}
               Singles == {<<c>> : c \in Contexts}
    <3>1. \A p \in Pairs : \E c, d \in Contexts : p = <<c, d>>
      OBVIOUS
    <3>2. \A p \in Singles : \E c \in Contexts : p = <<c>>
      OBVIOUS
    <3>3. contexts \in Singles \/ contexts \in Pairs
      BY <2>2 DEF Router!ContextLists
    <3> HIDE DEF Pairs, Singles
    <3> QED
      BY <3>1, <3>2, <3>3
  <2> QED
    BY <2>1, <2>2
<1>2. ASSUME NEW contexts \in Router!ContextLists, Router!SendAllEventsTo(contexts)
      PROVE  RouterInv'
  <2>1. Router!Always \in Router!Conditions /\ Normalized(Router!Always) = EventTypes
    BY DEF Router!Always, Router!Conditions, Normalized
  <2> QED
    BY <1>0, <1>1, <1>2, <2>1, AddsOne DEF Router!SendAllEventsTo
<1>3. ASSUME NEW c \in Contexts, NEW condition \in Router!Conditions,
             Router!Configure(c, condition)
      PROVE  RouterInv'
  <2>1. condition.types \in SUBSET EventTypes
    BY DEF Router!Conditions
  <2>2. condition.kind = "constant" => condition.types = EventTypes
    BY <1>3 DEF Router!Configure
  <2>3. Normalized(condition) = condition.types
    BY <2>2 DEF Normalized
  <2>4. <<c>> \in Seq(Contexts) /\ ToSet(<<c>>) = {c}
    BY DEF ToSet
  <2>5. Router!Adds(<<Router!Rule(<<c>>, condition)>>, {c}, condition.types)
    BY <1>3 DEF Router!Configure
  <2> QED
    BY <2>1, <2>3, <2>4, <2>5, AddsOne
<1>4. ASSUME NEW t \in EventTypes, NEW contexts \in Router!ContextLists,
             Router!SendEventTypeTo(t, contexts)
      PROVE  RouterInv'
  <2> DEFINE condition == [kind |-> "type", types |-> {t}]
  <2>1. condition \in {[kind |-> "type", types |-> {u}] : u \in EventTypes}
    BY Zenon
  <2>2. condition \in Router!Conditions
    <3> DEFINE A == {[kind |-> "type", types |-> {u}] : u \in EventTypes}
               B == {[kind |-> "constant", types |-> s] : s \in {{}, EventTypes}}
               C == {[kind |-> k, types |-> s] : k \in {"list", "predicate"}, s \in SUBSET EventTypes}
    <3>1. Router!Conditions = (A \cup B) \cup C
      BY DEF Router!Conditions
    <3> HIDE DEF B, C
    <3> QED
      BY <2>1, <3>1
  <2>3. Normalized(condition) = {t}
    BY DEF Normalized
  <2>4. Router!Adds(<<Router!Rule(contexts, condition)>>, ToSet(contexts), {t})
    BY <1>0, <1>4 DEF Router!SendEventTypeTo
  <2> HIDE DEF condition
  <2> QED
    BY <1>1, <2>2, <2>3, <2>4, AddsOne
<1>5. ASSUME NEW s \in SUBSET EventTypes, NEW contexts \in Router!ContextLists,
             Router!SendEventsMatchingTo(s, contexts)
      PROVE  RouterInv'
  <2> DEFINE condition == [kind |-> "predicate", types |-> s]
  <2>1. condition \in Router!Conditions /\ Normalized(condition) = s
    BY DEF Router!Conditions, Normalized
  <2>2. Router!Adds(<<Router!Rule(contexts, condition)>>, ToSet(contexts), s)
    BY <1>0, <1>5 DEF Router!SendEventsMatchingTo
  <2> QED
    BY <1>1, <2>1, <2>2, AddsOne
<1>6. CASE Router!Clear
  BY <1>6 DEF Router!Clear, RouterInv
<1> QED
  BY <1>2, <1>3, <1>4, <1>5, <1>6 DEF Router!Next

LEMMA RouterRoutes ==
  ASSUME RouterInv
  PROVE  Router!RoutesAsMeant /\ Router!RoutesOnce
<1> SUFFICES ASSUME NEW t \in EventTypes
             PROVE  /\ ToSet(DetermineTargetContexts(routingRules, t)) = {c \in Contexts : t \in meant[c]}
                    /\ IsInjective(DetermineTargetContexts(routingRules, t))
  BY RouterOperators DEF Router!RoutesAsMeant, Router!RoutesOnce
<1>1. /\ routingRules \in Seq(RuleType) /\ Len(routingRules) \in Nat
      /\ DOMAIN routingRules = 1 .. Len(routingRules)
      /\ \A i \in 1 .. Len(routingRules) : routingRules[i] \in RuleType
  BY LenProperties, ElementOfSeq DEF RouterInv
<1>2. \A i \in 1 .. Len(routingRules) : routingRules[i].targets \in Seq(Contexts)
  BY <1>1 DEF RuleType
<1>3. /\ IsInjective(DetermineTargetContexts(routingRules, t))
      /\ ToSet(DetermineTargetContexts(routingRules, t)) = Meant(routingRules, t)
  BY <1>1, <1>2, DetermineIs
<1>4. \A i \in 1 .. Len(routingRules) : \A c \in ToSet(routingRules[i].targets) : c \in Contexts
  BY <1>2, ElementOfSeq DEF ToSet
<1>5. \A c : c \in Meant(routingRules, t) <=>
        \E i \in 1 .. Len(routingRules) :
          /\ t \in Normalized(routingRules[i].condition)
          /\ c \in ToSet(routingRules[i].targets)
  BY <1>1 DEF Meant
<1>6. \A c : c \in Meant(routingRules, t) <=> c \in Contexts /\ t \in meant[c]
  BY <1>4, <1>5 DEF RouterInv
<1> QED
  BY <1>3, <1>6

(* No constant condition false, and whatever else routers are given and in *)
(* whatever order: an event goes to exactly the contexts that some call    *)
(* meant it for, and to each of them once.                                 *)
THEOREM RoutedAsMeant ==
  ASSUME FALSE \notin Constants
  PROVE  MCSpec => []RoutedOnceAsMeant
<1> DEFINE Inv == part = "router" => RouterInv
<1>1. MCInit => Inv
  BY DEF MCInit, Router!Init, RouterInv
<1>2. Inv /\ [MCNext]_mcvars => Inv'
  <2> SUFFICES ASSUME part = "router", part' = "router", RouterInv, [MCNext]_mcvars
               PROVE  RouterInv'
    BY DEF MCNext, mcvars
  <2>1. CASE Router!Next
    BY <2>1, RouterStep
  <2>2. CASE UNCHANGED router
    BY <2>2 DEF router, RouterInv
  <2> QED
    BY <2>1, <2>2 DEF MCNext, mcvars
<1>3. Inv => RoutedOnceAsMeant
  BY RouterRoutes DEF RoutedOnceAsMeant
<1> HIDE DEF Inv
<1> QED
  BY <1>1, <1>2, <1>3, PTL DEF MCSpec

-----------------------------------------------------------------------------
(* The dispatcher *)

(* The theorems about EventDispatch hold of the overlapping dispatches too. *)
O == INSTANCE EventDispatchProofs
  WITH Callers <- {k1, k2}, Overlapping <- TRUE, Dropping <- TRUE,
       MaxEvents <- 2, MaxFailures <- 1

LEMMA OverlapOperators ==
  /\ \A e : O!Targets(e) = Overlap!Targets(e)
  /\ \A s : O!ToSet(s) = Overlap!ToSet(s)
<1>1. \A e : O!Targets(e) = Overlap!Targets(e)
  BY DEF O!Targets, Overlap!Targets, O!DetermineTargetContexts, Overlap!DetermineTargetContexts,
     O!AddTargets, Overlap!AddTargets, O!Normalized, Overlap!Normalized,
     O!FoldLeft, Overlap!FoldLeft, O!MapThenFoldSet, Overlap!MapThenFoldSet,
     O!Max, Overlap!Max, O!ToSet, Overlap!ToSet
<1> QED
  BY <1>1 DEF O!ToSet, Overlap!ToSet

LEMMA OverlapAssumption == O!DispatchAssumption
BY ConfigurationAssumption
DEF Overlap!DispatchAssumption, O!DispatchAssumption, Overlap!Conditions, O!Conditions

LEMMA OverlapSteps ==
  /\ Overlap!Init => O!Init
  /\ Overlap!Next => O!Next
<1> USE DEF O!Goto, Overlap!Goto, O!Receive, Overlap!Receive, O!Fail, Overlap!Fail,
     O!StartEvent, Overlap!StartEvent, O!StartProcessors, Overlap!StartProcessors,
     O!NextProcessor, Overlap!NextProcessor, O!Quiet, Overlap!Quiet
<1>1. Overlap!Init => O!Init
  BY DEF O!Init, Overlap!Init, O!Sinks, Overlap!Sinks
<1>2. Overlap!Apply => O!Apply
  BY DEF O!Apply, Overlap!Apply
<1>3. \A m : Overlap!Use(m) => O!Use(m)
  BY OverlapOperators DEF O!Use, Overlap!Use
<1>4. \A c : Overlap!DispatchEventsForAggregate(c) => O!DispatchEventsForAggregate(c)
  BY DEF O!DispatchEventsForAggregate, Overlap!DispatchEventsForAggregate
<1>5. \A c : Overlap!RunMiddleware(c) => O!RunMiddleware(c)
  BY DEF O!RunMiddleware, Overlap!RunMiddleware
<1>6. \A c : Overlap!PublishToDomainBus(c) => O!PublishToDomainBus(c)
  BY DEF O!PublishToDomainBus, Overlap!PublishToDomainBus
<1>7. \A c : Overlap!StartTransforming(c) => O!StartTransforming(c)
  BY OverlapOperators DEF O!StartTransforming, Overlap!StartTransforming
<1>8. \A c : Overlap!PublishIntegrationEvent(c) => O!PublishIntegrationEvent(c)
  BY DEF O!PublishIntegrationEvent, Overlap!PublishIntegrationEvent
<1>9. \A c : Overlap!SaveAudit(c) => O!SaveAudit(c)
  BY DEF O!SaveAudit, Overlap!SaveAudit, O!ShouldAudit, Overlap!ShouldAudit
<1>10. \A c : Overlap!NextEvent(c) => O!NextEvent(c)
  BY DEF O!NextEvent, Overlap!NextEvent
<1>11. \A c : Overlap!Commit(c) => O!Commit(c)
  BY DEF O!Commit, Overlap!Commit
<1>12. \A c : Overlap!Step(c) => O!Step(c)
  BY <1>5, <1>6, <1>7, <1>8, <1>9, <1>10, <1>11 DEF O!Step, Overlap!Step
<1>13. Overlap!Next => O!Next
  BY <1>2, <1>3, <1>4, <1>12 DEF O!Next, Overlap!Next
<1> QED
  BY <1>1, <1>13

LEMMA OverlapProperties ==
  /\ O!TypeOK => Overlap!TypeOK
  /\ O!ClearedWereDelivered => Overlap!ClearedWereDelivered
<1>1. O!TypeOK => Overlap!TypeOK
  BY DEF O!TypeOK, Overlap!TypeOK, O!Event, Overlap!Event, O!Steps, Overlap!Steps,
     O!Sinks, Overlap!Sinks
<1>2. \A e : O!Delivered(e) => Overlap!Delivered(e)
  BY OverlapOperators DEF O!Delivered, Overlap!Delivered, O!SinksOf, Overlap!SinksOf,
     O!ShouldAudit, Overlap!ShouldAudit
<1> QED
  BY <1>1, <1>2, OverlapOperators DEF O!ClearedWereDelivered, Overlap!ClearedWereDelivered

SerialInv ==
  DispatchInv /\ OrderInv /\ WaitInv /\ AloneInv /\ CountInv /\ DomainFirst
    /\ \A s \in Sinks : InOrder(s)

OverlapInv == O!DispatchInv /\ O!WaitInv

LEMMA SerialStep ==
  ASSUME ~Overlapping, ~ApplyMeanwhile, ~Dropping, IsInjective(Processors),
         SerialInv, [Next]_vars
  PROVE  SerialInv'
<1>1. DispatchInv'
  BY TypeStep, OnStep DEF SerialInv, DispatchInv
<1>2. OrderInv' /\ WaitInv' /\ AloneInv'
  BY OrderStep, WaitStep, AloneStep DEF SerialInv
<1>3. CountInv' /\ DomainFirst'
  BY CountStep, DomainStep DEF SerialInv
<1>4. \A s \in Sinks : InOrder(s)'
  BY InOrderStep DEF SerialInv
<1> QED
  BY <1>1, <1>2, <1>3, <1>4 DEF SerialInv

LEMMA OverlapStep ==
  ASSUME ~ApplyMeanwhile, OverlapInv, [O!Next]_vars
  PROVE  OverlapInv'
<1>1. [O!Next]_O!vars
  BY DEF vars, O!vars
<1>2. O!DispatchInv'
  BY <1>1, OverlapAssumption, O!TypeStep, O!OnStep DEF OverlapInv, O!DispatchInv
<1>3. O!WaitInv'
  BY <1>1, OverlapAssumption, O!WaitStep DEF OverlapInv
<1> QED
  BY <1>2, <1>3 DEF OverlapInv


(* Dispatches made one at a time while no event is applied, no middleware  *)
(* dropping events and every kind of processor added once: no event is     *)
(* lost, and the sinks hear of events in order, the domain bus first, and  *)
(* again only after a failure.  None is lost by dispatches that overlap.   *)
THEOREM DispatchDelivers ==
  ASSUME ~Overlapping, ~ApplyMeanwhile, ~Dropping, IsInjective(Processors)
  PROVE  MCSpec => []ClearedAreDelivered
<1> DEFINE Inv == (part = "serial" => SerialInv) /\ (part = "overlap" => OverlapInv)
<1>1. MCInit => Inv
  <2> SUFFICES ASSUME MCInit PROVE Inv
    OBVIOUS
  <2>1. ASSUME Init PROVE SerialInv
    BY <2>1, DispatchInit, WaitInit, CountInit
    DEF Init, SerialInv, OrderInv, Rising, AloneInv, DomainFirst, Sinks, ToSet, InOrder
  <2>2. ASSUME O!Init PROVE OverlapInv
    BY <2>2, OverlapAssumption, O!DispatchInit, O!WaitInit DEF OverlapInv
  <2> QED
    BY <2>1, <2>2, OverlapSteps DEF MCInit
<1>2. Inv /\ [MCNext]_mcvars => Inv'
  <2> SUFFICES ASSUME Inv, [MCNext]_mcvars PROVE Inv'
    OBVIOUS
  <2>1. part' = part
    BY DEF MCNext, mcvars
  <2>2. part = "serial" => [Next]_vars
    BY DEF MCNext, mcvars
  <2>3. part = "overlap" => [O!Next]_vars
    BY OverlapSteps DEF MCNext, mcvars
  <2> QED
    BY <2>1, <2>2, <2>3, SerialStep, OverlapStep
<1>3. Inv => ClearedAreDelivered
  <2> SUFFICES ASSUME Inv PROVE ClearedAreDelivered
    OBVIOUS
  <2>1. ASSUME SerialInv
        PROVE  /\ TypeOK /\ ClearedWereDelivered
               /\ FirstReceivedInOrder /\ DomainFirst /\ RepeatedByFailures
    <3>1. TypeOK /\ DomainFirst
      BY <2>1 DEF SerialInv, DispatchInv
    <3>2. ClearedWereDelivered
      BY <2>1 DEF SerialInv, WaitInv, ClearedWereDelivered
    <3>3. FirstReceivedInOrder
      BY <2>1, <3>1, InOrderIs DEF SerialInv
    <3>4. RepeatedByFailures
      BY <2>1 DEF SerialInv, CountInv, RepeatedByFailures
    <3> QED
      BY <3>1, <3>2, <3>3, <3>4
  <2>2. ASSUME OverlapInv PROVE Overlap!TypeOK /\ Overlap!ClearedWereDelivered
    <3>1. O!TypeOK /\ O!ClearedWereDelivered
      BY <2>2 DEF OverlapInv, O!DispatchInv, O!WaitInv, O!ClearedWereDelivered
    <3> QED
      BY <3>1, OverlapProperties
  <2> QED
    BY <2>1, <2>2 DEF ClearedAreDelivered
<1> HIDE DEF Inv
<1> QED
  BY <1>1, <1>2, <1>3, PTL DEF MCSpec

-----------------------------------------------------------------------------
(* The flow to the handlers *)

Metadata == [eventId : Nat, causationId : Nat, targetContext : Flow!Places, idempotencyKey : Nat]
Types    == {t.type : t \in Transformers}
Events   == [type : Types, occasion : Nat, metadata : Metadata]
Messages == [messageType : {"integration_event"} \X Types, occasion : Nat, metadata : Metadata]

All == {published[i] : i \in 1 .. Len(published)} \cup {outbox[i] : i \in 1 .. Len(outbox)}

(* What is published or in the outbox tells of a domain event.             *)
Stamped(m) ==
  /\ m.occasion \in 1 .. Len(domainEvents)
  /\ m.metadata.causationId = domainEvents[m.occasion].id
  /\ m.metadata.eventId \in 0 .. uuids
  /\ m.metadata.idempotencyKey \in {0, m.occasion}

FlowTypesInv ==
  /\ uuids \in Nat
  /\ domainEvents \in Seq([type : FlowTypes, occasion : Nat, id : Nat])
  /\ \A i \in 1 .. Len(domainEvents) : domainEvents[i].occasion = i
  /\ registry \in [FlowTypes -> SUBSET Transformers]
  /\ \A type \in FlowTypes : Cardinality(registry[type]) <= 1
  /\ published \in Seq(Events) /\ outbox \in Seq(Messages)
  /\ deliveries \in Seq([message : Nat, effect : BOOLEAN])
  /\ \A k \in 1 .. Len(deliveries) : deliveries[k].message \in 1 .. Len(outbox)
  /\ seen = [p \in Flow!Places |-> seen[p]]

(* An id belongs to one event told to one context.                         *)
IdsInv ==
  /\ \A m \in All : Stamped(m)
  /\ \A m, n \in All :
       m.metadata.eventId = n.metadata.eventId /\ m.metadata.eventId # 0
         => m.occasion = n.occasion /\ m.metadata.targetContext = n.metadata.targetContext

(* The key of a message is always the same, unless it is drawn.            *)
Keyed(m) == m.metadata.idempotencyKey # 0 \/ m.metadata.eventId # 0

KeyOf(m) ==
  IF m.metadata.idempotencyKey # 0 THEN <<"given", m.metadata.idempotencyKey>>
  ELSE <<"id", m.metadata.eventId, m.messageType>>

Delivery(k) == outbox[deliveries[k].message]

(* A context has seen the keys of what it was handed; what it has seen was *)
(* drawn, or is the key of what had an effect there.                       *)
SeenInv ==
  /\ \A k \in 1 .. Len(deliveries) : Keyed(Delivery(k)) =>
       KeyOf(Delivery(k)) \in seen[Delivery(k).metadata.targetContext]
  /\ \A p \in Flow!Places : \A key \in seen[p] :
       \/ \E n \in 1 .. uuids : key = <<"random", n>>
       \/ \E k \in 1 .. Len(deliveries) :
            /\ deliveries[k].effect /\ Keyed(Delivery(k))
            /\ Delivery(k).metadata.targetContext = p /\ KeyOf(Delivery(k)) = key

NoneSkipped(j) ==
  ~deliveries[j].effect => \E k \in 1 .. j - 1 :
    /\ deliveries[k].effect /\ Delivery(k).occasion = Delivery(j).occasion
    /\ Delivery(k).metadata.targetContext = Delivery(j).metadata.targetContext

NoneRepeats(j) ==
  deliveries[j].effect => \A k \in 1 .. j - 1 :
    Delivery(k).messageType = Delivery(j).messageType
      => ~Flow!SameTelling(Delivery(j), Delivery(k))

FlowInv ==
  /\ FlowTypesInv /\ IdsInv /\ SeenInv
  /\ \A j \in 1 .. Len(deliveries) : NoneSkipped(j) /\ NoneRepeats(j)

LEMMA KeysDiffer ==
  ASSUME NEW m, NEW n
  PROVE  /\ KeyOf(m) # <<"random", n>>
         /\ KeyOf(m) = KeyOf(n) =>
              \/ /\ m.metadata.idempotencyKey # 0 /\ n.metadata.idempotencyKey # 0
                 /\ m.metadata.idempotencyKey = n.metadata.idempotencyKey
              \/ /\ m.metadata.idempotencyKey = 0 /\ n.metadata.idempotencyKey = 0
                 /\ m.metadata.eventId = n.metadata.eventId
<1>1. \A x, y, z, u, v :
        /\ <<"given", x>> # <<"random", n>> /\ <<"id", y, z>> # <<"random", n>>
        /\ <<"given", x>> # <<"id", y, z>> /\ <<"id", y, z>> # <<"given", x>>
        /\ <<"given", x>> = <<"given", u>> => x = u
        /\ <<"id", y, z>> = <<"id", u, v>> => y = u
  OBVIOUS
<1> QED
  BY <1>1, Zenon DEF KeyOf

(* Messages of one key tell of one occasion.                               *)
LEMMA KeysTell ==
  ASSUME IdsInv, NEW m \in All, NEW n \in All, Keyed(m), Keyed(n), KeyOf(m) = KeyOf(n)
  PROVE  m.occasion = n.occasion
BY KeysDiffer DEF IdsInv, Stamped, Keyed

(* Messages of one type that tell the same have one key.                   *)
LEMMA SameTellingSameKey ==
  ASSUME IdsInv, NEW m \in All, NEW n \in All, Flow!SameTelling(m, n),
         n.messageType = m.messageType
  PROVE  Keyed(m) /\ Keyed(n) /\ KeyOf(m) = KeyOf(n)
           /\ m.metadata.targetContext = n.metadata.targetContext
<1>1. /\ m.occasion = n.occasion /\ m.metadata.targetContext = n.metadata.targetContext
      /\ IF m.metadata.idempotencyKey # 0 THEN n.metadata.idempotencyKey # 0
         ELSE /\ n.metadata.idempotencyKey = 0
              /\ m.metadata.eventId = n.metadata.eventId /\ m.metadata.eventId # 0
  BY DEF Flow!SameTelling, Flow!Absent
<1>2. m.metadata.idempotencyKey \in {0, m.occasion} /\ n.metadata.idempotencyKey \in {0, n.occasion}
  BY DEF IdsInv, Stamped
<1> QED
  BY <1>1, <1>2 DEF Keyed, KeyOf


(* More ids, domain events and messages leave what was delivered alone.    *)
LEMMA DeliveriesStay ==
  ASSUME FlowInv, UNCHANGED <<seen, deliveries>>, uuids' \in Nat, uuids <= uuids',
         \A i \in 1 .. Len(outbox) : outbox'[i] = outbox[i]
  PROVE  SeenInv' /\ \A j \in 1 .. Len(deliveries') : (NoneSkipped(j) /\ NoneRepeats(j))'
<1>1. \A k \in 1 .. Len(deliveries) : Delivery(k)' = Delivery(k)
  BY DEF FlowInv, FlowTypesInv, Delivery
<1>2. \A n \in 1 .. uuids : n \in 1 .. uuids'
  BY DEF FlowInv, FlowTypesInv
<1>3. SeenInv'
  BY <1>1, <1>2 DEF FlowInv, SeenInv
<1>4. Len(deliveries) \in Nat
  BY LenProperties DEF FlowInv, FlowTypesInv
<1>5. ASSUME NEW j \in 1 .. Len(deliveries) PROVE (NoneSkipped(j) /\ NoneRepeats(j))'
  <2>1. NoneSkipped(j) /\ NoneRepeats(j)
    BY DEF FlowInv
  <2>2. \A k \in 1 .. j - 1 : k \in 1 .. Len(deliveries)
    BY <1>4
  <2>3. NoneSkipped(j)'
    BY <1>1, <2>1, <2>2 DEF NoneSkipped
  <2>4. NoneRepeats(j)'
    BY <1>1, <2>1, <2>2 DEF NoneRepeats, Flow!SameTelling
  <2> QED
    BY <2>3, <2>4
<1> QED
  BY <1>3, <1>5

LEMMA StampStays ==
  ASSUME FlowInv, uuids' \in Nat, uuids <= uuids', UNCHANGED domainEvents, NEW m, Stamped(m)
  PROVE  Stamped(m)'
BY DEF FlowInv, FlowTypesInv, Stamped

(* A message made of another one keeps what it tells.                      *)
LEMMA Derived ==
  ASSUME FlowInv, uuids' \in Nat, uuids <= uuids', UNCHANGED domainEvents,
         NEW e \in All, NEW x, All' \subseteq All \cup {x},
         x.occasion = e.occasion,
         x.metadata.causationId = e.metadata.causationId,
         x.metadata.targetContext = e.metadata.targetContext,
         x.metadata.eventId \in {0, e.metadata.eventId},
         x.metadata.idempotencyKey \in {0, x.occasion}
  PROVE  IdsInv'
<1>1. \A m \in All : Stamped(m)
  BY DEF FlowInv, IdsInv
<1>2. Stamped(x)
  BY <1>1 DEF Stamped, FlowInv, FlowTypesInv
<1>3. \A m \in All' : Stamped(m)'
  BY <1>1, <1>2, StampStays
<1>4. \A m, n \in All :
        m.metadata.eventId = n.metadata.eventId /\ m.metadata.eventId # 0
          => m.occasion = n.occasion /\ m.metadata.targetContext = n.metadata.targetContext
  BY DEF FlowInv, IdsInv
<1>5. \A m \in All :
        m.metadata.eventId = x.metadata.eventId /\ m.metadata.eventId # 0
          => m.occasion = x.occasion /\ m.metadata.targetContext = x.metadata.targetContext
  BY <1>4
<1>6. \A m, n \in All \cup {x} :
        m.metadata.eventId = n.metadata.eventId /\ m.metadata.eventId # 0
          => m.occasion = n.occasion /\ m.metadata.targetContext = n.metadata.targetContext
  BY <1>4, <1>5
<1> QED
  BY <1>3, <1>6 DEF IdsInv

LEMMA Members ==
  ASSUME FlowTypesInv
  PROVE  /\ \A e \in Flow!Range(published) : e \in Events /\ e \in All
         /\ \A i \in DOMAIN outbox : i \in 1 .. Len(outbox) /\ outbox[i] \in Messages /\ outbox[i] \in All
         /\ \A e \in Flow!Range(domainEvents) :
              /\ e \in [type : FlowTypes, occasion : Nat, id : Nat]
              /\ e.occasion \in 1 .. Len(domainEvents) /\ e = domainEvents[e.occasion]
         /\ {Len(published), Len(outbox), Len(domainEvents), Len(deliveries)} \subseteq Nat
<1>1. /\ published \in Seq(Events) /\ outbox \in Seq(Messages)
      /\ domainEvents \in Seq([type : FlowTypes, occasion : Nat, id : Nat])
      /\ deliveries \in Seq([message : Nat, effect : BOOLEAN])
  BY DEF FlowTypesInv
<1> DEFINE E == [type : FlowTypes, occasion : Nat, id : Nat]
<1> HIDE DEF E
<1>2. domainEvents \in Seq(E)
  BY <1>1 DEF E
<1>3. /\ DOMAIN published = 1 .. Len(published) /\ DOMAIN outbox = 1 .. Len(outbox)
      /\ DOMAIN domainEvents = 1 .. Len(domainEvents)
      /\ {Len(published), Len(outbox), Len(domainEvents), Len(deliveries)} \subseteq Nat
  BY <1>1, LenProperties
<1>4. /\ \A i \in 1 .. Len(published) : published[i] \in Events
      /\ \A i \in 1 .. Len(outbox) : outbox[i] \in Messages
  BY <1>1, ElementOfSeq
<1>5. \A i \in 1 .. Len(domainEvents) : domainEvents[i] \in E
  BY <1>2, ElementOfSeq
<1>6. \A e \in Flow!Range(published) : e \in Events /\ e \in All
  BY <1>3, <1>4 DEF Flow!Range, All
<1>7. \A i \in DOMAIN outbox : i \in 1 .. Len(outbox) /\ outbox[i] \in Messages /\ outbox[i] \in All
  BY <1>3, <1>4 DEF All
<1>8. \A e \in Flow!Range(domainEvents) :
        e \in E /\ e.occasion \in 1 .. Len(domainEvents) /\ e = domainEvents[e.occasion]
  BY <1>3, <1>5 DEF Flow!Range, FlowTypesInv
<1> QED
  BY <1>3, <1>6, <1>7, <1>8 DEF E

LEMMA PutKeeps ==
  ASSUME FlowInv, NEW e \in Flow!Range(published), NEW md \in Metadata,
         md.causationId = e.metadata.causationId,
         md.targetContext = e.metadata.targetContext,
         md.eventId \in {0, e.metadata.eventId}, md.idempotencyKey \in {0, e.occasion},
         Flow!Put([messageType |-> <<"integration_event", e.type>>,
                   occasion |-> e.occasion, metadata |-> md])
  PROVE  FlowInv'
<1> DEFINE x == [messageType |-> <<"integration_event", e.type>>,
                 occasion |-> e.occasion, metadata |-> md]
<1>1. FlowTypesInv /\ e \in Events /\ e \in All /\ Len(outbox) \in Nat /\ outbox \in Seq(Messages)
  BY Members DEF FlowInv, FlowTypesInv
<1>2. /\ outbox' = Append(outbox, x)
      /\ UNCHANGED <<uuids, domainEvents, registry, published, seen, deliveries>>
  BY DEF Flow!Put
<1>3. x \in Messages /\ x.occasion = e.occasion /\ x.metadata = md
  BY <1>1 DEF Messages, Events
<1> HIDE DEF x
<1>4. /\ Append(outbox, x) \in Seq(Messages) /\ Len(Append(outbox, x)) = Len(outbox) + 1
      /\ \A i \in 1 .. Len(outbox) : Append(outbox, x)[i] = outbox[i]
      /\ Append(outbox, x)[Len(outbox) + 1] = x
  BY <1>1, <1>3, AppendProperties
<1>5. All' \subseteq All \cup {x}
  <2>1. \A i \in 1 .. Len(outbox) + 1 : i \in 1 .. Len(outbox) \/ i = Len(outbox) + 1
    BY <1>1
  <2> QED
    BY <1>2, <1>4, <2>1 DEF All
<1>6. uuids' \in Nat /\ uuids <= uuids'
  BY <1>1, <1>2 DEF FlowTypesInv
<1>7. IdsInv'
  BY <1>1, <1>2, <1>3, <1>5, <1>6, Derived
<1>8. FlowTypesInv'
  <2>1. \A k \in 1 .. Len(deliveries) : deliveries[k].message \in 1 .. Len(outbox) + 1
    BY <1>1 DEF FlowTypesInv
  <2> QED
    BY <1>1, <1>2, <1>4, <2>1 DEF FlowTypesInv
<1>9. SeenInv' /\ \A j \in 1 .. Len(deliveries') : (NoneSkipped(j) /\ NoneRepeats(j))'
  BY <1>2, <1>4, <1>6, DeliveriesStay
<1> QED
  BY <1>7, <1>8, <1>9 DEF FlowInv


LEMMA RaiseKeeps ==
  ASSUME FlowInv, NEW type \in FlowTypes, NEW withId \in BOOLEAN, Flow!Raise(type, withId)
  PROVE  FlowInv'
<1> DEFINE E == [type : FlowTypes, occasion : Nat, id : Nat]
           n == Len(domainEvents)
           x == [type |-> type, occasion |-> n + 1, id |-> IF withId THEN uuids' ELSE 0]
<1>1. /\ uuids' = uuids + 1 /\ domainEvents' = Append(domainEvents, x)
      /\ UNCHANGED <<registry, published, outbox, seen, deliveries>>
  BY DEF Flow!Raise, Flow!Absent
<1>2. FlowTypesInv /\ domainEvents \in Seq(E) /\ n \in Nat /\ uuids \in Nat
  BY Members DEF FlowInv, FlowTypesInv
<1>3. x \in E /\ x.occasion = n + 1
  BY <1>1, <1>2
<1> HIDE DEF E, x
<1>4. /\ Append(domainEvents, x) \in Seq(E) /\ Len(Append(domainEvents, x)) = n + 1
      /\ \A i \in 1 .. n : Append(domainEvents, x)[i] = domainEvents[i]
      /\ Append(domainEvents, x)[n + 1] = x
  BY <1>2, <1>3, AppendProperties
<1> HIDE DEF n
<1>5. \A i \in 1 .. n + 1 : i \in 1 .. n \/ i = n + 1
  BY <1>2
<1>6. FlowTypesInv'
  <2>1. \A i \in 1 .. n + 1 : domainEvents'[i].occasion = i
    BY <1>1, <1>2, <1>3, <1>4, <1>5 DEF FlowTypesInv, n
  <2>2. domainEvents' \in Seq([type : FlowTypes, occasion : Nat, id : Nat])
        /\ Len(domainEvents') = n + 1
    BY <1>1, <1>4 DEF E
  <2>3. uuids' \in Nat
    BY <1>1, <1>2
  <2> QED
    BY <1>1, <1>2, <2>1, <2>2, <2>3 DEF FlowTypesInv
<1>7. \A m \in All : Stamped(m)'
  <2> SUFFICES ASSUME NEW m \in All PROVE Stamped(m)'
    OBVIOUS
  <2>1. Stamped(m)
    BY DEF FlowInv, IdsInv
  <2>2. m.occasion \in 1 .. n + 1 /\ domainEvents'[m.occasion] = domainEvents[m.occasion]
    BY <1>1, <1>2, <1>4, <2>1 DEF Stamped, n
  <2>3. m.metadata.eventId \in 0 .. uuids + 1
    BY <1>2, <2>1 DEF Stamped
  <2> QED
    BY <1>1, <1>4, <2>1, <2>2, <2>3 DEF Stamped
<1>8. IdsInv'
  <2>1. All' = All
    BY <1>1 DEF All
  <2> QED
    BY <1>7, <2>1 DEF FlowInv, IdsInv
<1>9. SeenInv' /\ \A j \in 1 .. Len(deliveries') : (NoneSkipped(j) /\ NoneRepeats(j))'
  <2>1. uuids' \in Nat /\ uuids <= uuids' /\ outbox' = outbox /\ UNCHANGED <<seen, deliveries>>
    BY <1>1, <1>2
  <2> QED
    BY <2>1, DeliveriesStay
<1> QED
  BY <1>6, <1>8, <1>9 DEF FlowInv

LEMMA SetKeeps ==
  ASSUME FlowInv, NEW now \in [FlowTypes -> SUBSET Transformers],
         \A type \in FlowTypes : Cardinality(now[type]) <= 1, Flow!SetTransformers(now)
  PROVE  FlowInv'
<1>1. /\ registry' = now
      /\ UNCHANGED <<uuids, domainEvents, published, outbox, seen, deliveries>>
  BY DEF Flow!SetTransformers
<1>2. FlowTypesInv'
  BY <1>1 DEF FlowInv, FlowTypesInv
<1>3. IdsInv'
  BY <1>1 DEF FlowInv, IdsInv, All, Stamped
<1>4. uuids' \in Nat /\ uuids <= uuids'
  BY <1>1 DEF FlowInv, FlowTypesInv
<1> QED
  BY <1>1, <1>2, <1>3, <1>4, DeliveriesStay DEF FlowInv

LEMMA TransformKeeps ==
  ASSUME FlowInv, NEW event \in Flow!Range(domainEvents), NEW keyed \in BOOLEAN,
         Flow!Transform(event, keyed)
  PROVE  FlowInv'
<1>1. PICK t \in registry[event.type] :
        /\ published' = published \o [i \in DOMAIN t.to |->
             [type |-> t.type, occasion |-> event.occasion,
              metadata |-> Flow!Metadata(event, uuids + i, t.to[i],
                                         IF keyed THEN event.occasion ELSE 0)]]
        /\ uuids' = uuids + Len(t.to)
        /\ UNCHANGED <<domainEvents, registry, outbox, seen, deliveries>>
  BY DEF Flow!Transform, Flow!Absent
<1>2. /\ FlowTypesInv /\ uuids \in Nat /\ published \in Seq(Events)
      /\ event \in [type : FlowTypes, occasion : Nat, id : Nat]
      /\ event.occasion \in 1 .. Len(domainEvents) /\ event = domainEvents[event.occasion]
      /\ Len(published) \in Nat
  BY Members DEF FlowInv, FlowTypesInv
<1>3. t \in Transformers
  BY <1>2 DEF FlowTypesInv
<1>4. t.to \in Seq(Flow!Places)
  <2>1. t.to = <<"everyone">> \/ t.to \in Seq(FlowContexts)
    BY <1>3, ConfigurationAssumption DEF Flow!FlowAssumption, Flow!Everyone
  <2>2. CASE t.to = <<"everyone">>
    <3>1. "everyone" \in Flow!Places
      BY DEF Flow!Places
    <3> QED
      BY <2>2, <3>1
  <2>3. CASE t.to \in Seq(FlowContexts)
    <3>1. FlowContexts \subseteq Flow!Places
      BY DEF Flow!Places
    <3> QED
      BY <2>3, <3>1, SeqMonotonic
  <2> QED
    BY <2>1, <2>2, <2>3
<1>5. PICK n \in Nat : n = Len(t.to)
  BY <1>4, LenProperties
<1>6. DOMAIN t.to = 1 .. n /\ \A i \in 1 .. n : t.to[i] \in Flow!Places
  BY <1>4, <1>5, LenProperties, ElementOfSeq
<1> DEFINE key == IF keyed THEN event.occasion ELSE 0
           x(i) == [type |-> t.type, occasion |-> event.occasion,
                    metadata |-> [eventId |-> uuids + i, causationId |-> event.id,
                                  targetContext |-> t.to[i], idempotencyKey |-> key]]
           new == [i \in 1 .. n |-> x(i)]
<1>7. \A i \in 1 .. n : x(i) \in Events
  <2>1. t.type \in Types
    BY <1>3 DEF Types
  <2>2. key \in Nat /\ event.id \in Nat /\ event.occasion \in Nat
    BY <1>2
  <2> HIDE DEF key
  <2> QED
    BY <1>2, <1>6, <2>1, <2>2 DEF Events, Metadata
<1>8. /\ published' = published \o new /\ uuids' = uuids + n
  BY <1>1, <1>5, <1>6 DEF Flow!Metadata
<1>9. \A i \in 1 .. n : /\ x(i).occasion = event.occasion
                        /\ x(i).metadata.eventId = uuids + i
                        /\ x(i).metadata.causationId = event.id
                        /\ x(i).metadata.targetContext = t.to[i]
                        /\ x(i).metadata.idempotencyKey \in {0, event.occasion}
  OBVIOUS
<1> HIDE DEF x
<1>10. new \in Seq(Events) /\ Len(new) = n /\ \A i \in 1 .. n : new[i] = x(i)
  <2>1. new \in [1 .. n -> Events]
    BY <1>7
  <2>2. new \in Seq(Events)
    BY <2>1, SeqDef
  <2>3. DOMAIN new = 1 .. n /\ DOMAIN new = 1 .. Len(new) /\ Len(new) \in Nat
    BY <2>2, LenProperties
  <2> QED
    BY <1>5, <2>2, <2>3
<1> HIDE DEF new
<1>11. /\ published \o new \in Seq(Events) /\ Len(published \o new) = Len(published) + n
       /\ \A i \in 1 .. Len(published) + n : (published \o new)[i] =
            IF i <= Len(published) THEN published[i] ELSE new[i - Len(published)]
  BY <1>2, <1>10, ConcatProperties
<1>12. \A m \in All' : m \in All \/ \E i \in 1 .. n : m = x(i)
  <2> DEFINE P == published \o new
  <2>0. published' = P /\ Len(P) = Len(published) + n /\ outbox' = outbox
    BY <1>1, <1>8, <1>11
  <2>1. All' = {P[i] : i \in 1 .. Len(published) + n} \cup {outbox[i] : i \in 1 .. Len(outbox)}
    <3> HIDE DEF P
    <3> QED
      BY <2>0 DEF All
  <2>2. ASSUME NEW i \in 1 .. Len(published) + n
        PROVE  P[i] \in All \/ \E j \in 1 .. n : P[i] = x(j)
    <3>1. CASE i <= Len(published)
      BY <1>2, <1>11, <3>1 DEF All
    <3>2. CASE ~(i <= Len(published))
      <4>1. i - Len(published) \in 1 .. n
        BY <1>2, <3>2
      <4> QED
        BY <1>10, <1>11, <3>2, <4>1
    <3> QED
      BY <3>1, <3>2
  <2>3. \A i \in 1 .. Len(outbox) : outbox[i] \in All
    BY DEF All
  <2> HIDE DEF P
  <2> QED
    BY <2>1, <2>2, <2>3
<1>13. uuids' \in Nat /\ uuids <= uuids' /\ UNCHANGED domainEvents
  BY <1>1, <1>2, <1>8
<1>14. \A m \in All : m.metadata.eventId \in 0 .. uuids
  BY DEF FlowInv, IdsInv, Stamped
<1>15. IdsInv'
  <2>1. ASSUME NEW i \in 1 .. n, NEW m, m = x(i)
        PROVE  Stamped(m)'
    <3>1. uuids + i \in 0 .. uuids'
      BY <1>2, <1>8
    <3> QED
      BY <1>1, <1>2, <1>9, <2>1, <3>1 DEF Stamped
  <2>2. \A m \in All : Stamped(m)'
    BY <1>13, StampStays DEF FlowInv, IdsInv
  <2>3. ASSUME NEW m \in All', NEW k \in All', m.metadata.eventId = k.metadata.eventId,
               m.metadata.eventId # 0
        PROVE  m.occasion = k.occasion /\ m.metadata.targetContext = k.metadata.targetContext
    <3>1. CASE m \in All /\ k \in All
      BY <2>3, <3>1 DEF FlowInv, IdsInv
    <3>2. \A i \in 1 .. n : \A y \in All : y.metadata.eventId # x(i).metadata.eventId
      BY <1>2, <1>9, <1>14
    <3>3. \A i, j \in 1 .. n : x(i).metadata.eventId = x(j).metadata.eventId => i = j
      BY <1>2, <1>9
    <3> QED
      BY <1>12, <2>3, <3>1, <3>2, <3>3
  <2>4. \A m \in All' : Stamped(m)'
    BY <1>12, <2>1, <2>2
  <2> QED
    BY <2>3, <2>4 DEF IdsInv
<1>16. FlowTypesInv'
  BY <1>1, <1>2, <1>8, <1>11, <1>13 DEF FlowTypesInv
<1>17. SeenInv' /\ \A j \in 1 .. Len(deliveries') : (NoneSkipped(j) /\ NoneRepeats(j))'
  BY <1>1, <1>13, DeliveriesStay
<1> QED
  BY <1>15, <1>16, <1>17 DEF FlowInv

LEMMA CopyKeeps ==
  ASSUME FlowInv, NEW event \in Flow!Range(published), Flow!Copy(event)
  PROVE  FlowInv'
<1>1. /\ uuids' = uuids + 1 /\ published' = Append(published, event)
      /\ UNCHANGED <<domainEvents, registry, outbox, seen, deliveries>>
  BY DEF Flow!Copy
<1>2. /\ FlowTypesInv /\ event \in Events /\ event \in All /\ uuids \in Nat
      /\ Len(published) \in Nat /\ published \in Seq(Events)
  BY Members DEF FlowInv, FlowTypesInv
<1>3. /\ Append(published, event) \in Seq(Events)
      /\ Len(Append(published, event)) = Len(published) + 1
      /\ \A i \in 1 .. Len(published) : Append(published, event)[i] = published[i]
      /\ Append(published, event)[Len(published) + 1] = event
  BY <1>2, AppendProperties
<1>4. uuids' \in Nat /\ uuids <= uuids'
  BY <1>1, <1>2
<1>5. All' \subseteq All \cup {event}
  <2>1. \A i \in 1 .. Len(published) + 1 : i \in 1 .. Len(published) \/ i = Len(published) + 1
    BY <1>2
  <2> QED
    BY <1>1, <1>3, <2>1 DEF All
<1>6. IdsInv'
  <2>1. event.metadata.idempotencyKey \in {0, event.occasion}
    BY <1>2 DEF FlowInv, IdsInv, Stamped
  <2> QED
    BY <1>1, <1>2, <1>4, <1>5, <2>1, Derived
<1>7. FlowTypesInv'
  BY <1>1, <1>2, <1>3, <1>4 DEF FlowTypesInv
<1> QED
  BY <1>1, <1>4, <1>6, <1>7, DeliveriesStay DEF FlowInv

LEMMA PutsKeep ==
  ASSUME FlowInv, NEW event \in Flow!Range(published),
         Flow!CreateMessage(event) \/ \E keyed \in BOOLEAN : Flow!CreateFromIntegrationEvent(event, keyed)
  PROVE  FlowInv'
<1>1. event \in Events /\ event \in All
  BY Members DEF FlowInv
<1> DEFINE old == event.metadata
<1>2. old \in Metadata /\ event.occasion \in Nat /\ old.idempotencyKey \in {0, event.occasion}
  BY <1>1 DEF Events, FlowInv, IdsInv, Stamped
<1> HIDE DEF old
<1>3. CASE Flow!CreateMessage(event)
  <2> DEFINE md == [old EXCEPT !.eventId = 0, !.idempotencyKey = 0]
  <2>1. /\ md \in Metadata /\ md.causationId = old.causationId
        /\ md.targetContext = old.targetContext /\ md.eventId = 0 /\ md.idempotencyKey = 0
    BY <1>2 DEF Metadata
  <2>2. Flow!Put([messageType |-> <<"integration_event", event.type>>,
                  occasion |-> event.occasion, metadata |-> md])
    BY <1>3 DEF Flow!CreateMessage, Flow!Absent, old
  <2> HIDE DEF md
  <2> QED
    BY <2>1, <2>2, PutKeeps DEF old
<1>4. ASSUME NEW keyed \in BOOLEAN, Flow!CreateFromIntegrationEvent(event, keyed)
      PROVE  FlowInv'
  <2> DEFINE md == IF keyed THEN [old EXCEPT !.idempotencyKey = event.occasion] ELSE old
  <2>1. /\ md \in Metadata /\ md.causationId = old.causationId
        /\ md.targetContext = old.targetContext /\ md.eventId = old.eventId
        /\ md.idempotencyKey \in {0, event.occasion}
    BY <1>2 DEF Metadata
  <2>2. Flow!Put([messageType |-> <<"integration_event", event.type>>,
                  occasion |-> event.occasion, metadata |-> md])
    BY <1>4 DEF Flow!CreateFromIntegrationEvent, old
  <2> HIDE DEF md
  <2> QED
    BY <2>1, <2>2, PutKeeps DEF old
<1> QED
  BY <1>3, <1>4

LEMMA DeliverKeeps ==
  ASSUME FlowInv, NEW i \in DOMAIN outbox, Flow!Deliver(i)
  PROVE  FlowInv'
<1>1. PICK m : m = outbox[i]
  OBVIOUS
<1>2. PICK n : n = Len(deliveries)
  OBVIOUS
<1>3. PICK place : place = m.metadata.targetContext
  OBVIOUS
<1>4. PICK key : key = IF Keyed(m) THEN KeyOf(m) ELSE <<"random", uuids + 1>>
  OBVIOUS
<1>5. PICK fresh \in BOOLEAN : fresh = (key \notin seen[place])
  OBVIOUS
<1>6. /\ FlowTypesInv /\ i \in 1 .. Len(outbox) /\ m \in Messages /\ m \in All
      /\ n \in Nat /\ uuids \in Nat /\ i \in Nat
      /\ deliveries \in Seq([message : Nat, effect : BOOLEAN])
  BY <1>1, <1>2, Members DEF FlowInv, FlowTypesInv
<1>7. place \in Flow!Places
  BY <1>3, <1>6 DEF Messages, Metadata
<1>8. Flow!GenerateIdempotencyKey(m) = key
  <2>1. CASE m.metadata.idempotencyKey # 0
    BY <1>4, <2>1 DEF Flow!GenerateIdempotencyKey, Flow!Absent, Keyed, KeyOf
  <2>2. CASE m.metadata.idempotencyKey = 0 /\ m.metadata.eventId # 0
    BY <1>4, <2>2 DEF Flow!GenerateIdempotencyKey, Flow!Absent, Keyed, KeyOf
  <2>3. CASE m.metadata.idempotencyKey = 0 /\ m.metadata.eventId = 0
    BY <1>4, <2>3 DEF Flow!GenerateIdempotencyKey, Flow!Absent, Keyed
  <2> QED
    BY <2>1, <2>2, <2>3
<1>9. key[1] = "random" <=> ~Keyed(m)
  BY <1>4 DEF KeyOf
<1>10. /\ seen' = [seen EXCEPT ![place] = @ \cup {key}]
       /\ deliveries' = Append(deliveries, [message |-> i, effect |-> fresh])
       /\ uuids' = IF Keyed(m) THEN uuids ELSE uuids + 1
       /\ UNCHANGED <<domainEvents, registry, published, outbox>>
  BY <1>1, <1>3, <1>5, <1>8, <1>9 DEF Flow!Deliver
<1>11. /\ deliveries' \in Seq([message : Nat, effect : BOOLEAN]) /\ Len(deliveries') = n + 1
       /\ \A k \in 1 .. n : deliveries'[k] = deliveries[k]
       /\ deliveries'[n + 1] = [message |-> i, effect |-> fresh]
  <2> DEFINE D == [message : Nat, effect : BOOLEAN]
             d == [message |-> i, effect |-> fresh]
  <2>1. d \in D /\ deliveries \in Seq(D)
    BY <1>6
  <2> HIDE DEF D, d
  <2>2. deliveries' = Append(deliveries, d)
    BY <1>10 DEF d
  <2>3. /\ deliveries' \in Seq(D) /\ Len(deliveries') = n + 1
        /\ \A k \in 1 .. n : deliveries'[k] = deliveries[k]
        /\ deliveries'[n + 1] = d
    BY <1>2, <2>1, <2>2, AppendProperties
  <2> QED
    BY <2>3 DEF D, d
<1>12. \A k \in 1 .. n : Delivery(k)' = Delivery(k)
  BY <1>10, <1>11 DEF Delivery
<1>13. Delivery(n + 1)' = m
  BY <1>1, <1>10, <1>11 DEF Delivery
<1>14. \A k \in 1 .. n + 1 : k \in 1 .. n \/ k = n + 1
  BY <1>6
<1>15. uuids' \in Nat /\ uuids <= uuids'
  BY <1>6, <1>10
<1>16. /\ seen' = [p \in Flow!Places |-> seen'[p]]
       /\ \A p \in Flow!Places : seen'[p] = IF p = place THEN seen[p] \cup {key} ELSE seen[p]
  <2>1. seen = [p \in Flow!Places |-> seen[p]]
    BY <1>6 DEF FlowTypesInv
  <2>2. DOMAIN seen = Flow!Places
    BY <2>1
  <2>3. seen' = [p \in Flow!Places |-> IF p = place THEN seen[p] \cup {key} ELSE seen[p]]
    BY <1>7, <1>10, <2>2
  <2> QED
    BY <2>3
<1>17. \A k \in 1 .. n : Delivery(k) \in All /\ Delivery(k).metadata.targetContext \in Flow!Places
  <2>1. \A k \in 1 .. n : deliveries[k].message \in 1 .. Len(outbox)
    BY <1>2, <1>6 DEF FlowTypesInv
  <2>2. \A k \in 1 .. Len(outbox) : outbox[k] \in Messages /\ outbox[k] \in All
    BY <1>6, ElementOfSeq DEF FlowTypesInv, All
  <2> QED
    BY <2>1, <2>2 DEF Delivery, Messages, Metadata
<1>18. IdsInv'
  <2>1. All' = All
    BY <1>10 DEF All
  <2>2. ASSUME NEW x \in All PROVE Stamped(x)'
    BY <1>10, <1>15, StampStays DEF FlowInv, IdsInv
  <2> QED
    BY <2>1, <2>2 DEF FlowInv, IdsInv
<1>19. FlowTypesInv'
  <2>1. \A k \in 1 .. n : deliveries'[k].message \in 1 .. Len(outbox')
    BY <1>2, <1>6, <1>10, <1>11 DEF FlowTypesInv
  <2>2. deliveries'[n + 1].message \in 1 .. Len(outbox')
    BY <1>6, <1>10, <1>11
  <2>3. \A k \in 1 .. Len(deliveries') : deliveries'[k].message \in 1 .. Len(outbox')
    BY <1>11, <1>14, <2>1, <2>2
  <2> QED
    BY <1>6, <1>10, <1>11, <1>15, <1>16, <2>3 DEF FlowTypesInv
<1>20. SeenInv'
  <2>1. ASSUME NEW k \in 1 .. n + 1, Keyed(Delivery(k)')
        PROVE  KeyOf(Delivery(k)') \in seen'[Delivery(k)'.metadata.targetContext]
    <3>1. CASE k \in 1 .. n
      <4>1. KeyOf(Delivery(k)) \in seen[Delivery(k).metadata.targetContext]
        BY <1>2, <1>12, <2>1, <3>1 DEF FlowInv, SeenInv
      <4> QED
        BY <1>12, <1>16, <1>17, <3>1, <4>1
    <3>2. CASE k = n + 1
      BY <1>3, <1>4, <1>7, <1>13, <1>16, <2>1, <3>2
    <3> QED
      BY <1>14, <3>1, <3>2
  <2>2. ASSUME NEW p \in Flow!Places, NEW old \in seen'[p]
        PROVE  \/ \E r \in 1 .. uuids' : old = <<"random", r>>
               \/ \E k \in 1 .. n + 1 :
                    /\ deliveries'[k].effect /\ Keyed(Delivery(k)')
                    /\ Delivery(k)'.metadata.targetContext = p /\ KeyOf(Delivery(k)') = old
    <3>1. CASE old \in seen[p]
      <4>1. \/ \E r \in 1 .. uuids : old = <<"random", r>>
            \/ \E k \in 1 .. n :
                 /\ deliveries[k].effect /\ Keyed(Delivery(k))
                 /\ Delivery(k).metadata.targetContext = p /\ KeyOf(Delivery(k)) = old
        BY <1>2, <3>1 DEF FlowInv, SeenInv
      <4>2. CASE \E r \in 1 .. uuids : old = <<"random", r>>
        BY <1>6, <1>15, <4>2
      <4>3. ASSUME NEW k \in 1 .. n,
                   deliveries[k].effect /\ Keyed(Delivery(k)),
                   Delivery(k).metadata.targetContext = p /\ KeyOf(Delivery(k)) = old
            PROVE  \E l \in 1 .. n + 1 :
                     /\ deliveries'[l].effect /\ Keyed(Delivery(l)')
                     /\ Delivery(l)'.metadata.targetContext = p /\ KeyOf(Delivery(l)') = old
        <5>1. k \in 1 .. n + 1
          BY <1>6
        <5>2. deliveries'[k] = deliveries[k] /\ Delivery(k)' = Delivery(k)
          BY <1>11, <1>12
        <5> QED
          BY <4>3, <5>1, <5>2
      <4> QED
        BY <4>1, <4>2, <4>3
    <3>2. CASE old \notin seen[p]
      <4>1. p = place /\ old = key
        BY <1>16, <3>2
      <4>2. fresh
        BY <1>5, <3>2, <4>1
      <4>3. CASE Keyed(m)
        <5>1. n + 1 \in 1 .. n + 1
          BY <1>6
        <5>2. deliveries'[n + 1].effect
          BY <1>11, <4>2
        <5> QED
          BY <1>3, <1>4, <1>13, <4>1, <4>3, <5>1, <5>2
      <4>4. CASE ~Keyed(m)
        BY <1>4, <1>6, <1>10, <4>1, <4>4
      <4> QED
        BY <4>3, <4>4
    <3> QED
      BY <3>1, <3>2
  <2> QED
    BY <1>11, <2>1, <2>2 DEF SeenInv, Keyed, KeyOf
<1>21. ASSUME NEW j \in 1 .. n PROVE (NoneSkipped(j) /\ NoneRepeats(j))'
  <2>1. NoneSkipped(j) /\ NoneRepeats(j)
    BY <1>2 DEF FlowInv
  <2>2. \A k \in 1 .. j - 1 : k \in 1 .. n
    BY <1>6
  <2>3. NoneSkipped(j)'
    BY <1>11, <1>12, <2>1, <2>2 DEF NoneSkipped
  <2>4. NoneRepeats(j)'
    BY <1>11, <1>12, <2>1, <2>2 DEF NoneRepeats, Flow!SameTelling
  <2> QED
    BY <2>3, <2>4
<1>22. NoneSkipped(n + 1)'
  <2> SUFFICES ASSUME ~fresh
               PROVE  \E k \in 1 .. n : /\ deliveries[k].effect
                                        /\ Delivery(k).occasion = m.occasion
                                        /\ Delivery(k).metadata.targetContext = place
    <3>1. (n + 1) - 1 = n
      BY <1>6
    <3> QED
      BY <1>3, <1>11, <1>12, <1>13, <3>1 DEF NoneSkipped
  <2>1. \/ \E r \in 1 .. uuids : key = <<"random", r>>
        \/ \E k \in 1 .. n :
             /\ deliveries[k].effect /\ Keyed(Delivery(k))
             /\ Delivery(k).metadata.targetContext = place /\ KeyOf(Delivery(k)) = key
    BY <1>2, <1>5, <1>7 DEF FlowInv, SeenInv
  <2>2. Keyed(m)
    <3> SUFFICES ASSUME key = <<"random", uuids + 1>> PROVE FALSE
      BY <1>4
    <3>1. ~\E r \in 1 .. uuids : key = <<"random", r>>
      BY <1>6
    <3> QED
      BY <2>1, <3>1, KeysDiffer
  <2>3. ~\E r \in 1 .. uuids : key = <<"random", r>>
    BY <1>4, <2>2, KeysDiffer
  <2> QED
    BY <1>4, <1>6, <1>17, <2>1, <2>2, <2>3, KeysTell DEF FlowInv
<1>23. NoneRepeats(n + 1)'
  <2> SUFFICES ASSUME fresh, NEW k \in 1 .. n, Delivery(k).messageType = m.messageType
               PROVE  ~Flow!SameTelling(m, Delivery(k))
    <3>1. (n + 1) - 1 = n
      BY <1>6
    <3> QED
      BY <1>11, <1>12, <1>13, <3>1 DEF NoneRepeats, Flow!SameTelling
  <2> SUFFICES ASSUME Flow!SameTelling(m, Delivery(k)) PROVE FALSE
    OBVIOUS
  <2>1. /\ Keyed(m) /\ Keyed(Delivery(k)) /\ KeyOf(m) = KeyOf(Delivery(k))
        /\ m.metadata.targetContext = Delivery(k).metadata.targetContext
    BY <1>6, <1>17, SameTellingSameKey DEF FlowInv
  <2>2. KeyOf(Delivery(k)) \in seen[Delivery(k).metadata.targetContext]
    BY <1>2, <2>1 DEF FlowInv, SeenInv
  <2> QED
    BY <1>3, <1>4, <1>5, <2>1, <2>2
<1> QED
  BY <1>11, <1>14, <1>18, <1>19, <1>20, <1>21, <1>22, <1>23 DEF FlowInv

LEMMA FlowInit ==
  ASSUME Flow!Init
  PROVE  FlowInv
<1>1. /\ uuids = 0 /\ domainEvents = <<>> /\ published = <<>> /\ outbox = <<>> /\ deliveries = <<>>
      /\ registry = [t \in FlowTypes |-> {}] /\ seen = [p \in Flow!Places |-> {}]
  BY DEF Flow!Init
<1>2. FlowTypesInv
  <2>1. \A type \in FlowTypes : registry[type] = {}
    BY <1>1
  <2>2. Cardinality({}) <= 1
    BY FS_EmptySet
  <2>3. \A S : <<>> \in Seq(S)
    BY EmptySeq
  <2>4. Len(<<>>) = 0
    BY EmptySeq
  <2>5. domainEvents \in Seq([type : FlowTypes, occasion : Nat, id : Nat])
        /\ published \in Seq(Events) /\ outbox \in Seq(Messages)
        /\ deliveries \in Seq([message : Nat, effect : BOOLEAN])
    BY <1>1, <2>3
  <2>6. registry \in [FlowTypes -> SUBSET Transformers]
        /\ seen = [p \in Flow!Places |-> seen[p]] /\ uuids \in Nat
    BY <1>1
  <2>7. \A type \in FlowTypes : Cardinality(registry[type]) <= 1
    BY <2>1, <2>2
  <2> QED
    BY <1>1, <2>4, <2>5, <2>6, <2>7 DEF FlowTypesInv
<1>3. Len(<<>>) = 0
  BY EmptySeq
<1>4. All = {}
  BY <1>1, <1>3 DEF All
<1> QED
  BY <1>1, <1>2, <1>3, <1>4 DEF FlowInv, IdsInv, SeenInv

LEMMA FlowStep ==
  ASSUME FlowInv, [Flow!Next]_flow
  PROVE  FlowInv'
<1>1. ASSUME NEW type \in FlowTypes, NEW withId \in BOOLEAN, Flow!Raise(type, withId)
      PROVE  FlowInv'
  BY <1>1, RaiseKeeps
<1>2. ASSUME NEW type \in FlowTypes, NEW t \in Transformers, Flow!RegisterTransformer(type, t)
      PROVE  FlowInv'
  <2> DEFINE now == [registry EXCEPT ![type] = {t}]
  <2>1. registry \in [FlowTypes -> SUBSET Transformers]
        /\ \A u \in FlowTypes : Cardinality(registry[u]) <= 1
    BY DEF FlowInv, FlowTypesInv
  <2>2. Cardinality({t}) = 1
    BY FS_Singleton
  <2>3. now \in [FlowTypes -> SUBSET Transformers]
    BY <2>1
  <2>4. \A u \in FlowTypes : now[u] = IF u = type THEN {t} ELSE registry[u]
    BY <2>1
  <2>5. Flow!SetTransformers(now)
    BY <1>2 DEF Flow!RegisterTransformer
  <2> HIDE DEF now
  <2>6. \A u \in FlowTypes : Cardinality(now[u]) <= 1
    BY <2>1, <2>2, <2>4
  <2> QED
    BY <2>3, <2>5, <2>6, SetKeeps
<1>3. CASE Flow!ClearTransformers
  <2> DEFINE now == [type \in FlowTypes |-> {}]
  <2>1. now \in [FlowTypes -> SUBSET Transformers] /\ \A u \in FlowTypes : now[u] = {}
    OBVIOUS
  <2>2. Cardinality({}) <= 1
    BY FS_EmptySet
  <2>3. Flow!SetTransformers(now)
    BY <1>3 DEF Flow!ClearTransformers
  <2> HIDE DEF now
  <2> QED
    BY <2>1, <2>2, <2>3, SetKeeps
<1>4. ASSUME NEW event \in Flow!Range(domainEvents), NEW keyed \in BOOLEAN,
             Flow!Transform(event, keyed)
      PROVE  FlowInv'
  BY <1>4, TransformKeeps
<1>5. ASSUME NEW event \in Flow!Range(published), Flow!Copy(event)
      PROVE  FlowInv'
  BY <1>5, CopyKeeps
<1>6. ASSUME NEW event \in Flow!Range(published),
             Flow!CreateMessage(event)
               \/ \E keyed \in BOOLEAN : Flow!CreateFromIntegrationEvent(event, keyed)
      PROVE  FlowInv'
  BY <1>6, PutsKeep
<1>7. ASSUME UNCHANGED <<uuids, domainEvents, registry, published, outbox, seen, deliveries>>
      PROVE  FlowInv'
  <2>1. FlowTypesInv'
    BY <1>7 DEF FlowInv, FlowTypesInv
  <2>2. IdsInv'
    <3>1. All' = All
      BY <1>7 DEF All
    <3>2. ASSUME NEW m \in All PROVE Stamped(m)'
      BY <1>7 DEF FlowInv, IdsInv, Stamped
    <3> QED
      BY <3>1, <3>2 DEF FlowInv, IdsInv
  <2>3. uuids' \in Nat /\ uuids <= uuids'
    BY <1>7 DEF FlowInv, FlowTypesInv
  <2> QED
    BY <1>7, <2>1, <2>2, <2>3, DeliveriesStay DEF FlowInv
<1>8. ASSUME NEW c, Flow!RegisterHandler(c)
      PROVE  FlowInv'
  BY <1>7, <1>8 DEF Flow!RegisterHandler
<1>9. ASSUME NEW i \in DOMAIN outbox, Flow!Deliver(i)
      PROVE  FlowInv'
  BY <1>9, DeliverKeeps
<1>10. CASE UNCHANGED flow
  BY <1>7, <1>10 DEF flow
<1> QED
  BY <1>1, <1>2, <1>3, <1>4, <1>5, <1>6, <1>8, <1>9, <1>10 DEF Flow!Next

LEMMA FlowTakesOnce ==
  ASSUME FlowInv
  PROVE  Flow!TypeOK /\ Flow!NothingSkipped /\ Flow!RepeatsHaveNoEffect
<1>1. /\ FlowTypesInv /\ DOMAIN deliveries = 1 .. Len(deliveries)
      /\ DOMAIN outbox = 1 .. Len(outbox) /\ DOMAIN published = 1 .. Len(published)
  BY LenProperties DEF FlowInv, FlowTypesInv
<1>2. Flow!TypeOK
  <2>1. \A type \in FlowTypes :
          registry[type] \subseteq Transformers /\ Flow!Cardinality(registry[type]) <= 1
    <3>1. \A S : Flow!Cardinality(S) = Cardinality(S)
      BY DEF Flow!Cardinality, Cardinality
    <3> QED
      BY <1>1, <3>1 DEF FlowTypesInv
  <2>2. ASSUME NEW m \in Flow!Range(published) \cup Flow!Range(outbox)
        PROVE  /\ m.occasion \in 1 .. Len(domainEvents) /\ m.metadata.targetContext \in Flow!Places
               /\ m.metadata.causationId = domainEvents[m.occasion].id
    <3>1. (m \in Events \/ m \in Messages) /\ m \in All
      BY <1>1, Members DEF Flow!Range
    <3>2. Stamped(m)
      BY <3>1 DEF FlowInv, IdsInv
    <3>3. m.metadata.targetContext \in Flow!Places
      BY <3>1 DEF Events, Messages, Metadata
    <3> QED
      BY <3>2, <3>3 DEF Stamped
  <2>3. \A d \in Flow!Range(deliveries) : d.message \in DOMAIN outbox
    BY <1>1 DEF FlowTypesInv, Flow!Range
  <2> QED
    BY <2>1, <2>2, <2>3 DEF Flow!TypeOK
<1>3. \A j \in DOMAIN deliveries : NoneSkipped(j) /\ NoneRepeats(j)
  BY <1>1 DEF FlowInv
<1>4. Flow!NothingSkipped
  BY <1>3 DEF Flow!NothingSkipped, Flow!Told, NoneSkipped, Delivery
<1>5. Flow!RepeatsHaveNoEffect
  BY <1>3 DEF Flow!RepeatsHaveNoEffect, NoneRepeats, Delivery
<1> QED
  BY <1>2, <1>4, <1>5

(* However many events are raised, transformed, copied and put into the    *)
(* outbox, and however often and in whatever order their messages are      *)
(* delivered: a context that skips the keys it has seen skips nothing that *)
(* it was not told, and telling it again has no effect unless the event    *)
(* was transformed again (generateIdempotencyKey).                         *)
THEOREM ConsumersTakeOnce == MCSpec => []ConsumersTakeEachOnce
<1> DEFINE Inv == part = "flow" => FlowInv
<1>1. MCInit => Inv
  BY FlowInit DEF MCInit
<1>2. Inv /\ [MCNext]_mcvars => Inv'
  <2> SUFFICES ASSUME part = "flow", FlowInv, [MCNext]_mcvars
               PROVE  FlowInv'
    BY DEF MCNext, mcvars
  <2>1. [Flow!Next]_flow
    BY DEF MCNext, mcvars
  <2> QED
    BY <2>1, FlowStep
<1>3. Inv => ConsumersTakeEachOnce
  BY FlowTakesOnce DEF ConsumersTakeEachOnce
<1> HIDE DEF Inv
<1> QED
  BY <1>1, <1>2, <1>3, PTL DEF MCSpec

=============================================================================
