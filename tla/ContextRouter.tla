---------------------------- MODULE ContextRouter ----------------------------
(***************************************************************************)
(* A context router while it is configured: the calls of context-router.ts *)
(* that add rules and clear them.                                          *)
(***************************************************************************)
EXTENDS ContextRouting, Integers, FiniteSets

CONSTANTS
  Constants,         \* the Boolean constants used as conditions
  MaxRules           \* bound: rules

RouterAssumption == Constants \subseteq BOOLEAN /\ MaxRules \in Nat

VARIABLES
  routingRules,
  meant              \* [Contexts -> types the calls made meant it to receive]

vars == <<routingRules, meant>>

Init ==
  /\ routingRules = <<>>
  /\ meant = [c \in Contexts |-> {}]

Adds(rules, contexts, types) ==
  /\ Len(routingRules) + Len(rules) <= MaxRules
  /\ routingRules' = routingRules \o rules
  /\ meant' = [c \in Contexts |-> IF c \in contexts THEN meant[c] \cup types ELSE meant[c]]

Always == [kind |-> "predicate", types |-> EventTypes]

ContextLists == {<<c>> : c \in Contexts} \cup {<<c, d>> : c \in Contexts, d \in Contexts}

(* configure with an array, and sendAllEventsTo.                           *)
SendAllEventsTo(contexts) ==
  Adds(<<Rule(contexts, Always)>>, ToSet(contexts), EventTypes)

(* configure with a map or an object: one rule for an entry.               *)
Configure(context, condition) ==
  /\ condition.kind = "constant" => (condition.types = EventTypes) \in Constants
  /\ Adds(<<Rule(<<context>>, condition)>>, {context}, condition.types)

SendEventTypeTo(type, contexts) ==
  Adds(<<Rule(contexts, [kind |-> "type", types |-> {type}])>>, ToSet(contexts), {type})

(* ... MatchingSpecificationTo and MatchingPredicateTo                     *)
SendEventsMatchingTo(types, contexts) ==
  Adds(<<Rule(contexts, [kind |-> "predicate", types |-> types])>>, ToSet(contexts), types)

Clear ==
  /\ routingRules' = <<>>
  /\ meant' = [c \in Contexts |-> {}]

Next ==
  \/ \E contexts \in ContextLists : SendAllEventsTo(contexts)
  \/ \E c \in Contexts, condition \in Conditions : Configure(c, condition)
  \/ \E t \in EventTypes, contexts \in ContextLists : SendEventTypeTo(t, contexts)
  \/ \E s \in SUBSET EventTypes, contexts \in ContextLists : SendEventsMatchingTo(s, contexts)
  \/ Clear

Spec == Init /\ [][Next]_vars

-----------------------------------------------------------------------------
(* Properties *)

(* An event goes to the contexts some call meant it to go to, and to no    *)
(* other, whatever rules overlap.                                          *)
RoutesAsMeant ==
  \A t \in EventTypes :
    ToSet(DetermineTargetContexts(routingRules, t)) = {c \in Contexts : t \in meant[c]}

(* No context receives an event twice.                                     *)
RoutesOnce ==
  \A t \in EventTypes : IsInjective(DetermineTargetContexts(routingRules, t))

=============================================================================
