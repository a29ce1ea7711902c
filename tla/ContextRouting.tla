--------------------------- MODULE ContextRouting ---------------------------
(***************************************************************************)
(* The rules of a context router and what they route                       *)
(* (core/events/integration/context-router.ts).  A condition is known by   *)
(* the event types it is meant to hold of: a type, a list of types, a      *)
(* predicate or specification (which here look at the type only), or a     *)
(* Boolean constant, which means every type or none.                       *)
(***************************************************************************)
EXTENDS Sequences, SequencesExt

CONSTANTS EventTypes, Contexts

ConditionKinds == {"type", "list", "predicate", "constant"}

Conditions ==
  {[kind |-> "type", types |-> {t}] : t \in EventTypes}
    \cup {[kind |-> "constant", types |-> s] : s \in {{}, EventTypes}}
    \cup {[kind |-> k, types |-> s] : k \in {"list", "predicate"}, s \in SUBSET EventTypes}

Rule(contexts, condition) == [targets |-> contexts, condition |-> condition]

Normalized_IgnoresLists(condition) ==
  IF condition.kind \in {"constant", "list"} THEN EventTypes ELSE condition.types

(* normalizeCondition: what is neither a function, a specification nor a   *)
(* string is always true.                                                  *)
Normalized(condition) ==
  IF condition.kind = "constant" THEN EventTypes ELSE condition.types

(* The targets are a JavaScript Set: the first insertion counts.           *)
AddTargets(targets, more) ==
  FoldLeft(LAMBDA acc, c : IF c \in ToSet(acc) THEN acc ELSE Append(acc, c),
           targets, more)

DetermineTargetContexts(rules, type) ==
  FoldLeft(LAMBDA acc, rule : IF type \in Normalized(rule.condition)
                              THEN AddTargets(acc, rule.targets) ELSE acc,
           <<>>, rules)

=============================================================================
