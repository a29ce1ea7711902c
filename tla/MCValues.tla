-------------------------------- MODULE MCValues --------------------------------
(***************************************************************************)
(* The parts that compute on values, for TLC, in one run of ten parts:     *)
(* deepEqual on all graphs of three objects and on trees of four, one rule *)
(* validator with conditions, several that are nested and combined, the    *)
(* core rules, validation along paths, specifications, policies, the       *)
(* summary of the sample's orders and the read model of errors.            *)
(***************************************************************************)
EXTENDS DeepEqual

CONSTANTS o1, o2, o3, o4, \* objects, and orders
          p, q,           \* primitives
          f1, f2, c1, HasPart, s1, s2, x1, x2, x3

VARIABLES part, objects, open, policies, orders, statistics, aggregates, listings, last, applied,
  specifications, providers, lastIndex, tried, missed, path, model, now, history

Rules == INSTANCE BusinessRules
  WITH Facts <- {f1, f2}, Conditions <- {c1}, MaxValidators <- 1, MaxRules <- 3, MaxDepth <- 1

Several == INSTANCE BusinessRules
  WITH Facts <- {f1, f2}, Conditions <- {}, MaxValidators <- 3, MaxRules <- 2, MaxDepth <- 0

Composites == INSTANCE Policies
  WITH Specifications <- {s1, s2}, MaxPolicies <- 4, MaxMembers <- 2

Summary == INSTANCE OrderProjection
  WITH Orders <- {o1, o2, o3}, Customers <- {x1, x2, x3}, Amounts <- {1, 2},
       MaxTop <- 2, MaxEvents <- 4

Specs == INSTANCE Specifications
  WITH MaxNumber <- 0, MaxObjects <- 4, MaxRules <- 2,
       objects <- specifications

Core == INSTANCE CoreRules
  WITH Names <- {c1, f1}, MaxLength <- 3, MaxPath <- 3, MinLength <- 2,
       MaxLengthRule <- 3, RangeMin <- 0, RangeMax <- 1, last <- tried

Errors == INSTANCE ErrorProjection
  WITH Projections <- {o1, o2}, ErrorTypes <- {x1, x2}, MaxRecent <- 2, MaxAge <- 2,
       MaxErrors <- 4, MaxTime <- 3

ASSUME ValidationAssumption ==
  /\ Rules!RulesAssumption /\ Several!RulesAssumption /\ Composites!PoliciesAssumption
  /\ Specs!SpecificationsAssumption /\ Core!CoreAssumption
ASSUME ReadModelsAssumption == Summary!SummaryAssumption /\ Errors!ErrorsAssumption

validation == <<objects, open, policies>>
summary    == <<orders, statistics, aggregates, listings, last, applied>>
core       == <<providers, lastIndex, tried, missed, path>>
errors     == <<model, now, history>>
others     == <<specifications, core, errors>>
mcvars     == <<part, comparison, validation, summary, others>>

-----------------------------------------------------------------------------
(* An object without objects, and one that may hold a child under one key. *)
Leaves == [Keys -> Primitives \union {Absent}]
Holding(child) ==
  Leaves \union {[leaf EXCEPT ![k] = child] : leaf \in Leaves, k \in Keys}

Trees == {[o \in Objects |-> CASE o = o1 -> a [] o = o2 -> b [] o = o3 -> c [] o = o4 -> d] :
             a \in Holding(o3), b \in Holding(o4), c \in Leaves, d \in Leaves}

(* The graphs of o1, o2 and o3 over one primitive.                         *)
Blank  == [k \in Keys |-> Absent]
Graphs == {[o \in Objects |-> IF o = o4 THEN Blank ELSE heap3[o]] :
             heap3 \in [{o1, o2, o3} -> [Keys -> {o1, o2, o3, p, Absent}]]}

MCInit ==
  /\ part \in {"graphs", "trees", "rules", "several", "core", "paths",
              "specifications", "policies", "orders", "errors"}
  /\ left = o1 /\ right = o2
  /\ CASE part = "graphs" -> InitWith(Graphs)
       [] part = "trees"  -> InitWith(Trees)
       [] OTHER           -> InitWith({[o \in Objects |-> Blank]})
  /\ Rules!Init /\ Composites!Init /\ Summary!Init
  /\ Specs!Init /\ Core!Init /\ Errors!Init

MCNext ==
  /\ UNCHANGED part
  /\ \/ /\ \/ /\ part \in {"graphs", "trees"} /\ ComparisonNext
              /\ UNCHANGED <<validation, summary>>
           \/ /\ (part = "rules" /\ Rules!Next) \/ (part = "several" /\ Several!Next)
              /\ UNCHANGED <<comparison, policies, summary>>
           \/ /\ part = "policies" /\ Composites!Next
              /\ UNCHANGED <<comparison, objects, open, summary>>
           \/ part = "orders" /\ Summary!Next /\ UNCHANGED <<comparison, validation>>
        /\ UNCHANGED others
     \/ /\ \/ /\ part = "specifications" /\ Specs!Next
              /\ UNCHANGED <<core, errors>>
           \/ /\ (part = "core" /\ Core!RuleStep) \/ (part = "paths" /\ Core!PathStep)
              /\ UNCHANGED <<specifications, errors>>
           \/ part = "errors" /\ Errors!Next /\ UNCHANGED <<specifications, core>>
        /\ UNCHANGED <<comparison, validation, summary>>

(* A comparison waits for nothing.                                         *)
MCSpec == MCInit /\ [][MCNext]_mcvars /\ WF_comparison(part \in {"graphs", "trees"} /\ ComparisonNext)

-----------------------------------------------------------------------------
(* The properties of the parts they are stated for. *)

(* On every pair of graphs, circular ones included, the comparison ends    *)
(* and enters no object twice at a time; on trees it answers false only    *)
(* where the values differ (LibUtils.deepEqual).                           *)
ComparisonEndsRight ==
  /\ [](part \in {"graphs", "trees"} => ComparisonOK /\ EnteredOnce)
  /\ [](part = "trees" => DifferentIsDeserved)
  /\ (part \in {"graphs", "trees"} /\ result = "called") ~> result \in {"equal", "different"}

(* Whatever order the builder's calls and callbacks come in, callbacks     *)
(* that throw among them but none inside another, a validator reports      *)
(* exactly the written rules that fail under their conditions, a rejected  *)
(* value stays rejected as rules are added, and                            *)
(* a combination accepts what both its validators accept; from value to    *)
(* value, with a pattern that remembers where it was, what the core rules  *)
(* accept is within their bounds and matches, and they refuse what matches *)
(* at most once in a row; the two ways to validate along a path agree but  *)
(* for a null at its end and an empty string                               *)
(* (BusinessRuleValidator, validation-facade.ts, rules-registry.ts).       *)
RulesMeanWhatWasWritten ==
  /\ [](part = "rules" => Rules!TypeOK /\ Rules!ReportsWhatWasWritten)
  /\ [](part = "several" => Several!TypeOK /\ Several!ReportsWhatWasWritten)
  /\ Several!VerdictsOnlyTighten
  /\ Several!CombinationsAgree
  /\ [](Core!TypeOK /\ (part = "core" => Core!VerdictsAreSound))
  /\ [](part = "paths" => Core!PathsAgree)

(* Through nested ANDs and ORs, check() and isSatisfiedBy() of policies    *)
(* agree, the violations blame only what is not satisfied, and and() and   *)
(* or() mean conjunction and disjunction; so do the folds of specifications*)
(* of none to two, and a specification made of a validator refuses more    *)
(* or accepts more as rules are added, by the negations above it           *)
(* (composite-policy.ts; specification-operators.ts,                       *)
(* business-rule-validator-extension.ts, validation-facade.ts).            *)
CombiningMeansWhatItSays ==
  /\ [](/\ Composites!TypeOK
        /\ Composites!CheckAgreesWithSatisfaction
        /\ Composites!BlameIsDeserved)
  /\ Composites!CombiningMeansWhatItSays
  /\ [](Specs!TypeOK /\ Specs!ConversionsAgree)
  /\ Specs!FoldsMeanWhatTheySay
  /\ Specs!VerdictsFollowValidators

(* Of the orders as their aggregates have them, each counted once for      *)
(* every time its OrderPlaced was delivered, the revenue and the leading   *)
(* customers are current and the counts by status lag by shipments alone,  *)
(* so a repeated OrderShipped or OrderCancelled changes nothing and a      *)
(* repeated OrderPlaced is the one thing counted twice; the errors are     *)
(* counted as they came, and those remembered are the newest, without a    *)
(* gap (order.projection.ts, order.aggregate.ts; error-projection.ts).     *)
SummaryIsCurrent ==
  /\ Summary!TypeOK /\ Summary!RevenueIsCurrent
  /\ Summary!CountsLagByShipments /\ Summary!TopCustomersAreTop
  /\ Errors!ErrorsAreAccounted
=============================================================================
