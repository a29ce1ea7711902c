------------------------------- MODULE Policies -------------------------------
(***************************************************************************)
(* Business policies (policies): policies built from specifications, their  *)
(* composition with and() and or(), and what check() and isSatisfiedBy()    *)
(* say of an entity.                                                        *)
(*                                                                         *)
(* A program builds policies one by one, each from ones it has: policies is *)
(* the sequence of them, a composite naming its members by their places.    *)
(* An entity is abstracted to the set of the specifications it satisfies.   *)
(***************************************************************************)
EXTENDS Naturals, Sequences, FiniteSets, SequencesExt

CONSTANTS
    Specifications, \* the specifications of the basic policies
    MaxPolicies,    \* bound: policies a program builds
    MaxMembers      \* bound: members of a composite built as such

VARIABLE policies   \* [operator, specification, members]

PoliciesAssumption == MaxPolicies \in Nat /\ MaxMembers \in Nat

Basic == "BASIC"

Entities == SUBSET Specifications

Places == 1 .. Len(policies)

-----------------------------------------------------------------------------
(* What a policy of ps says of an entity. *)

RECURSIVE IsSatisfiedBy(_, _, _)
IsSatisfiedBy(ps, p, entity) ==
    LET satisfied == {i \in DOMAIN ps[p].members :
                          IsSatisfiedBy(ps, ps[p].members[i], entity)}
    IN  CASE ps[p].operator = Basic -> ps[p].specification \in entity
          [] ps[p].operator = "AND" -> satisfied = DOMAIN ps[p].members
          [] ps[p].operator = "OR"  -> satisfied # {}

\* check(): the violations found, as the loop over the members leaves them.
\* AND stops at its first violation; OR forgets them all at its first success.
RECURSIVE Check(_, _, _)
Violation(ps, p, entity) ==
    LET failing == SelectSeq(ps[p].members, LAMBDA m : Check(ps, m, entity).failed)
    IN  IF ps[p].operator = "AND" /\ failing # << >> THEN <<Head(failing)>> ELSE failing

Check(ps, p, entity) ==
    LET found == Violation(ps, p, entity)
    IN  CASE ps[p].operator = Basic ->
                 [failed |-> ps[p].specification \notin entity, by |-> << >>]
          [] ps[p].operator = "AND" -> [failed |-> found # << >>, by |-> found]
          [] ps[p].operator = "OR" ->
                 [failed |-> Len(found) = Len(ps[p].members), by |-> found]

-----------------------------------------------------------------------------
Init == policies = << >>

Build(operator, specification, members) ==
    /\ Len(policies) < MaxPolicies
    /\ policies' = Append(policies, [operator |-> operator, members |-> members,
                                     specification |-> specification])

\* BusinessPolicy.fromSpecification().
FromSpecification(s) == Build(Basic, s, << >>)

\* new CompositePolicy(): any operator over any list, an empty one included.
Composite(operator, members) == Build(operator, Basic, members)

\* and(), or(): a composite of the same operator takes the other one in, any
\* other policy becomes the first member of a composite of two.
Combine_Absorb(operator, p, q) ==
    Composite(operator, IF policies[p].members # << >>
                        THEN Append(policies[p].members, q)
                        ELSE <<p, q>>)
Combine(operator, p, q) ==
    Composite(operator, IF policies[p].operator = operator
                        THEN Append(policies[p].members, q)
                        ELSE <<p, q>>)

And(p, q) == Combine("AND", p, q)
Or(p, q)  == Combine("OR", p, q)

Next ==
    \/ \E s \in Specifications : FromSpecification(s)
    \/ \E operator \in {"AND", "OR"} : \E n \in 0 .. MaxMembers :
           \E members \in [1 .. n -> Places] : Composite(operator, members)
    \/ \E p, q \in Places : And(p, q) \/ Or(p, q)

Spec == Init /\ [][Next]_policies

-----------------------------------------------------------------------------
\* A composite only has members built before it (CompositePolicy holds its
\* members in a readonly array given to its constructor), so every check ends.
TypeOK ==
    /\ Len(policies) <= MaxPolicies
    /\ \A p \in Places :
          /\ policies[p].operator \in {Basic, "AND", "OR"}
          /\ policies[p].operator = Basic => policies[p].specification \in Specifications
          /\ \A i \in DOMAIN policies[p].members : policies[p].members[i] \in 1 .. p - 1

\* check() fails exactly for the entities that isSatisfiedBy() refuses, through
\* any nesting of AND and OR and for a composite with no members: the two
\* methods are written apart in CompositePolicy, a loop that breaks and
\* continues against every() and some().
CheckAgreesWithSatisfaction ==
    \A p \in Places : \A entity \in Entities :
        Check(policies, p, entity).failed <=> ~IsSatisfiedBy(policies, p, entity)

RECURSIVE Blamed(_, _, _)
Blamed(ps, p, entity) ==
    IF ps[p].operator = Basic THEN {ps[p].specification}
    ELSE UNION {Blamed(ps, m, entity) : m \in Range(Check(ps, p, entity).by)}

\* The violations of a failed check, followed down to the basic policies, blame
\* only specifications the entity does not satisfy, and at least one of them
\* unless some OR has no members: the violations met before OR succeeds or after
\* AND has stopped are not in the report (CompositePolicy.check).
BlameIsDeserved ==
    \A p \in Places : \A entity \in Entities :
        Check(policies, p, entity).failed =>
            /\ Blamed(policies, p, entity) \intersect entity = {}
            /\ \/ Blamed(policies, p, entity) # {}
               \/ \E i \in 1 .. p : /\ policies[i].operator = "OR"
                                    /\ policies[i].members = << >>

\* and() makes a policy satisfied by what satisfies both, or() by what
\* satisfies either, although a composite of the same operator takes the other
\* policy in as one more member instead of becoming a member (CompositePolicy).
CombiningMeansWhatItSays ==
    [][\A p, q \in Places : \A entity \in Entities :
           LET made   == IsSatisfiedBy(policies', Len(policies'), entity)
               first  == IsSatisfiedBy(policies, p, entity)
               second == IsSatisfiedBy(policies, q, entity)
           IN  /\ And(p, q) => (made <=> first /\ second)
               /\ Or(p, q)  => (made <=> first \/ second)]_policies

=============================================================================
