---------------------------- MODULE Specifications ----------------------------
(***************************************************************************)
(* Specifications and the validators made of them                          *)
(* (validations/specifications, validation-facade.ts and                   *)
(* business-rule-validator-extension.ts): tests of a property, their       *)
(* composition with and, or and not, validators whose rules are            *)
(* specifications, and specifications that ask a validator.                *)
(*                                                                         *)
(* A program makes objects one by one from those it has; objects is their  *)
(* sequence, and objects name each other by their places.  A specification *)
(* never changes, a validator gains rules.  A candidate is abstracted to   *)
(* the value of the one property that the specifications test.             *)
(***************************************************************************)
EXTENDS Naturals, Sequences, FiniteSets, SequencesExt

CONSTANTS
    MaxNumber,      \* candidates have a number up to this, null or undefined
    MaxObjects,     \* bound: objects a program makes
    MaxRules        \* bound: rules of a validator, operands of a fold

VARIABLE objects    \* [kind, accepts, of]

Null       == MaxNumber + 1      \* two places outside the numbers
Undefined  == MaxNumber + 2
Candidates == 0 .. Undefined

SpecificationsAssumption ==
    {MaxNumber, MaxObjects, MaxRules} \subseteq Nat

Specs      == {i \in DOMAIN objects : objects[i].kind # "validator"}
Validators == DOMAIN objects \ Specs

-----------------------------------------------------------------------------
\* What the tests of a property accept.  A comparison takes null for 0, and is
\* false of undefined.
PropertyIn(values) == values     \* propertyEquals() of one value
PropertyBetween(min, max) ==
    (min .. max) \union (IF min = 0 THEN {Null} ELSE {})

Tests == {PropertyIn({MaxNumber, Undefined}), PropertyBetween(0, MaxNumber)}

\* isSatisfiedBy() of every kind of specification, and validate(): the rules
\* of a validator that the candidate does not satisfy.
RECURSIVE IsSatisfiedBy(_, _, _)
Failing(objs, v, c) == SelectSeq(objs[v].of, LAMBDA s : ~IsSatisfiedBy(objs, s, c))

Valid(objs, v, c) == Failing(objs, v, c) = << >>

IsSatisfiedBy(objs, i, c) ==
    LET Operand(k) == IsSatisfiedBy(objs, objs[i].of[k], c)
    IN  CASE objs[i].kind = "test" -> c \in objs[i].accepts
          [] objs[i].kind = "and"  -> Operand(1) /\ Operand(2)
          [] objs[i].kind = "or"   -> Operand(1) \/ Operand(2)
          [] objs[i].kind = "not"  -> ~Operand(1)
          [] objs[i].kind = "asks" -> Valid(objs, objs[i].of[1], c)

\* validateWithSpecifications(): the validator's errors, then one for each
\* specification that is not satisfied.
WithSpecifications(objs, v, specs, c) ==
    Failing(objs, v, c) \o SelectSeq(specs, LAMBDA s : ~IsSatisfiedBy(objs, s, c))

-----------------------------------------------------------------------------
Init == objects = << >>

Object(kind, accepts, of) == [kind |-> kind, accepts |-> accepts, of |-> of]

Make(new) ==
    /\ Len(objects) + Len(new) <= MaxObjects
    /\ objects' = objects \o new

\* create(), propertyIn(), propertyBetween(); alwaysTrue() and
\* alwaysFalse() accept every candidate and none.
Test(accepts) == Make(<<Object("test", accepts, << >>)>>)

AlwaysTrue  == Test(Candidates)
AlwaysFalse == Test({})

\* and(), or() of a specification with another one, and not().
And(i, j) == Make(<<Object("and", {}, <<i, j>>)>>)
Or(i, j)  == Make(<<Object("or", {}, <<i, j>>)>>)
Not(i)    == Make(<<Object("not", {}, <<i>>)>>)

\* Specification.and() and .or() of a list: a chain of binary ones that starts
\* from the first operand; of one, the operand itself; of none, a constant.
Chain(op, operands) ==
    [k \in 1 .. Len(operands) - 1 |->
        Object(op, {}, <<IF k = 1 THEN operands[1] ELSE Len(objects) + k - 1,
                         operands[k + 1]>>)]

Fold(op, operands) ==
    Make(IF operands = << >>
         THEN <<Object("test", IF op = "and" THEN Candidates ELSE {}, << >>)>>
         ELSE Chain(op, operands))

\* The specification that Fold returned, in the state after it.
Folded(operands) ==
    IF Len(operands) = 1 THEN operands[1] ELSE Len(objects')

\* Validation.fromSpecification(), BusinessRuleValidator.fromSpecification(),
\* validateWithRules(), and create() for no specification: a new validator.
FromSpecifications(specs) == Make(<<Object("validator", {}, specs)>>)

\* What an object refers to, directly and through others.
RECURSIVE Reaches(_, _)
Reaches(i, j) == \/ i = j
                 \/ \E k \in DOMAIN objects[i].of : Reaches(objects[i].of[k], j)

\* addRule(), addPropertyRule(), mustSatisfy() through apply(): one rule more,
\* for everybody who holds the validator.  One that asked itself would overflow
\* the stack on its first candidate.
AddRule(v, s) ==
    /\ Len(objects[v].of) < MaxRules /\ ~Reaches(s, v)
    /\ objects' = [objects EXCEPT ![v].of = Append(@, s)]

\* validatorToSpecification(), toSpecification(): it asks the validator anew for
\* every candidate.
ToSpecification(v) == Make(<<Object("asks", {}, <<v>>)>>)

Operands == UNION {[1 .. n -> Specs] : n \in 0 .. MaxRules}

Next ==
    \/ \E accepts \in Tests : Test(accepts)
    \/ AlwaysTrue \/ AlwaysFalse
    \/ \E i, j \in Specs : And(i, j) \/ Or(i, j)
    \/ \E i \in Specs : Not(i) \/ FromSpecifications(<<i>>)
    \/ \E op \in {"and", "or"}, operands \in Operands : Fold(op, operands)
    \/ FromSpecifications(<< >>)
    \/ \E v \in Validators : ToSpecification(v) \/ \E s \in Specs : AddRule(v, s)

Spec == Init /\ [][Next]_objects

-----------------------------------------------------------------------------
\* Every object refers to objects there are, and none to itself.
TypeOK ==
    /\ Len(objects) <= MaxObjects
    /\ \A i \in DOMAIN objects :
          /\ objects[i].kind \in {"test", "and", "or", "not", "asks", "validator"}
          /\ Range(objects[i].of) \subseteq DOMAIN objects
          /\ \A k \in DOMAIN objects[i].of : ~Reaches(objects[i].of[k], i)

\* The n-ary and() is satisfied by what satisfies every operand and or() by what
\* satisfies one, lists of none and of one and repeated operands included
\* (Specification.and, Specification.or).
FoldsMeanWhatTheySay ==
    [][\A operands \in Operands :
           LET Satisfied(c) == {k \in DOMAIN operands : IsSatisfiedBy(objects, operands[k], c)}
               Verdict(c)   == IsSatisfiedBy(objects', Folded(operands), c)
           IN  /\ Fold("and", operands) =>
                      \A c \in Candidates : Verdict(c) <=> Satisfied(c) = DOMAIN operands
               /\ Fold("or", operands) =>
                      \A c \in Candidates : Verdict(c) <=> Satisfied(c) # {}]_objects

\* The validators that a specification reaches through an even and through an
\* odd number of negations.
RECURSIVE Under(_, _)
Under(i, negated) ==
    CASE objects[i].kind = "test"      -> {}
      [] objects[i].kind = "not"       -> Under(objects[i].of[1], ~negated)
      [] objects[i].kind = "validator" ->
             {<<i, negated>>} \union UNION {Under(s, negated) : s \in Range(objects[i].of)}
      [] OTHER -> UNION {Under(j, negated) : j \in Range(objects[i].of)}

\* A specification that asks validators follows them when they gain rules: it
\* refuses more if it has them under no negation, accepts more if it has them
\* only under negations, and one that asks none never changes its mind
\* (validatorToSpecification, toSpecification, NotSpecification).
VerdictsFollowValidators ==
    [][\A i \in Specs, c \in Candidates :
           LET before == IsSatisfiedBy(objects, i, c)
               after  == IsSatisfiedBy(objects', i, c)
               signs  == {u[2] : u \in Under(i, FALSE)}
           IN  /\ TRUE \notin signs => (after => before)
               /\ FALSE \notin signs => (before => after)]_objects

\* Validating with one specification more demands it and the validator both, and
\* a validator with one specification for its only rule accepts what satisfies it
\* (validateWithSpecifications, fromSpecification).
ConversionsAgree ==
    \A v \in Validators, s \in Specs, c \in Candidates :
        /\ WithSpecifications(objects, v, <<s>>, c) = << >>
               <=> Valid(objects, v, c) /\ IsSatisfiedBy(objects, s, c)
        /\ objects[v].of = <<s>> => (Valid(objects, v, c) <=> IsSatisfiedBy(objects, s, c))

=============================================================================
