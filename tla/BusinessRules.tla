---------------------------- MODULE BusinessRules ----------------------------
(***************************************************************************)
(* BusinessRuleValidator (validations/business-rules): the fluent builder   *)
(* of validation rules and what the validator it builds reports.            *)
(*                                                                         *)
(* The state is the heap of validators.  when() and otherwise() hand a      *)
(* fresh validator to a callback and copy its rules into the outer one when *)
(* the callback returns, so a callback in progress is an entry of open and  *)
(* the validators at the end of objects are the ones the open callbacks     *)
(* fill.  A value is abstracted to the set of the facts, conditions and     *)
(* parts that are true of it.  Beside the rules the code keeps, written     *)
(* records the rules with every condition they were written under: it is    *)
(* history, no action reads it.                                             *)
(***************************************************************************)
EXTENDS Naturals, Sequences, FiniteSets, SequencesExt

CONSTANTS
    Facts,          \* what a plain rule or a specification tests
    Conditions,     \* the conditions of when()
    HasPart,        \* true of a value whose nested object is there
    MaxValidators,  \* bound: validators a program names
    MaxRules,       \* bound: rules of one validator
    MaxDepth        \* bound: callbacks inside callbacks

VARIABLES
    objects,        \* the validators: [rules, written, stop, last, parts]
    open            \* the callbacks in progress, the innermost last

vars == <<objects, open>>

NoCondition == "no condition"

RulesAssumption ==
    /\ MaxValidators \in Nat \ {0} /\ MaxRules \in Nat /\ MaxDepth \in Nat
    /\ NoCondition \notin Conditions

Values == SUBSET (Facts \union Conditions \union {HasPart})

Literals == [on : Conditions, holds : BOOLEAN]

Blank == [rules |-> << >>, written |-> << >>, stop |-> FALSE,
          last |-> NoCondition, parts |-> << >>]

Top == Len(objects) - Len(open)      \* the validators the program has named

(***************************************************************************)
(* A call reaches the innermost callback's validator while one is open, and *)
(* any named validator that is not a combination otherwise.                 *)
(***************************************************************************)
Calling(v) ==
    /\ v \in 1 .. Len(objects)
    /\ open # << >> => v = Len(objects)
    /\ objects[v].parts = << >>

-----------------------------------------------------------------------------
(* What a validator reports.  A rule's check is a fact, the object under    *)
(* HasPart validated by another validator, or another validator as a whole. *)

Holds(guards, value) == \A g \in guards : (g.on \in value) = g.holds

RECURSIVE Reported(_, _, _)

Succeeds(objs, v, value) == Reported(objs, v, value) = << >>

Fails(objs, check, value) ==
    \/ check.kind = "fact" /\ check.on \notin value
    \/ check.kind = "nested" /\ HasPart \notin value
    \/ /\ check.kind \in {"nested", "combined"}
       /\ check.kind = "nested" => HasPart \in value
       /\ ~Succeeds(objs, check.on, value)

\* validate(): the loop over the rules; the errors are named by their checks.
AfterRule(objs, v, value, errors, rule) ==
    IF /\ objs[v].stop => errors = << >>
       /\ Holds(rule.guards, value)
       /\ Fails(objs, rule.check, value)
    THEN Append(errors, rule.check)
    ELSE errors

Reported(objs, v, value) ==
    IF objs[v].parts # << >>
    THEN FlattenSeq([i \in DOMAIN objs[v].parts |->
                        Reported(objs, objs[v].parts[i], value)])
    ELSE FoldLeft(LAMBDA errors, rule : AfterRule(objs, v, value, errors, rule),
                  << >>, objs[v].rules)

-----------------------------------------------------------------------------
Init == objects = << >> /\ open = << >>

Create ==
    /\ open = << >> /\ Len(objects) < MaxValidators
    /\ objects' = Append(objects, Blank)
    /\ UNCHANGED open

WithRule(object, check) ==
    [object EXCEPT !.rules   = Append(@, [check |-> check, guards |-> {}]),
                   !.written = Append(@, [check |-> check, guards |-> {}])]

PushRule(v, check) ==
    /\ Calling(v) /\ Len(objects[v].rules) < MaxRules
    /\ objects' = [objects EXCEPT ![v] = WithRule(@, check)]
    /\ UNCHANGED open

\* addRule(), addSpecification(), mustSatisfy(), propertyMustSatisfy().
AddRule(v, f) == PushRule(v, [kind |-> "fact", on |-> f])

\* addNested(): w was named before the validator that is being built.
AddNested(v, w) ==
    /\ w < v /\ w \in 1 .. Top /\ (open # << >> => w < open[1].of)
    /\ PushRule(v, [kind |-> "nested", on |-> w])

\* The start of when() and of otherwise(): the callback gets a new validator.
Enter(v, literal, last) ==
    /\ Calling(v) /\ Len(open) < MaxDepth
    /\ open' = Append(open, [of |-> v, guard |-> literal])
    /\ objects' = Append([objects EXCEPT ![v].last = last], Blank)

When(v, c) == Enter(v, [on |-> c, holds |-> TRUE], c)

Otherwise(v) ==
    /\ objects[v].last # NoCondition
    /\ Enter(v, [on |-> objects[v].last, holds |-> FALSE], objects[v].last)

Copied_Unguarded(outer, inner, literal) ==
    [outer EXCEPT
        !.rules   = @ \o inner.rules,
        !.written = @ \o [i \in DOMAIN inner.written |->
                             [inner.written[i] EXCEPT !.guards = @ \union {literal}]]]
Copied(outer, inner, literal) ==
    [outer EXCEPT
        !.rules   = @ \o [i \in DOMAIN inner.rules |->
                             [inner.rules[i] EXCEPT !.guards = {literal}]],
        !.written = @ \o [i \in DOMAIN inner.written |->
                             [inner.written[i] EXCEPT !.guards = @ \union {literal}]]]

\* otherwise() forgets the condition when its callback has returned.
Forgets(object, literal) ==
    IF literal.holds THEN object ELSE [object EXCEPT !.last = NoCondition]

\* The callback returns: its rules are copied under the condition of the call.
Return ==
    /\ open # << >>
    /\ LET call  == Last(open)
           inner == Last(objects)
       IN  /\ Len(objects[call.of].rules) + Len(inner.rules) <= MaxRules
           /\ objects' = [Front(objects) EXCEPT
                  ![call.of] = Forgets(Copied(@, inner, call.guard), call.guard)]
    /\ open' = Front(open)

\* The callback throws, for one because it calls otherwise() without a when():
\* the exception leaves every call in progress, and copies nothing.
Throw ==
    /\ open # << >>
    /\ objects' = SubSeq(objects, 1, Top)
    /\ open' = << >>

SetStopOnFirstFailure(v) ==
    /\ Calling(v)
    /\ objects' = [objects EXCEPT ![v].stop = TRUE]
    /\ UNCHANGED open

\* and(): a copy of v's rules, and w as one more rule.
Combined(v, w) ==
    WithRule([Blank EXCEPT !.rules = objects[v].rules, !.written = objects[v].written],
             [kind |-> "combined", on |-> w])

Name(object) ==
    /\ open = << >> /\ Len(objects) < MaxValidators
    /\ objects' = Append(objects, object)
    /\ UNCHANGED open

And(v, w) ==
    /\ Calling(v) /\ w \in 1 .. Top /\ Len(objects[v].rules) < MaxRules
    /\ Name(Combined(v, w))

\* Validation.combine(): both validators, consulted when it validates.
Combination(v, w) == [Blank EXCEPT !.parts = <<v, w>>]

Combine(v, w) == v \in 1 .. Top /\ w \in 1 .. Top /\ Name(Combination(v, w))

Next ==
    \/ Create
    \/ \E v \in 1 .. Len(objects) :
          \/ \E f \in Facts : AddRule(v, f)
          \/ \E c \in Conditions : When(v, c)
          \/ Otherwise(v)
          \/ SetStopOnFirstFailure(v)
          \/ \E w \in 1 .. Top : AddNested(v, w) \/ And(v, w) \/ Combine(v, w)
    \/ Return
    \/ Throw

Spec == Init /\ [][Next]_vars

-----------------------------------------------------------------------------
Rules ==
    [check : [kind : {"fact"}, on : Facts]
             \union [kind : {"nested", "combined"}, on : 1 .. MaxValidators],
     guards : SUBSET Literals]

\* The builder's state has its shape, and only an open callback has a
\* validator without a name (when() and otherwise() of BusinessRuleValidator).
TypeOK ==
    /\ Top \in 0 .. MaxValidators /\ Len(open) <= MaxDepth
    /\ \A i \in DOMAIN objects :
          /\ Range(objects[i].rules) \union Range(objects[i].written) \subseteq Rules
          /\ Len(objects[i].rules) <= MaxRules
          /\ objects[i].last \in Conditions \union {NoCondition}
          /\ Range(objects[i].parts) \subseteq 1 .. Top
    /\ \A i \in DOMAIN open : open[i].of < Top + i /\ open[i].guard \in Literals

\* validate() reports the rules that fail among those whose every condition
\* holds, in the order they were written, and only the first of them when the
\* validator stops on the first failure: a when() inside a when() asks for
\* both conditions, an otherwise() for the opposite of the last when().
ReportsWhatWasWritten ==
    \A v \in 1 .. Top : \A value \in Values :
        LET written == objects[v].written
            failing == {i \in DOMAIN written :
                           /\ Holds(written[i].guards, value)
                           /\ Fails(objects, written[i].check, value)}
            first   == {i \in failing : \A j \in failing : i <= j}
            said    == SetToSortSeq(IF objects[v].stop THEN first ELSE failing, <)
        IN  objects[v].parts = << >> =>
                Reported(objects, v, value) = [k \in DOMAIN said |-> written[said[k]].check]

\* A value a validator rejects stays rejected, whatever is added later to the
\* validator, to one it nests or to one it was combined with: no call of the
\* builder takes a rule away (BusinessRuleValidator, validation-facade).
VerdictsOnlyTighten ==
    [][\A v \in 1 .. Top : \A value \in Values :
           ~Succeeds(objects, v, value) => ~Succeeds(objects', v, value)]_vars

\* and() and Validation.combine() make a validator that accepts exactly the
\* values both of its validators accept, also when one of them stops on its
\* first failure or is itself a combination.
CombinationsAgree ==
    [][\A v, w \in 1 .. Top : And(v, w) \/ Combine(v, w) =>
           \E u \in {Len(objects')} : \A value \in Values :
               Succeeds(objects', u, value)
                   <=> Succeeds(objects, v, value) /\ Succeeds(objects, w, value)]_vars

=============================================================================
