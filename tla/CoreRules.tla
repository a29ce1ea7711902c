------------------------------ MODULE CoreRules ------------------------------
(***************************************************************************)
(* The core rules and the registry of rule providers                       *)
(* (validations/rules-registry.ts), and the two ways of the facade to      *)
(* validate what is at the end of a path (validation-facade.ts).           *)
(*                                                                         *)
(* Of a property's value the rules see whether it is absent (undefined or  *)
(* null), the length of String(value), where a pattern of one character    *)
(* occurs in it, and Number(value), which may be NaN.  Of an object and a  *)
(* path they see the values along the path, the object first.              *)
(***************************************************************************)
EXTENDS Naturals, Sequences, FiniteSets, FiniteSetsExt

CONSTANTS
  Names,         \* of rule providers
  MaxLength,     \* bound: length of a string
  MaxPath,       \* bound: length of a path
  MinLength, MaxLengthRule, RangeMin, RangeMax   \* the arguments of the rules

CoreAssumption ==
  {MaxLength, MaxPath, MinLength, MaxLengthRule, RangeMin, RangeMax} \subseteq Nat

NaN == MaxLength + RangeMax + 10   \* outside the numbers there are

Value(absent, length, hits, number) ==
  [absent |-> absent, length |-> length, hits |-> hits, number |-> number]

\* String(undefined) is 'undefined', in which a pattern may occur as in any other
\* string, String(null) is 'null', and Number(null) and Number('') are 0.
Values ==
  {Value(TRUE, 9, hits, NaN) : hits \in {{}, {0}}}
    \cup {Value(TRUE, 4, hits, 0) : hits \in {{}, {0}}}
    \cup {Value(FALSE, 0, {}, 0)}
    \cup UNION {{Value(FALSE, n, hits, number) : hits \in SUBSET (0 .. n - 1),
                   number \in {NaN} \cup 0 .. RangeMax + 1} : n \in 1 .. MaxLength}

\* "empty" is the string '', whose length is 0, another falsy value.
Kinds == {"undefined", "null", "falsy", "empty", "object", "value"}

Reads(from, to) ==
  CASE from = "object" -> to \in Kinds
    [] from = "empty"  -> to \in {"undefined", "falsy"}
    [] from \in {"falsy", "value"} -> to = "undefined"
    [] OTHER -> FALSE

\* What path reads along it, until nothing can be read any more.
Chains ==
  {chain \in UNION {[1 .. n -> Kinds] : n \in 1 .. MaxPath + 1} :
     \A i \in 1 .. Len(chain) - 1 : Reads(chain[i], chain[i + 1])}

VARIABLES
  providers,     \* of RulesRegistry
  lastIndex,     \* of the RegExp of the pattern rule, which has the g flag
  last,          \* the last validation: [value, failing]
  missed,        \* did the pattern refuse the value before, history
  path           \* what the two ways made of the last path

tested == <<lastIndex, last, missed>>
vars   == <<providers, tested, path>>

Init == providers = {} /\ lastIndex = 0 /\ last = <<>> /\ missed = "no" /\ path = <<>>

-----------------------------------------------------------------------------
Found(v, from) == {i \in v.hits : i >= from}

\* RegExp.test() without and with the g flag.
Matches(v) == Found(v, 0) # {}
Test(v)    == Found(v, lastIndex) # {}

Required(v)    == ~v.absent
LongEnough(v)  == v.length >= MinLength
ShortEnough(v) == v.length <= MaxLengthRule
InRange(v)     == v.number # NaN /\ v.number \in RangeMin .. RangeMax

Failing(v) ==
  (IF Required(v) THEN {} ELSE {"required"}) \cup (IF LongEnough(v) THEN {} ELSE {"minLength"})
    \cup (IF ShortEnough(v) THEN {} ELSE {"maxLength"})
    \cup (IF InRange(v) THEN {} ELSE {"range"}) \cup (IF Test(v) THEN {} ELSE {"pattern"})

\* A validator with all five rules, of which every one is asked.
Validate(v) ==
  /\ last' = [value |-> v, failing |-> Failing(v)]
  /\ lastIndex' = IF Test(v) THEN Min(Found(v, lastIndex)) + 1 ELSE 0
  /\ missed' = IF last # <<>> /\ "pattern" \in last.failing THEN "yes" ELSE "no"
  /\ UNCHANGED <<providers, path>>

\* register() throws for a name that is taken; getProvider() for one that is not.
Register(name) ==
  /\ name \notin providers
  /\ providers' = providers \cup {name}
  /\ UNCHANGED <<tested, path>>

-----------------------------------------------------------------------------
Missing == {"undefined", "null"}

Reached(chain, length, i) == IF i \in DOMAIN chain THEN chain[i] ELSE "undefined"

\* forNestedPath(): a nested validator at each step, which refuses what is
\* undefined or null, and takes the property of a falsy value for undefined.
ForNestedPath(chain, length, accepts) ==
  LET Validates[i \in 1 .. length + 1] ==
        IF i = length + 1 THEN accepts
        ELSE LET at   == Reached(chain, length, i)
                 next == IF at \in {"object", "value"} THEN Reached(chain, length, i + 1)
                         ELSE "undefined"
             IN  next \notin Missing /\ Validates[i + 1]
  IN  Validates[1]

\* validatePath(): reads on until it meets undefined or null, and validates what
\* is at the end unless it is undefined.
ValidatePath(chain, length, accepts) ==
  Reached(chain, length, length + 1) # "undefined" /\ accepts

TryPath(chain, length, accepts) ==
  /\ path' = [chain |-> chain, length |-> length,
              nested |-> ForNestedPath(chain, length, accepts),
              direct |-> ValidatePath(chain, length, accepts)]
  /\ UNCHANGED <<providers, tested>>

RuleStep == \/ \E v \in Values : Validate(v)
            \/ \E name \in Names : Register(name)

\* A chain that ends before the path does ends with what cannot be read from.
PathStep ==
  \E chain \in Chains, length \in 0 .. MaxPath, accepts \in BOOLEAN :
    /\ Len(chain) = length + 1 \/ (Len(chain) <= length /\ chain[Len(chain)] \in Missing)
    /\ TryPath(chain, length, accepts)

Next == RuleStep \/ PathStep

Spec == Init /\ [][Next]_vars

-----------------------------------------------------------------------------
TypeOK ==
  /\ providers \subseteq Names /\ lastIndex \in 0 .. MaxLength
  /\ last # <<>> => last.value \in Values

\* What no rule refuses is there, has a length and a number within the bounds and
\* matches.  A pattern with the g flag remembers where it was between values: it
\* may refuse what matches, but not twice in a row (CoreRules).
VerdictsAreSound ==
  last # <<>> =>
    /\ last.failing = {} =>
         /\ ~last.value.absent /\ Matches(last.value)
         /\ last.value.length \in MinLength .. MaxLengthRule
         /\ last.value.number \in RangeMin .. RangeMax
    /\ missed = "yes" /\ "pattern" \in last.failing => ~Matches(last.value)

\* The two ways to validate along a path agree, except about a null at its end
\* and about the length of an empty string (forNestedPath, validatePath).
PathsAgree ==
  path # <<>> =>
    LET end == Reached(path.chain, path.length, path.length + 1)
    IN  \/ path.nested = path.direct
        \/ path.length > 0 /\ end = "null"
        \/ path.length = 0 /\ path.chain[1] = "undefined"
        \/ \E i \in 1 .. Len(path.chain) - 1 : path.chain[i] = "empty"

=============================================================================
