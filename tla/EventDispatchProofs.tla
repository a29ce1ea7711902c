------------------------ MODULE EventDispatchProofs ------------------------
(* Theorems about EventDispatch and the routing it relies on, for any      *)
(* events, rules, middlewares, processors and bounds.                      *)
EXTENDS EventDispatch, SequenceTheorems, FiniteSetTheorems,
        WellFoundedInduction, TLAPS

(* Induction, for a set instead of a predicate: were a number missing from *)
(* S, the least of those missing would not be 0, nor follow one in S.      *)
LEMMA InductionOnNat ==
  ASSUME NEW S, 0 \in S, \A n \in Nat : n \in S => n + 1 \in S
  PROVE  \A n \in Nat : n \in S
<1> SUFFICES ASSUME NEW n \in Nat, n \notin S PROVE FALSE
  OBVIOUS
<1> DEFINE Missing == {m \in Nat : m \notin S}
           Less == {p \in Nat \X Nat : p[1] < p[2]}
<1>1. IsWellFoundedOn(Less, Nat)
  <2>1. Less \cap (Nat \X Nat) \subseteq OpToRel(<, Nat)
    BY Zenon DEF OpToRel
  <2> QED
    BY <2>1, NatLessThanWellFounded, IsWellFoundedOnSubrelation
<1>2. PICK m \in Missing : \A k \in Missing : <<k, m>> \notin Less
  <2> HIDE DEF Less
  <2>1. Missing \subseteq Nat /\ Missing # {}
    OBVIOUS
  <2> QED
    BY <1>1, <2>1, WFMin
<1>3. m # 0 /\ m - 1 \in Nat
  OBVIOUS
<1>4. m - 1 \in Missing /\ <<m - 1, m>> \in Less
  BY <1>3
<1> QED
  BY <1>2, <1>4

-----------------------------------------------------------------------------
(* FoldLeft, with a function for its operator: what it makes of any set of *)
(* indices, the greatest one last.                                         *)
Folds(iter, n, base, step) ==
  \A s \in SUBSET (1 .. n) :
    iter[s] = IF s = {} THEN base ELSE step[<<Max(s), iter[s \ {Max(s)}]>>]

LEMMA MaxIs ==
  ASSUME NEW n \in Nat, NEW s \in SUBSET (1 .. n + 1), n + 1 \in s
  PROVE  Max(s) = n + 1 /\ s \ {n + 1} \in SUBSET (1 .. n)
<1>1. \A x \in s : (\A y \in s : x >= y) <=> x = n + 1
  OBVIOUS
<1>2. Max(s) = n + 1
  BY <1>1 DEF Max
<1> QED
  BY <1>2

LEMMA MaxIsIn ==
  ASSUME NEW m \in Nat
  PROVE  \A s \in SUBSET (1 .. m) : s # {} => Max(s) \in s
<1> DEFINE S == {n \in Nat : \A s \in SUBSET (1 .. n) : s # {} => Max(s) \in s}
<1>1. 0 \in S
  <2>1. \A s \in SUBSET (1 .. 0) : s = {}
    OBVIOUS
  <2> QED
    BY <2>1
<1>2. ASSUME NEW n \in Nat, n \in S PROVE n + 1 \in S
  <2>1. ASSUME NEW s \in SUBSET (1 .. n + 1), s # {} PROVE Max(s) \in s
    <3>1. CASE n + 1 \in s
      BY <3>1, MaxIs
    <3>2. CASE n + 1 \notin s
      <4>1. s \subseteq 1 .. n
        BY <3>2
      <4> QED
        BY <1>2, <2>1, <4>1
    <3> QED
      BY <3>1, <3>2
  <2> QED
    BY <2>1
<1> HIDE DEF S
<1>3. \A n \in Nat : n \in S
  BY <1>1, <1>2, InductionOnNat
<1> QED
  BY <1>3 DEF S

LEMMA FoldExists ==
  ASSUME NEW T, NEW m \in Nat, NEW base \in T, NEW step \in [(1 .. m) \X T -> T]
  PROVE  \E iter \in [SUBSET (1 .. m) -> T] : Folds(iter, m, base, step)
<1> DEFINE Some(n) == \E iter \in [SUBSET (1 .. n) -> T] : Folds(iter, n, base, step)
           S == {n \in Nat : n <= m => Some(n)}
<1>1. 0 \in S
  <2> DEFINE iter == [s \in SUBSET (1 .. 0) |-> base]
  <2>1. \A s \in SUBSET (1 .. 0) : s = {}
    OBVIOUS
  <2>2. iter \in [SUBSET (1 .. 0) -> T] /\ Folds(iter, 0, base, step)
    BY <2>1, Zenon DEF Folds
  <2> QED
    BY <2>2
<1>2. ASSUME NEW n \in Nat, n \in S PROVE n + 1 \in S
  <2> HIDE DEF Some
  <2> SUFFICES ASSUME n + 1 <= m PROVE Some(n + 1)
    OBVIOUS
  <2>0. Some(n)
    BY <1>2
  <2>1. PICK iter \in [SUBSET (1 .. n) -> T] : Folds(iter, n, base, step)
    BY <2>0 DEF Some
  <2> DEFINE more == [s \in SUBSET (1 .. n + 1) |->
                        IF n + 1 \in s THEN step[<<n + 1, iter[s \ {n + 1}]>>] ELSE iter[s]]
  <2>2. \A s \in SUBSET (1 .. n) :
          /\ iter[s] = IF s = {} THEN base ELSE step[<<Max(s), iter[s \ {Max(s)}]>>]
          /\ iter[s] \in T
    BY <2>1 DEF Folds
  <2>3. \A s \in SUBSET (1 .. n) : s \in SUBSET (1 .. n + 1) /\ n + 1 \notin s
    OBVIOUS
  <2>4. \A s \in SUBSET (1 .. n) : more[s] = iter[s]
    BY <2>3
  <2>5. ASSUME NEW s \in SUBSET (1 .. n + 1)
        PROVE  /\ more[s] = IF s = {} THEN base ELSE step[<<Max(s), more[s \ {Max(s)}]>>]
               /\ more[s] \in T
    <3>1. CASE n + 1 \in s
      <4>1. Max(s) = n + 1 /\ s \ {n + 1} \in SUBSET (1 .. n)
        BY <3>1, MaxIs
      <4>2. more[s] = step[<<n + 1, iter[s \ {n + 1}]>>]
        BY <3>1
      <4>3. iter[s \ {n + 1}] \in T /\ n + 1 \in 1 .. m
        BY <2>2, <4>1
      <4> QED
        BY <3>1, <4>1, <4>2, <4>3, <2>4
    <3>2. CASE n + 1 \notin s
      <4>1. s \subseteq 1 .. n
        BY <3>2
      <4>2. s \in SUBSET (1 .. n) /\ s \ {Max(s)} \in SUBSET (1 .. n)
        BY <4>1
      <4> QED
        BY <4>2, <2>2, <2>4
    <3> QED
      BY <3>1, <3>2
  <2>6. more \in [SUBSET (1 .. n + 1) -> T] /\ Folds(more, n + 1, base, step)
    <3>1. more = [s \in SUBSET (1 .. n + 1) |-> more[s]]
      OBVIOUS
    <3> HIDE DEF more
    <3>2. [s \in SUBSET (1 .. n + 1) |-> more[s]] \in [SUBSET (1 .. n + 1) -> T]
      BY <2>5
    <3> QED
      BY <2>5, <3>1, <3>2 DEF Folds
  <2> QED
    BY <2>6 DEF Some
<1> HIDE DEF S, Some
<1>3. \A n \in Nat : n \in S
  BY <1>1, <1>2, InductionOnNat
<1>4. Some(m)
  BY <1>3 DEF S
<1> QED
  BY <1>4 DEF Some

(* The first indices, one by one.                                          *)
LEMMA FirstIndices ==
  ASSUME NEW m \in Nat
  PROVE  /\ 1 .. 0 = {} /\ {} \in SUBSET (1 .. m)
         /\ \A n \in 1 .. m : /\ 1 .. n \in SUBSET (1 .. m) /\ 1 .. n # {}
                              /\ Max(1 .. n) = n /\ (1 .. n) \ {n} = 1 .. n - 1
<1>1. ASSUME NEW n \in 1 .. m
      PROVE  /\ 1 .. n \in SUBSET (1 .. m) /\ 1 .. n # {}
             /\ Max(1 .. n) = n /\ (1 .. n) \ {n} = 1 .. n - 1
  <2>1. /\ n - 1 \in Nat /\ (n - 1) + 1 = n /\ 1 .. n \in SUBSET (1 .. (n - 1) + 1)
        /\ (n - 1) + 1 \in 1 .. n
    OBVIOUS
  <2>2. Max(1 .. n) = n
    BY <2>1, MaxIs
  <2> QED
    BY <2>2
<1> QED
  BY <1>1

-----------------------------------------------------------------------------
(* Sequences as sets *)

LEMMA ToSetAppend ==
  ASSUME NEW T, NEW s \in Seq(T), NEW e \in T
  PROVE  ToSet(Append(s, e)) = ToSet(s) \cup {e}
<1>1. /\ Append(s, e) \in Seq(T) /\ Len(Append(s, e)) = Len(s) + 1 /\ Len(s) \in Nat
      /\ \A i \in 1 .. Len(s) : Append(s, e)[i] = s[i]
      /\ Append(s, e)[Len(s) + 1] = e
  BY AppendProperties, LenProperties
<1>2. DOMAIN s = 1 .. Len(s) /\ DOMAIN Append(s, e) = (1 .. Len(s)) \cup {Len(s) + 1}
  BY <1>1
<1> QED
  BY <1>1, <1>2 DEF ToSet

(* AddTargets adds what is not there yet.                                  *)
Adding(iter, start, more) ==
  iter = [s \in SUBSET (DOMAIN more) |->
            IF s = {} THEN start
            ELSE LET i == Max(s) IN
                 IF more[i] \in ToSet(iter[s \ {i}]) THEN iter[s \ {i}]
                 ELSE Append(iter[s \ {i}], more[i])]

LEMMA AddingExists ==
  ASSUME NEW T, NEW start \in Seq(T), NEW more \in Seq(T)
  PROVE  \E iter : Adding(iter, start, more)
<1> DEFINE m == Len(more)
           step == [p \in (1 .. m) \X Seq(T) |->
                      IF more[p[1]] \in ToSet(p[2]) THEN p[2] ELSE Append(p[2], more[p[1]])]
<1>1. m \in Nat /\ DOMAIN more = 1 .. m /\ \A i \in 1 .. m : more[i] \in T
  BY LenProperties, ElementOfSeq
<1>2. step \in [(1 .. m) \X Seq(T) -> Seq(T)]
  <2>1. ASSUME NEW p \in (1 .. m) \X Seq(T)
        PROVE  (IF more[p[1]] \in ToSet(p[2]) THEN p[2] ELSE Append(p[2], more[p[1]])) \in Seq(T)
    <3>1. p[2] \in Seq(T) /\ more[p[1]] \in T
      BY <1>1
    <3> QED
      BY <3>1, AppendProperties
  <2> QED
    BY <2>1
<1>3. \A i \in 1 .. m : \A q \in Seq(T) :
        step[<<i, q>>] = IF more[i] \in ToSet(q) THEN q ELSE Append(q, more[i])
  OBVIOUS
<1> HIDE DEF step
<1>4. PICK iter \in [SUBSET (1 .. m) -> Seq(T)] : Folds(iter, m, start, step)
  BY <1>1, <1>2, FoldExists
<1>5. ASSUME NEW s \in SUBSET (1 .. m)
      PROVE  iter[s] = IF s = {} THEN start
                       ELSE LET i == Max(s) IN
                            IF more[i] \in ToSet(iter[s \ {i}]) THEN iter[s \ {i}]
                            ELSE Append(iter[s \ {i}], more[i])
  <2>1. s # {} => Max(s) \in 1 .. m /\ s \ {Max(s)} \in SUBSET (1 .. m)
    BY <1>1, MaxIsIn
  <2>2. s # {} => iter[s \ {Max(s)}] \in Seq(T)
    BY <1>4, <2>1
  <2>3. iter[s] = IF s = {} THEN start ELSE step[<<Max(s), iter[s \ {Max(s)}]>>]
    BY <1>4 DEF Folds
  <2> QED
    BY <1>3, <2>1, <2>2, <2>3
<1>6. iter = [s \in SUBSET (1 .. m) |-> iter[s]]
  BY <1>4
<1>7. Adding(iter, start, more)
  BY <1>1, <1>5, <1>6 DEF Adding
<1> QED
  BY <1>7

LEMMA AddTargetsIs ==
  ASSUME NEW T, NEW start \in Seq(T), NEW more \in Seq(T), IsInjective(start)
  PROVE  /\ AddTargets(start, more) \in Seq(T)
         /\ ToSet(AddTargets(start, more)) = ToSet(start) \cup ToSet(more)
         /\ IsInjective(AddTargets(start, more))
<1> DEFINE iter == CHOOSE f : Adding(f, start, more)
           m == Len(more)
<1>1. m \in Nat /\ DOMAIN more = 1 .. m /\ \A i \in 1 .. m : more[i] \in T
  BY LenProperties, ElementOfSeq
<1>2. Adding(iter, start, more)
  BY AddingExists
<1>3. AddTargets(start, more) = iter[1 .. m]
  BY <1>1 DEF AddTargets, FoldLeft, MapThenFoldSet, Adding
<1> HIDE DEF iter, m
<1>4. /\ iter[1 .. 0] = start
      /\ \A n \in 1 .. m :
           iter[1 .. n] = IF more[n] \in ToSet(iter[1 .. n - 1]) THEN iter[1 .. n - 1]
                          ELSE Append(iter[1 .. n - 1], more[n])
  <2>1. \A s \in SUBSET (1 .. m) :
          iter[s] = IF s = {} THEN start
                    ELSE LET i == Max(s) IN
                         IF more[i] \in ToSet(iter[s \ {i}]) THEN iter[s \ {i}]
                         ELSE Append(iter[s \ {i}], more[i])
    BY <1>1, <1>2 DEF Adding
  <2>2. /\ 1 .. 0 = {} /\ {} \in SUBSET (1 .. m)
        /\ \A n \in 1 .. m : /\ 1 .. n \in SUBSET (1 .. m) /\ 1 .. n # {}
                             /\ Max(1 .. n) = n /\ (1 .. n) \ {n} = 1 .. n - 1
    BY <1>1, FirstIndices
  <2> QED
    BY <2>1, <2>2
<1> DEFINE First(n) == {more[i] : i \in 1 .. n}
           Holds(n) == /\ iter[1 .. n] \in Seq(T)
                       /\ ToSet(iter[1 .. n]) = ToSet(start) \cup First(n)
                       /\ IsInjective(iter[1 .. n])
           S == {n \in Nat : n <= m => Holds(n)}
<1>5. 0 \in S
  <2>1. First(0) = {}
    OBVIOUS
  <2> QED
    BY <1>4, <2>1
<1>6. ASSUME NEW n \in Nat, n \in S PROVE n + 1 \in S
  <2> SUFFICES ASSUME n + 1 <= m PROVE Holds(n + 1)
    OBVIOUS
  <2> DEFINE q == iter[1 .. n]
             e == more[n + 1]
  <2>1. q \in Seq(T) /\ ToSet(q) = ToSet(start) \cup First(n) /\ IsInjective(q) /\ e \in T
    BY <1>1, <1>6
  <2>2. First(n + 1) = First(n) \cup {e}
    <3>1. 1 .. n + 1 = (1 .. n) \cup {n + 1}
      OBVIOUS
    <3> QED
      BY <3>1
  <2>3. iter[1 .. n + 1] = IF e \in ToSet(q) THEN q ELSE Append(q, e)
    <3>1. n + 1 \in 1 .. m /\ (n + 1) - 1 = n
      OBVIOUS
    <3> QED
      BY <1>4, <3>1
  <2> HIDE DEF q, e, First
  <2>4. CASE e \in ToSet(q)
    BY <2>1, <2>2, <2>3, <2>4
  <2>5. CASE e \notin ToSet(q)
    <3>1. /\ Append(q, e) \in Seq(T) /\ Len(Append(q, e)) = Len(q) + 1 /\ Len(q) \in Nat
          /\ \A i \in 1 .. Len(q) : Append(q, e)[i] = q[i]
          /\ Append(q, e)[Len(q) + 1] = e
      BY <2>1, AppendProperties, LenProperties
    <3>2. ToSet(Append(q, e)) = ToSet(q) \cup {e}
      BY <2>1, ToSetAppend
    <3>3. \A i \in 1 .. Len(q) : q[i] # e
      BY <2>1, <2>5 DEF ToSet
    <3>4. \A i, j \in 1 .. Len(q) : q[i] = q[j] => i = j
      BY <2>1 DEF IsInjective
    <3>5. DOMAIN Append(q, e) = (1 .. Len(q)) \cup {Len(q) + 1}
      BY <3>1
    <3>6. IsInjective(Append(q, e))
      BY <3>1, <3>3, <3>4, <3>5 DEF IsInjective
    <3> QED
      BY <2>1, <2>2, <2>3, <2>5, <3>1, <3>2, <3>6
  <2> QED
    BY <2>4, <2>5
<1> HIDE DEF S, Holds
<1>7. \A n \in Nat : n \in S
  BY <1>5, <1>6, InductionOnNat
<1>8. Holds(m)
  BY <1>1, <1>7 DEF S
<1>9. First(m) = ToSet(more)
  BY <1>1 DEF ToSet
<1> QED
  BY <1>3, <1>8, <1>9 DEF Holds

(* DetermineTargetContexts adds the targets of the rules that hold.        *)
Routing(iter, rules, type) ==
  iter = [s \in SUBSET (DOMAIN rules) |->
            IF s = {} THEN <<>>
            ELSE LET i == Max(s) IN
                 IF type \in Normalized(rules[i].condition)
                 THEN AddTargets(iter[s \ {i}], rules[i].targets)
                 ELSE iter[s \ {i}]]

Sets(T) == {q \in Seq(T) : IsInjective(q)}

LEMMA RoutingExists ==
  ASSUME NEW T, NEW rules, NEW m \in Nat, DOMAIN rules = 1 .. m,
         \A i \in 1 .. m : rules[i].targets \in Seq(T), NEW type
  PROVE  \E iter : Routing(iter, rules, type)
<1> DEFINE More(i, q) == IF type \in Normalized(rules[i].condition)
                         THEN AddTargets(q, rules[i].targets) ELSE q
           step == [p \in (1 .. m) \X Sets(T) |-> More(p[1], p[2])]
<1>1. <<>> \in Sets(T)
  BY DEF Sets, IsInjective
<1>2. \A i \in 1 .. m : \A q \in Sets(T) : More(i, q) \in Sets(T)
  BY AddTargetsIs DEF Sets
<1> HIDE DEF More
<1>3. step \in [(1 .. m) \X Sets(T) -> Sets(T)]
  BY <1>2
<1>4. \A i \in 1 .. m : \A q \in Sets(T) : step[<<i, q>>] = More(i, q)
  OBVIOUS
<1> HIDE DEF step
<1>5. PICK iter \in [SUBSET (1 .. m) -> Sets(T)] : Folds(iter, m, <<>>, step)
  BY <1>1, <1>3, FoldExists
<1>6. ASSUME NEW s \in SUBSET (1 .. m)
      PROVE  iter[s] = IF s = {} THEN <<>> ELSE More(Max(s), iter[s \ {Max(s)}])
  <2>1. s # {} => Max(s) \in 1 .. m /\ s \ {Max(s)} \in SUBSET (1 .. m)
    BY MaxIsIn
  <2>2. s # {} => iter[s \ {Max(s)}] \in Sets(T)
    BY <1>5, <2>1
  <2>3. iter[s] = IF s = {} THEN <<>> ELSE step[<<Max(s), iter[s \ {Max(s)}]>>]
    BY <1>5 DEF Folds
  <2> QED
    BY <1>4, <2>1, <2>2, <2>3
<1>7. iter = [s \in SUBSET (1 .. m) |-> iter[s]]
  BY <1>5
<1>8. Routing(iter, rules, type)
  BY <1>6, <1>7 DEF Routing, More
<1> QED
  BY <1>8

(* The targets of the rules that hold of a type.                           *)
Meant(rules, type) ==
  UNION {ToSet(rules[i].targets) : i \in {j \in DOMAIN rules : type \in Normalized(rules[j].condition)}}

LEMMA DetermineIs ==
  ASSUME NEW T, NEW rules, NEW m \in Nat, DOMAIN rules = 1 .. m,
         \A i \in 1 .. m : rules[i].targets \in Seq(T), NEW type
  PROVE  /\ DetermineTargetContexts(rules, type) \in Seq(T)
         /\ IsInjective(DetermineTargetContexts(rules, type))
         /\ ToSet(DetermineTargetContexts(rules, type)) = Meant(rules, type)
<1> DEFINE iter == CHOOSE f : Routing(f, rules, type)
<1>1. Routing(iter, rules, type)
  BY RoutingExists
<1>2. DetermineTargetContexts(rules, type) = iter[1 .. m]
  BY DEF DetermineTargetContexts, FoldLeft, MapThenFoldSet, Routing
<1> HIDE DEF iter
<1> DEFINE Holds(i) == type \in Normalized(rules[i].condition)
           q(n) == iter[1 .. n]
           First(n) == UNION {ToSet(rules[i].targets) : i \in {j \in 1 .. n : Holds(j)}}
           Good(n) == q(n) \in Seq(T) /\ IsInjective(q(n)) /\ ToSet(q(n)) = First(n)
           S == {n \in Nat : n <= m => Good(n)}
<1>3. /\ q(0) = <<>>
      /\ \A n \in 1 .. m :
           q(n) = IF Holds(n) THEN AddTargets(q(n - 1), rules[n].targets) ELSE q(n - 1)
  <2>1. \A s \in SUBSET (1 .. m) :
          iter[s] = IF s = {} THEN <<>>
                    ELSE LET i == Max(s) IN
                         IF Holds(i) THEN AddTargets(iter[s \ {i}], rules[i].targets)
                         ELSE iter[s \ {i}]
    BY <1>1 DEF Routing
  <2>2. /\ 1 .. 0 = {} /\ {} \in SUBSET (1 .. m)
        /\ \A n \in 1 .. m : /\ 1 .. n \in SUBSET (1 .. m) /\ 1 .. n # {}
                             /\ Max(1 .. n) = n /\ (1 .. n) \ {n} = 1 .. n - 1
    BY FirstIndices
  <2> HIDE DEF Holds
  <2> QED
    BY <2>1, <2>2
<1>4. First(0) = {} /\ \A n \in Nat :
        First(n + 1) = First(n) \cup (IF Holds(n + 1) THEN ToSet(rules[n + 1].targets) ELSE {})
  <2> HIDE DEF Holds
  <2>1. \A x, n : x \in First(n) <=> \E i \in 1 .. n : Holds(i) /\ x \in ToSet(rules[i].targets)
    OBVIOUS
  <2>2. 1 .. 0 = {} /\ \A n \in Nat : 1 .. n + 1 = (1 .. n) \cup {n + 1}
    OBVIOUS
  <2> HIDE DEF First
  <2>3. First(0) = {}
    BY <2>1, <2>2
  <2>4. ASSUME NEW n \in Nat
        PROVE  First(n + 1) = First(n) \cup (IF Holds(n + 1) THEN ToSet(rules[n + 1].targets) ELSE {})
    BY <2>1, <2>2
  <2> QED
    BY <2>3, <2>4
<1> HIDE DEF Holds, First
<1>5. 0 \in S
  <2>1. <<>> \in Seq(T) /\ IsInjective(<<>>) /\ ToSet(<<>>) = {}
    BY DEF IsInjective, ToSet
  <2> HIDE DEF q
  <2> QED
    BY <1>3, <1>4, <2>1
<1>6. ASSUME NEW n \in Nat, n \in S PROVE n + 1 \in S
  <2> HIDE DEF q
  <2> SUFFICES ASSUME n + 1 <= m PROVE Good(n + 1)
    OBVIOUS
  <2>1. n + 1 \in 1 .. m /\ (n + 1) - 1 = n
    OBVIOUS
  <2>2. q(n) \in Seq(T) /\ IsInjective(q(n)) /\ ToSet(q(n)) = First(n)
    BY <1>6
  <2>3. rules[n + 1].targets \in Seq(T)
    BY <2>1
  <2>4. q(n + 1) = IF Holds(n + 1) THEN AddTargets(q(n), rules[n + 1].targets) ELSE q(n)
    BY <1>3, <2>1
  <2>5. CASE Holds(n + 1)
    <3> DEFINE old == q(n)
               to == rules[n + 1].targets
    <3>1. old \in Seq(T) /\ to \in Seq(T) /\ IsInjective(old)
      BY <2>2, <2>3
    <3> HIDE DEF old, to
    <3>2. /\ AddTargets(old, to) \in Seq(T) /\ IsInjective(AddTargets(old, to))
          /\ ToSet(AddTargets(old, to)) = ToSet(old) \cup ToSet(to)
      BY <3>1, AddTargetsIs
    <3> QED
      BY <1>4, <2>2, <2>4, <2>5, <3>2 DEF old, to
  <2>6. CASE ~Holds(n + 1)
    BY <1>4, <2>2, <2>4, <2>6
  <2> QED
    BY <2>5, <2>6
<1> HIDE DEF S, Good
<1>7. \A n \in Nat : n \in S
  BY <1>5, <1>6, InductionOnNat
<1>8. Good(m)
  BY <1>7 DEF S
<1>9. First(m) = Meant(rules, type)
  BY DEF First, Meant, Holds
<1> QED
  BY <1>2, <1>8, <1>9 DEF Good

-----------------------------------------------------------------------------
(* Where an event is.  On(c): what is known of the event caller c is busy  *)
(* with; Through(p, e): what processor p owed to event e is done.          *)
Got(s, e) == e \in ToSet(received[s])

Through(p, e) ==
  /\ p = "integration" => \A s \in ToSet(Targets(e)) : Got(s, e)
  /\ p = "audit" /\ ShouldAudit(e) => Got("audit", e)

On(c) ==
  /\ pc[c] \in {"process", "fanout"} =>
       /\ Dropping \/ Got("domain", Head(queue[c]))
       /\ \A i \in 1 .. stage[c] - 1 : Through(Processors[i], Head(queue[c]))
  /\ pc[c] = "fanout" =>
       /\ stage[c] <= Len(Processors)
       /\ Processors[stage[c]] = "integration"
       /\ targets[c] # <<>>
       /\ \A s \in ToSet(Targets(Head(queue[c]))) :
            Got(s, Head(queue[c])) \/ s \in ToSet(targets[c])
  /\ pc[c] = "commit" => queue[c] = <<>>

DispatchInv == TypeOK /\ \A c \in Callers : On(c)

LEMMA TargetsType ==
  ASSUME NEW e \in Event
  PROVE  Targets(e) \in Seq(Contexts) /\ IsInjective(Targets(e))
<1>1. /\ Len(Rules) \in Nat /\ DOMAIN Rules = 1 .. Len(Rules)
      /\ \A i \in 1 .. Len(Rules) : Rules[i] \in [targets : Seq(Contexts), condition : Conditions]
  BY DispatchAssumption, LenProperties, ElementOfSeq
<1>2. \A i \in 1 .. Len(Rules) : Rules[i].targets \in Seq(Contexts)
  BY <1>1
<1> QED
  BY <1>1, <1>2, DetermineIs DEF Targets

LEMMA HeadOfQueue ==
  ASSUME TypeOK, NEW c \in Callers, pc[c] \in {"pipeline", "process", "fanout"}
  PROVE  /\ queue[c] \in Seq(Event) /\ queue[c] # <<>>
         /\ Head(queue[c]) \in Event /\ Head(queue[c]) \in ToSet(queue[c])
         /\ Tail(queue[c]) \in Seq(Event) /\ Len(Tail(queue[c])) = Len(queue[c]) - 1
<1>1. queue[c] \in Seq(Event) /\ queue[c] # <<>>
  BY DEF TypeOK
<1>2. 1 \in DOMAIN queue[c] /\ Head(queue[c]) = queue[c][1]
  BY <1>1
<1> QED
  BY <1>1, <1>2, HeadTailProperties DEF ToSet

LEMMA HeadAndTail ==
  ASSUME NEW T, NEW s \in Seq(T), s # <<>>
  PROVE  /\ Head(s) \in T /\ Tail(s) \in Seq(T) /\ Len(s) \in Nat
         /\ ToSet(s) = {Head(s)} \cup ToSet(Tail(s))
         /\ Len(s) = 1 <=> Tail(s) = <<>>
<1> DEFINE t == Tail(s)
<1>1. /\ Head(s) \in T /\ t \in Seq(T) /\ Len(s) \in Nat /\ Len(s) # 0 /\ Len(t) = Len(s) - 1
      /\ \A i \in 1 .. Len(t) : t[i] = s[i + 1]
      /\ Head(s) = s[1]
  BY HeadTailProperties, LenProperties, EmptySeq
<1> HIDE DEF t
<1>2. Len(s) = 1 <=> t = <<>>
  BY <1>1, EmptySeq
<1>3. DOMAIN s = 1 .. Len(s) /\ DOMAIN t = 1 .. Len(s) - 1
  BY <1>1, LenProperties
<1>4. ASSUME NEW x \in ToSet(s) PROVE x \in {s[1]} \cup ToSet(t)
  <2>1. PICK i \in 1 .. Len(s) : x = s[i]
    BY <1>3 DEF ToSet
  <2>2. i # 1 => i - 1 \in 1 .. Len(s) - 1 /\ t[i - 1] = s[i]
    BY <1>1
  <2> QED
    BY <1>3, <2>1, <2>2 DEF ToSet
<1>5. ASSUME NEW x \in {s[1]} \cup ToSet(t) PROVE x \in ToSet(s)
  <2>1. CASE x = s[1]
    BY <1>1, <1>3, <2>1 DEF ToSet
  <2>2. CASE x \in ToSet(t)
    <3>1. PICK i \in 1 .. Len(s) - 1 : x = t[i]
      BY <1>3, <2>2 DEF ToSet
    <3>2. i + 1 \in 1 .. Len(s) /\ x = s[i + 1]
      BY <1>1, <3>1
    <3> QED
      BY <1>3, <3>2 DEF ToSet
  <2> QED
    BY <2>1, <2>2
<1> QED
  BY <1>1, <1>2, <1>4, <1>5 DEF t

(* What a step of a caller does: at most one sink receives the event it is *)
(* busy with, nothing of other callers changes.                            *)
LEMMA StepsReceive ==
  ASSUME DispatchInv, NEW c \in Callers, Step(c)
  PROVE  /\ \/ received' = received
            \/ /\ pc[c] \in {"pipeline", "process", "fanout"}
               /\ \E s \in Sinks : /\ Receive(s, Head(queue[c]))
                                   /\ pc[c] = "pipeline" => s = "domain"
         /\ \E step \in Steps : pc' = [pc EXCEPT ![c] = step]
         /\ \E q \in Seq(Event) : queue' = [queue EXCEPT ![c] = q]
         /\ \E n : stage' = [stage EXCEPT ![c] = n]
         /\ \E t : targets' = [targets EXCEPT ![c] = t]
         /\ UNCHANGED applied
<1> USE DEF Fail, Goto, StartProcessors, NextProcessor, StartEvent, Steps
<1>0. /\ queue[c] \in Seq(Event) /\ <<>> \in Seq(Event) /\ queue \in [Callers -> Seq(Event)]
      /\ pc[c] \in Steps /\ pc \in [Callers -> Steps]
      /\ queue = [queue EXCEPT ![c] = queue[c]] /\ pc = [pc EXCEPT ![c] = pc[c]]
      /\ stage = [stage EXCEPT ![c] = stage[c]] /\ targets = [targets EXCEPT ![c] = targets[c]]
  BY DEF DispatchInv, TypeOK
<1>1. pc[c] = "fanout" => Head(targets[c]) \in Sinks
  <2> SUFFICES ASSUME pc[c] = "fanout" PROVE Head(targets[c]) \in Sinks
    OBVIOUS
  <2>1. targets[c] \in Seq(Contexts) /\ targets[c] # <<>>
    BY DEF DispatchInv, On, TypeOK
  <2> QED
    BY <2>1, HeadTailProperties DEF Sinks
<1>2. "domain" \in Sinks /\ "audit" \in Sinks
  BY DEF Sinks
<1>3. pc[c] = "process" => Tail(queue[c]) \in Seq(Event)
  BY HeadOfQueue DEF DispatchInv
<1>4. CASE RunMiddleware(c)
  BY <1>0, <1>4 DEF RunMiddleware
<1>5. CASE PublishToDomainBus(c)
  BY <1>0, <1>2, <1>5 DEF PublishToDomainBus
<1>6. CASE StartTransforming(c)
  BY <1>0, <1>6 DEF StartTransforming
<1>7. CASE PublishIntegrationEvent(c)
  BY <1>0, <1>1, <1>7 DEF PublishIntegrationEvent
<1>8. CASE SaveAudit(c)
  BY <1>0, <1>2, <1>8 DEF SaveAudit
<1>9. CASE NextEvent(c)
  BY <1>0, <1>3, <1>9 DEF NextEvent
<1>10. CASE Commit(c)
  BY <1>0, <1>10 DEF Commit
<1> QED
  BY <1>4, <1>5, <1>6, <1>7, <1>8, <1>9, <1>10 DEF Step

LEMMA StepReceives ==
  ASSUME DispatchInv, NEW c \in Callers, Step(c), received' # received
  PROVE  \E s \in Sinks, e \in Event :
           /\ e = Head(queue[c]) /\ Receive(s, e)
           /\ pc[c] \in {"pipeline", "process", "fanout"}
           /\ pc[c] = "pipeline" => s = "domain"
<1> DEFINE h == Head(queue[c])
<1>0. \/ received' = received
      \/ /\ pc[c] \in {"pipeline", "process", "fanout"}
         /\ \E s \in Sinks : /\ Receive(s, h)
                             /\ pc[c] = "pipeline" => s = "domain"
  BY StepsReceive, Zenon
<1> HIDE DEF h
<1>1. /\ pc[c] \in {"pipeline", "process", "fanout"}
      /\ \E s \in Sinks : Receive(s, h) /\ (pc[c] = "pipeline" => s = "domain")
  BY <1>0
<1>2. h \in Event
  BY <1>1, HeadOfQueue DEF DispatchInv, h
<1>3. PICK s \in Sinks : Receive(s, h) /\ (pc[c] = "pipeline" => s = "domain")
  BY <1>1
<1> QED
  BY <1>1, <1>2, <1>3 DEF h

LEMMA Receives ==
  ASSUME TypeOK, NEW s \in Sinks, NEW e \in Event, Receive(s, e)
  PROVE  /\ received' \in [Sinks -> Seq(Event)]
         /\ \A r \in Sinks : ToSet(received'[r]) =
              IF r = s THEN ToSet(received[r]) \cup {e} ELSE ToSet(received[r])
<1>1. received \in [Sinks -> Seq(Event)]
  BY DEF TypeOK
<1>2. Append(received[s], e) \in Seq(Event)
      /\ ToSet(Append(received[s], e)) = ToSet(received[s]) \cup {e}
  BY <1>1, AppendProperties, ToSetAppend
<1> QED
  BY <1>1, <1>2 DEF Receive

LEMMA Received ==
  ASSUME TypeOK, NEW s \in Sinks, NEW e \in Event, Receive(s, e)
  PROVE  Got(s, e)'
<1>1. ToSet(received'[s]) = ToSet(received[s]) \cup {e}
  BY Receives
<1> QED
  BY <1>1 DEF Got

(* What a sink has, it keeps; the sink of a step has the event after it.   *)
LEMMA GotStays ==
  ASSUME TypeOK, received' = received \/ \E s \in Sinks, e \in Event : Receive(s, e)
  PROVE  /\ received' \in [Sinks -> Seq(Event)]
         /\ \A r \in Sinks, e \in Event : Got(r, e) => Got(r, e)'
<1>1. received \in [Sinks -> Seq(Event)]
  BY DEF TypeOK
<1>2. CASE received' = received
  BY <1>1, <1>2 DEF Got
<1>3. CASE \E s \in Sinks, e \in Event : Receive(s, e)
  BY <1>3, Receives DEF Got
<1> QED
  BY <1>2, <1>3

LEMMA ThroughStays ==
  ASSUME TypeOK, received' = received \/ \E s \in Sinks, e \in Event : Receive(s, e),
         NEW e \in Event, NEW p
  PROVE  Through(p, e) => Through(p, e)'
<1>1. \A s \in ToSet(Targets(e)) : s \in Sinks
  BY TargetsType, ElementOfSeq DEF ToSet, Sinks
<1>2. "audit" \in Sinks
  BY DEF Sinks
<1>3. Targets(e)' = Targets(e) /\ ShouldAudit(e)' = ShouldAudit(e)
  BY DEF Targets, ShouldAudit
<1> QED
  BY <1>1, <1>2, <1>3, GotStays DEF Through

LEMMA OnStays ==
  ASSUME TypeOK, received' = received \/ \E s \in Sinks, e \in Event : Receive(s, e),
         NEW c \in Callers, On(c),
         pc'[c] = pc[c], queue'[c] = queue[c], stage'[c] = stage[c], targets'[c] = targets[c]
  PROVE  On(c)'
<1>1. CASE pc[c] \notin {"process", "fanout"}
  BY <1>1 DEF On
<1>2. CASE pc[c] \in {"process", "fanout"}
  <2>1. PICK e \in Event : e = Head(queue[c])
    BY <1>2, HeadOfQueue
  <2>2. Head(queue[c])' = e /\ "domain" \in Sinks
    BY <2>1 DEF Sinks
  <2>3. \A p : Through(p, e) => Through(p, e)'
    BY ThroughStays
  <2>4. \A s \in Sinks : Got(s, e) => Got(s, e)'
    BY GotStays
  <2>5. \A s \in ToSet(Targets(e)) : s \in Sinks
    BY TargetsType, ElementOfSeq DEF ToSet, Sinks
  <2>6. Targets(e)' = Targets(e)
    BY DEF Targets
  <2>7. /\ Dropping \/ Got("domain", e)
        /\ \A i \in 1 .. stage[c] - 1 : Through(Processors[i], e)
        /\ pc[c] = "fanout" =>
             /\ stage[c] <= Len(Processors)
             /\ Processors[stage[c]] = "integration"
             /\ targets[c] # <<>>
             /\ \A s \in ToSet(Targets(e)) : Got(s, e) \/ s \in ToSet(targets[c])
    BY <1>2, <2>1 DEF On
  <2>8. (Dropping \/ Got("domain", e))'
    BY <2>2, <2>4, <2>7
  <2>9. (\A i \in 1 .. stage[c] - 1 : Through(Processors[i], e))'
    BY <2>3, <2>7
  <2>10. (pc[c] = "fanout" =>
             /\ stage[c] <= Len(Processors)
             /\ Processors[stage[c]] = "integration"
             /\ targets[c] # <<>>
             /\ \A s \in ToSet(Targets(e)) : Got(s, e) \/ s \in ToSet(targets[c]))'
    BY <2>4, <2>5, <2>6, <2>7
  <2> QED
    BY <1>2, <2>2, <2>8, <2>9, <2>10 DEF On
<1> QED
  BY <1>1, <1>2

(* The caller's own part of a step.                                        *)
Moves(c, p, q, n, t) ==
  /\ pc' = [pc EXCEPT ![c] = p]
  /\ queue' = [queue EXCEPT ![c] = q]
  /\ stage' = [stage EXCEPT ![c] = n]
  /\ targets' = [targets EXCEPT ![c] = t]

LEMMA StepsMove ==
  ASSUME DispatchInv, NEW c \in Callers, Step(c)
  PROVE  /\ \E p \in Steps, q \in Seq(Event), n \in 1 .. Len(Processors) + 1, t \in Seq(Contexts) :
              /\ Moves(c, p, q, n, t)
              /\ p \in {"pipeline", "process", "fanout"} => q # <<>>
         /\ pending' \in {pending, <<>>} /\ applied' = applied
         /\ \/ failures' = failures
            \/ failures < MaxFailures /\ failures' = failures + 1
<1> USE DEF Goto, StartProcessors, NextProcessor, StartEvent
<1> DEFINE N == 1 .. Len(Processors) + 1
           Good == \E p \in Steps, q \in Seq(Event), n \in N, t \in Seq(Contexts) :
                     /\ Moves(c, p, q, n, t)
                     /\ p \in {"pipeline", "process", "fanout"} => q # <<>>
           Rest == /\ pending' \in {pending, <<>>} /\ applied' = applied
                   /\ \/ failures' = failures
                      \/ failures < MaxFailures /\ failures' = failures + 1
<1> SUFFICES Good /\ Rest
  OBVIOUS
<1>0. /\ queue[c] \in Seq(Event) /\ <<>> \in Seq(Event)
      /\ pc[c] \in Steps /\ stage[c] \in N /\ 1 \in N /\ targets[c] \in Seq(Contexts)
      /\ stage[c] <= Len(Processors) => stage[c] + 1 \in N
      /\ pc[c] \in {"pipeline", "process", "fanout"} => queue[c] # <<>>
  BY DispatchAssumption DEF DispatchInv, TypeOK
<1>1. /\ \A q : queue' = queue => queue' = [queue EXCEPT ![c] = queue[c]]
      /\ pc' = pc => pc' = [pc EXCEPT ![c] = pc[c]]
      /\ stage' = stage => stage' = [stage EXCEPT ![c] = stage[c]]
      /\ targets' = targets => targets' = [targets EXCEPT ![c] = targets[c]]
  BY DEF DispatchInv, TypeOK
<1>2. "idle" \in Steps /\ "pipeline" \in Steps /\ "process" \in Steps /\ "fanout" \in Steps
      /\ "commit" \in Steps
  BY DEF Steps
<1> HIDE DEF N
<1>3. ASSUME Fail(c), UNCHANGED stage, UNCHANGED targets PROVE Good
  BY <1>0, <1>1, <1>2, <1>3 DEF Fail, Moves
<1> HIDE DEF Good
<1>4. CASE RunMiddleware(c)
  <2>1. Rest
    BY <1>4 DEF RunMiddleware, Fail
  <2>2. ASSUME UNCHANGED <<pc, queue, stage, targets>> PROVE Good
    BY <1>0, <1>1, <1>4, <2>2 DEF RunMiddleware, Moves, Good
  <2>3. ASSUME StartProcessors(c) /\ UNCHANGED <<queue, targets>> PROVE Good
    BY <1>0, <1>1, <1>2, <1>4, <2>3 DEF RunMiddleware, Moves, Good
  <2> QED
    BY <1>3, <1>4, <2>1, <2>2, <2>3 DEF RunMiddleware
<1>5. CASE PublishToDomainBus(c)
  <2>1. Rest
    BY <1>5 DEF PublishToDomainBus, Fail
  <2>2. ASSUME StartProcessors(c) /\ UNCHANGED <<queue, targets>> PROVE Good
    BY <1>0, <1>1, <1>2, <1>5, <2>2 DEF PublishToDomainBus, Moves, Good
  <2> QED
    BY <1>3, <1>5, <2>1, <2>2 DEF PublishToDomainBus
<1>6. CASE StartTransforming(c)
  <2> DEFINE to == Targets(Head(queue[c]))
  <2>1. Rest /\ queue' = queue /\ targets' = [targets EXCEPT ![c] = to]
        /\ pc[c] = "process" /\ stage[c] <= Len(Processors)
    BY <1>6 DEF StartTransforming
  <2>2. to \in Seq(Contexts)
    BY <2>1, HeadOfQueue, TargetsType DEF DispatchInv
  <2>3. \/ NextProcessor(c)
        \/ Goto(c, "fanout") /\ UNCHANGED stage
    BY <1>6 DEF StartTransforming
  <2> HIDE DEF to
  <2>4. ASSUME NextProcessor(c) PROVE Good
    BY <1>0, <1>1, <1>2, <2>1, <2>2, <2>4 DEF Moves, Good
  <2>5. ASSUME Goto(c, "fanout") /\ UNCHANGED stage PROVE Good
    BY <1>0, <1>1, <1>2, <2>1, <2>2, <2>5 DEF Moves, Good
  <2> QED
    BY <2>1, <2>3, <2>4, <2>5
<1>7. CASE PublishIntegrationEvent(c)
  <2>1. Rest /\ pc[c] = "fanout"
    BY <1>7 DEF PublishIntegrationEvent, Fail
  <2>2. targets[c] \in Seq(Contexts) /\ targets[c] # <<>> /\ stage[c] <= Len(Processors)
    BY <1>0, <2>1 DEF DispatchInv, On
  <2>3. Tail(targets[c]) \in Seq(Contexts)
    BY <2>2, HeadTailProperties
  <2>4. ASSUME /\ targets' = [targets EXCEPT ![c] = Tail(@)] /\ UNCHANGED queue
               /\ (NextProcessor(c) \/ UNCHANGED <<pc, stage>>)
        PROVE  Good
    BY <1>0, <1>1, <1>2, <2>1, <2>2, <2>3, <2>4 DEF Moves, Good
  <2> QED
    BY <1>3, <1>7, <2>1, <2>4 DEF PublishIntegrationEvent
<1>8. CASE SaveAudit(c)
  <2>1. Rest /\ pc[c] = "process" /\ stage[c] <= Len(Processors) /\ UNCHANGED targets
    BY <1>8 DEF SaveAudit, Fail
  <2>2. ASSUME NextProcessor(c) /\ UNCHANGED queue PROVE Good
    BY <1>0, <1>1, <1>2, <2>1, <2>2 DEF Moves, Good
  <2> QED
    BY <1>3, <1>8, <2>1, <2>2 DEF SaveAudit
<1>9. CASE NextEvent(c)
  <2>1. Rest /\ pc[c] = "process" /\ UNCHANGED <<stage, targets>>
        /\ queue' = [queue EXCEPT ![c] = Tail(@)]
    BY <1>9 DEF NextEvent
  <2>2. /\ Tail(queue[c]) \in Seq(Event) /\ Len(Tail(queue[c])) = Len(queue[c]) - 1
        /\ Len(queue[c]) \in Nat
    BY <2>1, HeadOfQueue DEF DispatchInv
  <2>3. Tail(queue[c]) = <<>> => Len(queue[c]) = 1
    <3> DEFINE rest == Tail(queue[c])
    <3>1. rest \in Seq(Event) /\ Len(rest) = Len(queue[c]) - 1 /\ Len(queue[c]) \in Nat
      BY <2>2
    <3> HIDE DEF rest
    <3>2. rest = <<>> => Len(queue[c]) = 1
      BY <3>1, EmptySeq
    <3> QED
      BY <3>2 DEF rest
  <2>4. ASSUME Len(queue[c]) = 1 /\ Goto(c, "commit") PROVE Good
    BY <1>0, <1>1, <1>2, <2>1, <2>2, <2>4 DEF Moves, Good
  <2>5. ASSUME Len(queue[c]) # 1 /\ Goto(c, "pipeline") PROVE Good
    BY <1>0, <1>1, <1>2, <2>1, <2>2, <2>3, <2>5 DEF Moves, Good
  <2> QED
    BY <1>9, <2>4, <2>5 DEF NextEvent
<1>10. CASE Commit(c)
  <2>1. Rest /\ Goto(c, "idle") /\ UNCHANGED <<queue, stage, targets>>
    BY <1>10 DEF Commit
  <2> QED
    BY <1>0, <1>1, <1>2, <2>1 DEF Moves, Good
<1> QED
  BY <1>4, <1>5, <1>6, <1>7, <1>8, <1>9, <1>10 DEF Step

LEMMA TypeStep ==
  ASSUME DispatchInv, [Next]_vars
  PROVE  TypeOK'
<1> USE DEF StartEvent, Goto
<1>0. /\ TypeOK /\ <<>> \in Seq(Event) /\ MaxEvents \in Nat /\ MaxFailures \in Nat
      /\ {"idle", "pipeline", "process", "fanout", "commit"} = Steps
  BY DispatchAssumption DEF DispatchInv, Steps
<1>1. CASE UNCHANGED vars
  BY <1>0, <1>1 DEF vars, TypeOK
<1>2. CASE Apply
  <2>1. applied + 1 \in Event /\ applied + 1 \in 0 .. MaxEvents
    BY <1>0, <1>2 DEF Apply, Event, TypeOK
  <2>2. pending' \in Seq(Event)
    BY <1>0, <1>2, <2>1, AppendProperties DEF Apply, TypeOK
  <2> QED
    BY <1>0, <1>2, <2>1, <2>2 DEF Apply, TypeOK
<1>3. ASSUME NEW m \in Middlewares, Use(m) PROVE TypeOK'
  BY <1>0, <1>3 DEF Use, TypeOK
<1>4. ASSUME NEW c \in Callers, DispatchEventsForAggregate(c) PROVE TypeOK'
  BY <1>0, <1>4 DEF DispatchEventsForAggregate, TypeOK
<1>5. ASSUME NEW c \in Callers, Step(c) PROVE TypeOK'
  <2>1. received' \in [Sinks -> Seq(Event)]
    <3>1. received' = received \/ \E s \in Sinks, e \in Event : Receive(s, e)
      BY <1>5, StepReceives
    <3> QED
      BY <1>0, <3>1, GotStays
  <2>2. PICK p \in Steps, q \in Seq(Event), n \in 1 .. Len(Processors) + 1, t \in Seq(Contexts) :
          /\ Moves(c, p, q, n, t)
          /\ p \in {"pipeline", "process", "fanout"} => q # <<>>
    BY <1>5, StepsMove
  <2>3. /\ pending' \in Seq(Event) /\ applied' = applied
        /\ \/ failures' = failures
           \/ failures < MaxFailures /\ failures' = failures + 1
    BY <1>0, <1>5, StepsMove DEF TypeOK
  <2>4. failures' \in 0 .. MaxFailures
    BY <1>0, <2>3 DEF TypeOK
  <2> QED
    BY <1>0, <2>1, <2>2, <2>3, <2>4 DEF TypeOK, Moves
<1> QED
  BY <1>1, <1>2, <1>3, <1>4, <1>5 DEF Next

LEMMA OnStep ==
  ASSUME DispatchInv, [Next]_vars, NEW c \in Callers
  PROVE  On(c)'
<1> USE DEF StartEvent, Goto, StartProcessors, NextProcessor
<1>0. /\ TypeOK /\ On(c) /\ pc \in [Callers -> Steps] /\ queue \in [Callers -> Seq(Event)]
      /\ stage \in [Callers -> 1 .. Len(Processors) + 1] /\ targets \in [Callers -> Seq(Contexts)]
      /\ received \in [Sinks -> Seq(Event)] /\ Len(Processors) \in Nat
      /\ "domain" \in Sinks /\ "audit" \in Sinks
  BY DispatchAssumption DEF DispatchInv, TypeOK, Sinks
<1>1. ASSUME UNCHANGED <<pc, queue, stage, targets, received>> PROVE On(c)'
  BY <1>0, <1>1, OnStays
<1>2. CASE UNCHANGED vars
  BY <1>1, <1>2 DEF vars
<1>3. CASE Apply
  BY <1>1, <1>3 DEF Apply
<1>4. ASSUME NEW m \in Middlewares, Use(m) PROVE On(c)'
  BY <1>1, <1>4 DEF Use
<1>5. ASSUME NEW d \in Callers, DispatchEventsForAggregate(d) PROVE On(c)'
  <2>1. CASE c = d
    BY <1>0, <1>5, <2>1 DEF DispatchEventsForAggregate, On
  <2>2. CASE c # d
    BY <1>0, <1>5, <2>2, OnStays DEF DispatchEventsForAggregate
  <2> QED
    BY <2>1, <2>2
<1>6. ASSUME NEW d \in Callers, Step(d) PROVE On(c)'
  <2>1. received' = received \/ \E s \in Sinks, e \in Event : Receive(s, e)
    BY <1>6, StepReceives
  <2>2. CASE c # d
    <3>1. UNCHANGED <<pc[c], queue[c], stage[c], targets[c]>>
      BY <1>0, <1>6, <2>2, StepsMove DEF Moves
    <3> QED
      BY <1>0, <2>1, <3>1, OnStays
  <2>3. CASE c = d
    <3>1. ASSUME pc'[c] \in {"idle", "pipeline"} PROVE On(c)'
      BY <3>1 DEF On
    <3>2. ASSUME Fail(c) PROVE On(c)'
      BY <1>0, <3>1, <3>2 DEF Fail
    <3>3. ASSUME pc'[c] = "process", queue'[c] = queue[c], NEW e \in Event, e = Head(queue[c]),
                 (Dropping \/ Got("domain", e))',
                 \A i \in 1 .. stage'[c] - 1 : Through(Processors[i], e)'
          PROVE  On(c)'
      BY <3>3 DEF On
    <3>4. CASE RunMiddleware(c)
      <4>1. pc[c] = "pipeline" /\ Head(queue[c]) \in Event
        BY <1>0, <3>4, HeadOfQueue DEF RunMiddleware
      <4>2. CASE UNCHANGED <<pc, queue, stage>>
        BY <3>1, <4>1, <4>2
      <4>3. CASE Dropping /\ StartProcessors(c) /\ UNCHANGED queue
        BY <1>0, <3>3, <4>1, <4>3
      <4> QED
        BY <3>2, <3>4, <4>2, <4>3 DEF RunMiddleware
    <3>5. CASE PublishToDomainBus(c)
      <4>1. PICK e \in Event : e = Head(queue[c])
        BY <1>0, <3>5, HeadOfQueue DEF PublishToDomainBus
      <4>2. CASE Receive("domain", e) /\ StartProcessors(c) /\ UNCHANGED queue
        <5>1. Got("domain", e)'
          BY <1>0, <4>2, Received
        <5> QED
          BY <1>0, <3>3, <4>1, <4>2, <5>1
      <4> QED
        BY <3>2, <3>5, <4>1, <4>2 DEF PublishToDomainBus
    <3>6. ASSUME pc[c] \in {"process", "fanout"}, NEW e \in Event, e = Head(queue[c])
          PROVE  /\ (Dropping \/ Got("domain", e))'
                 /\ \A i \in 1 .. stage[c] - 1 : Through(Processors[i], e)'
      <4>1. /\ Dropping \/ Got("domain", e)
            /\ \A i \in 1 .. stage[c] - 1 : Through(Processors[i], e)
        BY <1>0, <3>6 DEF On
      <4>2. \A p : Through(p, e) => Through(p, e)'
        BY <1>0, <2>1, ThroughStays
      <4>3. Got("domain", e) => Got("domain", e)'
        BY <1>0, <2>1, GotStays
      <4> QED
        BY <4>1, <4>2, <4>3
    <3>7. ASSUME pc[c] \in {"process", "fanout"}, stage[c] <= Len(Processors),
                 NEW e \in Event, e = Head(queue[c]), queue' = queue,
                 NextProcessor(c), NEW p, p = Processors[stage[c]], Through(p, e)'
          PROVE  On(c)'
      <4>1. pc'[c] = "process" /\ stage'[c] = stage[c] + 1 /\ stage[c] \in Nat
        BY <1>0, <3>7
      <4>2. \A i \in 1 .. stage'[c] - 1 : i \in 1 .. stage[c] - 1 \/ i = stage[c]
        BY <4>1
      <4>3. \A i \in 1 .. stage[c] - 1 : Through(Processors[i], e)'
        BY <3>6, <3>7
      <4>4. \A i \in 1 .. stage'[c] - 1 : Through(Processors[i], e)'
        BY <3>7, <4>2, <4>3
      <4> QED
        BY <3>3, <3>6, <3>7, <4>1, <4>4
    <3>8. CASE StartTransforming(c)
      <4>1. PICK e \in Event : e = Head(queue[c])
        BY <1>0, <3>8, HeadOfQueue DEF StartTransforming
      <4>2. /\ pc[c] = "process" /\ stage[c] <= Len(Processors) /\ Processors[stage[c]] = "integration"
            /\ targets' = [targets EXCEPT ![c] = Targets(e)] /\ UNCHANGED <<queue, received>>
        BY <3>8, <4>1 DEF StartTransforming
      <4>3. CASE Targets(e) = <<>> /\ NextProcessor(c)
        <5>1. ToSet(Targets(e)) = {} /\ Targets(e)' = Targets(e)
          BY <4>3 DEF ToSet, Targets
        <5>2. Through("integration", e)'
          BY <5>1 DEF Through
        <5> QED
          BY <3>7, <4>1, <4>2, <4>3, <5>2
      <4>4. CASE Targets(e) # <<>> /\ Goto(c, "fanout") /\ UNCHANGED stage
        <5>1. Targets(e)' = Targets(e) /\ targets'[c] = Targets(e) /\ pc'[c] = "fanout"
          BY <1>0, <4>2, <4>4 DEF Targets
        <5>2. /\ (Dropping \/ Got("domain", e))'
              /\ \A i \in 1 .. stage[c] - 1 : Through(Processors[i], e)'
          BY <3>6, <4>1, <4>2
        <5> QED
          BY <4>1, <4>2, <4>4, <5>1, <5>2 DEF On
      <4> QED
        BY <3>8, <4>1, <4>3, <4>4 DEF StartTransforming
    <3>9. CASE PublishIntegrationEvent(c)
      <4>1. PICK e \in Event : e = Head(queue[c])
        BY <1>0, <3>9, HeadOfQueue DEF PublishIntegrationEvent
      <4>2. /\ pc[c] = "fanout" /\ stage[c] <= Len(Processors) /\ Processors[stage[c]] = "integration"
            /\ targets[c] # <<>> /\ targets[c] \in Seq(Contexts)
            /\ \A s \in ToSet(Targets(e)) : Got(s, e) \/ s \in ToSet(targets[c])
        BY <1>0, <3>9, <4>1 DEF PublishIntegrationEvent, On
      <4>3. CASE /\ Receive(Head(targets[c]), e)
                 /\ targets' = [targets EXCEPT ![c] = Tail(@)]
                 /\ IF Len(targets[c]) = 1 THEN NextProcessor(c) ELSE UNCHANGED <<pc, stage>>
                 /\ UNCHANGED queue
        <5> DEFINE rest == Tail(targets[c])
        <5>0. PICK s : s = Head(targets[c])
          OBVIOUS
        <5>1. /\ s \in Sinks /\ rest \in Seq(Contexts) /\ ToSet(targets[c]) = {s} \cup ToSet(rest)
              /\ Len(targets[c]) \in Nat /\ (Len(targets[c]) = 1 <=> rest = <<>>)
          BY <4>2, <5>0, HeadAndTail DEF Sinks
        <5>2. Got(s, e)'
          BY <1>0, <4>3, <5>0, <5>1, Received
        <5>3. \A r \in Sinks : Got(r, e) => Got(r, e)'
          BY <1>0, <2>1, GotStays
        <5>4. \A r \in ToSet(Targets(e)) : r \in Sinks
          BY TargetsType, ElementOfSeq DEF ToSet, Sinks
        <5>5. targets'[c] = rest
          BY <1>0, <4>3
        <5> HIDE DEF rest
        <5>6. \A r \in ToSet(Targets(e)) : Got(r, e)' \/ r \in ToSet(rest)
          <6> SUFFICES ASSUME NEW r \in ToSet(Targets(e)), r \notin ToSet(rest) PROVE Got(r, e)'
            OBVIOUS
          <6>1. CASE r = s
            BY <5>2, <6>1
          <6>2. CASE r # s
            BY <4>2, <5>1, <5>3, <5>4, <6>2
          <6> QED
            BY <6>1, <6>2
        <5>7. Targets(e)' = Targets(e)
          BY DEF Targets
        <5>8. CASE Len(targets[c]) = 1
          <6>1. ToSet(rest) = {}
            BY <5>1, <5>8 DEF ToSet
          <6>2. Through("integration", e)'
            BY <5>6, <5>7, <6>1 DEF Through
          <6> QED
            BY <3>7, <4>1, <4>2, <4>3, <5>8, <6>2
        <5>9. CASE Len(targets[c]) # 1
          <6>1. /\ (Dropping \/ Got("domain", e))'
                /\ \A i \in 1 .. stage[c] - 1 : Through(Processors[i], e)'
            BY <3>6, <4>1, <4>2
          <6>2. UNCHANGED <<pc, stage, queue>> /\ rest # <<>>
            BY <4>3, <5>1, <5>9
          <6> QED
            BY <4>1, <4>2, <5>5, <5>6, <5>7, <6>1, <6>2 DEF On
        <5> QED
          BY <5>8, <5>9
      <4> QED
        BY <3>2, <3>9, <4>1, <4>3 DEF PublishIntegrationEvent
    <3>10. CASE SaveAudit(c)
      <4>1. PICK e \in Event : e = Head(queue[c])
        BY <1>0, <3>10, HeadOfQueue DEF SaveAudit
      <4>2. /\ pc[c] = "process" /\ stage[c] <= Len(Processors) /\ Processors[stage[c]] = "audit"
        BY <3>10 DEF SaveAudit
      <4>3. CASE NextProcessor(c) /\ UNCHANGED queue /\ (ShouldAudit(e) => Receive("audit", e))
        <5>1. ShouldAudit(e) => Got("audit", e)'
          BY <1>0, <4>3, Received
        <5>2. Through("audit", e)'
          BY <5>1 DEF Through, ShouldAudit
        <5> QED
          BY <3>7, <4>1, <4>2, <4>3, <5>2
      <4> QED
        BY <3>2, <3>10, <4>1, <4>3 DEF SaveAudit
    <3>11. CASE NextEvent(c)
      <4>1. pc[c] = "process" /\ queue'[c] = Tail(queue[c])
        BY <1>0, <3>11 DEF NextEvent
      <4>2. CASE Len(queue[c]) = 1 /\ Goto(c, "commit")
        <5>1. Tail(queue[c]) = <<>>
          BY <1>0, <4>1, <4>2, HeadOfQueue, HeadAndTail
        <5> QED
          BY <1>0, <4>1, <4>2, <5>1 DEF On
      <4>3. CASE Goto(c, "pipeline")
        BY <1>0, <3>1, <4>3
      <4> QED
        BY <3>11, <4>2, <4>3 DEF NextEvent
    <3>12. CASE Commit(c)
      BY <1>0, <3>1, <3>12 DEF Commit
    <3> QED
      BY <1>6, <2>3, <3>4, <3>5, <3>8, <3>9, <3>10, <3>11, <3>12 DEF Step
  <2> QED
    BY <2>2, <2>3
<1> QED
  BY <1>2, <1>3, <1>4, <1>5, <1>6 DEF Next

LEMMA DispatchInit ==
  ASSUME Init
  PROVE  DispatchInv
<1>1. 1 \in 1 .. Len(Processors) + 1 /\ 0 \in 0 .. MaxEvents /\ 0 \in 0 .. MaxFailures
  BY DispatchAssumption
<1> QED
  BY <1>1 DEF Init, DispatchInv, TypeOK, On, Steps

LEMMA DispatchInvariance == Spec => []DispatchInv
<1>1. Init => DispatchInv
  BY DispatchInit
<1>2. DispatchInv /\ [Next]_vars => DispatchInv'
  BY TypeStep, OnStep DEF DispatchInv
<1> QED
  BY <1>1, <1>2, PTL DEF Spec

(* The variables keep their types.                                         *)
THEOREM TypeCorrect == Spec => []TypeOK
<1>1. DispatchInv => TypeOK
  BY DEF DispatchInv
<1> QED
  BY <1>1, DispatchInvariance, PTL

-----------------------------------------------------------------------------
(* Nobody hears of an event before the domain bus *)

LEMMA DomainStep ==
  ASSUME ~Dropping, DispatchInv, DomainFirst, [Next]_vars
  PROVE  DomainFirst'
<1>0. TypeOK /\ "domain" \in Sinks
  BY DEF DispatchInv, Sinks
<1>1. ASSUME UNCHANGED received PROVE DomainFirst'
  BY <1>1 DEF DomainFirst
<1>2. ASSUME NEW c \in Callers, Step(c), received' # received PROVE DomainFirst'
  <2>1. PICK s \in Sinks, e \in Event :
          /\ e = Head(queue[c]) /\ Receive(s, e)
          /\ pc[c] \in {"pipeline", "process", "fanout"}
          /\ pc[c] = "pipeline" => s = "domain"
    BY <1>2, StepReceives
  <2>2. s # "domain" => e \in ToSet(received["domain"])
    BY <2>1 DEF DispatchInv, On, Got
  <2>3. \A r \in Sinks : ToSet(received'[r]) =
          IF r = s THEN ToSet(received[r]) \cup {e} ELSE ToSet(received[r])
    BY <1>0, <2>1, Receives
  <2> QED
    BY <1>0, <2>2, <2>3 DEF DomainFirst
<1>3. CASE Apply \/ UNCHANGED vars
  BY <1>1, <1>3 DEF Apply, vars
<1>4. ASSUME NEW m \in Middlewares, Use(m) PROVE DomainFirst'
  BY <1>1, <1>4 DEF Use
<1>5. ASSUME NEW c \in Callers, DispatchEventsForAggregate(c) PROVE DomainFirst'
  BY <1>1, <1>5 DEF DispatchEventsForAggregate
<1> QED
  BY <1>1, <1>2, <1>3, <1>4, <1>5 DEF Next

(* No middleware dropping events, every event a sink outside received, the *)
(* domain bus received before: for any callers and interleaving of theirs, *)
(* processors and rules, however often a dispatch is repeated.             *)
THEOREM DomainHearsFirst ==
  ASSUME ~Dropping
  PROVE  Spec => []DomainFirst
<1>1. Init => DomainFirst
  BY DEF Init, DomainFirst, ToSet, Sinks
<1>2. DispatchInv /\ DomainFirst /\ [Next]_vars => DomainFirst'
  BY DomainStep
<1> QED
  BY <1>1, <1>2, DispatchInvariance, PTL DEF Spec

-----------------------------------------------------------------------------
(* The queues hold events in the order they were applied in.               *)
Rising(q, n) == \A i \in 1 .. Len(q) : q[i] <= n /\ \A j \in 1 .. i - 1 : q[j] < q[i]

OrderInv == Rising(pending, applied) /\ \A c \in Callers : Rising(queue[c], applied)

LEMMA EventsAreNumbers ==
  ASSUME NEW q \in Seq(Event)
  PROVE  \A i \in 1 .. Len(q) : q[i] \in Int
<1>1. \A i \in 1 .. Len(q) : q[i] \in Event
  BY ElementOfSeq
<1>2. \A e \in Event : e \in Int
  BY DispatchAssumption DEF Event
<1> QED
  BY <1>1, <1>2

LEMMA RisingAppend ==
  ASSUME NEW q \in Seq(Event), NEW n \in Nat, n + 1 \in Event, Rising(q, n)
  PROVE  Rising(Append(q, n + 1), n + 1)
<1>1. /\ Len(Append(q, n + 1)) = Len(q) + 1 /\ Len(q) \in Nat
      /\ \A i \in 1 .. Len(q) : Append(q, n + 1)[i] = q[i]
      /\ Append(q, n + 1)[Len(q) + 1] = n + 1
  BY AppendProperties, LenProperties
<1>2. \A i \in 1 .. Len(q) : q[i] \in Int
  BY EventsAreNumbers
<1> QED
  BY <1>1, <1>2 DEF Rising

LEMMA RisingTail ==
  ASSUME NEW q \in Seq(Event), q # <<>>, NEW n, Rising(q, n)
  PROVE  /\ Rising(Tail(q), n)
         /\ \A e \in ToSet(q) : e = Head(q) \/ Head(q) < e
         /\ \A e \in ToSet(Tail(q)) : e \in ToSet(q) /\ Head(q) < e
<1> DEFINE t == Tail(q)
<1>1. /\ t \in Seq(Event) /\ Len(t) = Len(q) - 1 /\ Len(q) \in Nat
      /\ \A i \in 1 .. Len(t) : t[i] = q[i + 1]
      /\ Head(q) = q[1]
  BY HeadTailProperties, LenProperties
<1> HIDE DEF t
<1>2. DOMAIN q = 1 .. Len(q) /\ DOMAIN t = 1 .. Len(q) - 1
  BY <1>1, LenProperties
<1>3. Rising(t, n)
  <2> SUFFICES ASSUME NEW i \in 1 .. Len(t)
               PROVE  t[i] <= n /\ \A j \in 1 .. i - 1 : t[j] < t[i]
    BY DEF Rising
  <2>1. i + 1 \in 1 .. Len(q) /\ t[i] = q[i + 1]
    BY <1>1
  <2>2. \A j \in 1 .. i - 1 : j + 1 \in 1 .. (i + 1) - 1 /\ t[j] = q[j + 1]
    BY <1>1
  <2> QED
    BY <2>1, <2>2 DEF Rising
<1>4. \A i \in 1 .. Len(q) : i # 1 => 1 \in 1 .. i - 1
  BY <1>1
<1>5. \A i \in 1 .. Len(q) : i = 1 \/ q[1] < q[i]
  BY <1>4 DEF Rising
<1>6. \A i \in 1 .. Len(q) - 1 : i + 1 \in 1 .. Len(q) /\ i + 1 # 1 /\ t[i] = q[i + 1]
  BY <1>1
<1> QED
  BY <1>1, <1>2, <1>3, <1>5, <1>6 DEF ToSet, t

(* How the queues change.                                                  *)
LEMMA QueuesMove ==
  ASSUME DispatchInv, NEW c \in Callers, Step(c)
  PROVE  /\ \A d \in Callers \ {c} : queue'[d] = queue[d] /\ pc'[d] = pc[d]
         /\ \/ queue'[c] = queue[c] /\ ~NextEvent(c) /\ (Commit(c) \/ pc'[c] # "idle")
            \/ Fail(c) /\ queue'[c] = <<>> /\ pc'[c] = "idle"
            \/ NextEvent(c) /\ queue'[c] = Tail(queue[c])
<1> USE DEF Goto, StartEvent, StartProcessors, NextProcessor
<1>0. queue \in [Callers -> Seq(Event)] /\ pc \in [Callers -> Steps]
  BY DEF DispatchInv, TypeOK
<1>1. \A d \in Callers \ {c} : queue'[d] = queue[d] /\ pc'[d] = pc[d]
  BY <1>0, StepsMove DEF Moves
<1>2. ASSUME Fail(c) PROVE Fail(c) /\ queue'[c] = <<>> /\ pc'[c] = "idle"
  BY <1>0, <1>2 DEF Fail
<1>3. CASE NextEvent(c)
  BY <1>0, <1>1, <1>3 DEF NextEvent
<1>4. ASSUME ~NextEvent(c)
      PROVE  \/ queue'[c] = queue[c] /\ (Commit(c) \/ pc'[c] # "idle")
             \/ Fail(c)
  <2>1. CASE RunMiddleware(c)
    BY <1>0, <2>1 DEF RunMiddleware
  <2>2. CASE PublishToDomainBus(c)
    BY <1>0, <2>2 DEF PublishToDomainBus
  <2>3. CASE StartTransforming(c)
    BY <1>0, <2>3 DEF StartTransforming
  <2>4. CASE PublishIntegrationEvent(c)
    BY <1>0, <2>4 DEF PublishIntegrationEvent
  <2>5. CASE SaveAudit(c)
    BY <1>0, <2>5 DEF SaveAudit
  <2>6. CASE Commit(c)
    BY <2>6 DEF Commit
  <2> QED
    BY <1>4, <2>1, <2>2, <2>3, <2>4, <2>5, <2>6 DEF Step
<1> QED
  BY <1>1, <1>2, <1>3, <1>4

LEMMA OrderStep ==
  ASSUME DispatchInv, OrderInv, [Next]_vars
  PROVE  OrderInv'
<1>0. /\ TypeOK /\ queue \in [Callers -> Seq(Event)] /\ pending \in Seq(Event)
      /\ applied \in Nat /\ applied <= MaxEvents /\ MaxEvents \in Nat
      /\ Rising(pending, applied) /\ \A c \in Callers : Rising(queue[c], applied)
  BY DispatchAssumption DEF DispatchInv, OrderInv, TypeOK
<1>1. \A n : Rising(<<>>, n)
  BY DEF Rising
<1>2. CASE Apply
  <2>1. /\ applied' = applied + 1 /\ applied + 1 \in Event
        /\ pending' = Append(pending, applied + 1) /\ queue' = queue
    BY <1>0, <1>2 DEF Apply, Event
  <2>2. Rising(pending, applied)' 
    BY <1>0, <2>1, RisingAppend
  <2>3. ASSUME NEW c \in Callers PROVE Rising(queue[c], applied)'
    <3>1. queue[c] \in Seq(Event)
      BY <1>0
    <3>2. \A i \in 1 .. Len(queue[c]) : queue[c][i] \in Int
      BY <3>1, EventsAreNumbers
    <3> QED
      BY <1>0, <2>1, <3>1, <3>2 DEF Rising
  <2> QED
    BY <2>2, <2>3 DEF OrderInv
<1>3. ASSUME NEW m \in Middlewares, Use(m) PROVE OrderInv'
  BY <1>0, <1>3 DEF Use, OrderInv
<1>4. CASE UNCHANGED vars
  BY <1>0, <1>4 DEF vars, OrderInv
<1>5. ASSUME NEW c \in Callers, DispatchEventsForAggregate(c) PROVE OrderInv'
  BY <1>0, <1>5 DEF DispatchEventsForAggregate, OrderInv
<1>6. ASSUME NEW c \in Callers, Step(c) PROVE OrderInv'
  <2>1. applied' = applied /\ (pending' = pending \/ pending' = <<>>)
    BY <1>0, <1>6, StepsMove
  <2>2. \A d \in Callers \ {c} : queue'[d] = queue[d]
    BY <1>0, <1>6, QueuesMove
  <2>3. Rising(queue'[c], applied)
    <3>1. CASE queue'[c] = queue[c] \/ queue'[c] = <<>>
      BY <1>0, <1>1, <3>1
    <3>2. CASE NextEvent(c) /\ queue'[c] = Tail(queue[c])
      <4>1. queue[c] # <<>> /\ queue[c] \in Seq(Event)
        BY <1>0, <3>2, HeadOfQueue DEF NextEvent
      <4> QED
        BY <1>0, <3>2, <4>1, RisingTail
    <3> QED
      BY <1>6, <3>1, <3>2, QueuesMove
  <2> QED
    BY <1>0, <1>1, <2>1, <2>2, <2>3 DEF OrderInv
<1> QED
  BY <1>2, <1>3, <1>4, <1>5, <1>6 DEF Next

-----------------------------------------------------------------------------
(* No event is lost *)

(* What was applied is pending, or was delivered; and a caller under way   *)
(* still has in its queue what was not delivered, all of which it will     *)
(* have delivered when it empties the aggregate.                           *)
WaitInv ==
  /\ \A e \in 1 .. applied : e \in ToSet(pending) \/ Delivered(e)
  /\ \A c \in Callers : pc[c] # "idle" =>
       \A e \in 1 .. applied : e \in ToSet(queue[c]) \/ Delivered(e)

LEMMA SinksAre ==
  ASSUME NEW e \in Event
  PROVE  SinksOf(e) \subseteq Sinks
<1>1. ToSet(Targets(e)) \subseteq Sinks
  BY TargetsType, ElementOfSeq DEF ToSet, Sinks
<1> QED
  BY <1>1 DEF SinksOf, Sinks

LEMMA DeliveredStays ==
  ASSUME TypeOK, received' = received \/ \E s \in Sinks, e \in Event : Receive(s, e),
         NEW e \in Event, Delivered(e)
  PROVE  Delivered(e)'
<1>1. \A s \in SinksOf(e) : Got(s, e)
  BY DEF Delivered, Got
<1>2. \A s \in SinksOf(e) : Got(s, e)'
  BY <1>1, SinksAre, GotStays
<1>3. SinksOf(e)' = SinksOf(e)
  BY DEF SinksOf, Targets, ShouldAudit
<1> QED
  BY <1>2, <1>3 DEF Delivered, Got

(* An event a caller is through with was delivered.                        *)
LEMMA DoneIsDelivered ==
  ASSUME DispatchInv, NEW c \in Callers, pc[c] = "process", stage[c] > Len(Processors)
  PROVE  Delivered(Head(queue[c]))
<1>1. PICK e \in Event : e = Head(queue[c])
  BY HeadOfQueue DEF DispatchInv
<1>2. Len(Processors) \in Nat /\ DOMAIN Processors = 1 .. Len(Processors)
      /\ stage[c] \in 1 .. Len(Processors) + 1
  BY DispatchAssumption, LenProperties DEF DispatchInv, TypeOK
<1>3. 1 .. stage[c] - 1 = 1 .. Len(Processors)
  BY <1>2
<1>4. /\ Dropping \/ Got("domain", e)
      /\ \A i \in 1 .. Len(Processors) : Through(Processors[i], e)
  BY <1>1, <1>3 DEF DispatchInv, On
<1>5. \A p \in ToSet(Processors) : Through(p, e)
  BY <1>2, <1>4 DEF ToSet
<1>6. /\ "integration" \in ToSet(Processors) => \A s \in ToSet(Targets(e)) : Got(s, e)
      /\ "audit" \in ToSet(Processors) /\ ShouldAudit(e) => Got("audit", e)
  BY <1>5 DEF Through
<1>7. \A s \in SinksOf(e) : Got(s, e)
  BY <1>4, <1>6 DEF SinksOf
<1> QED
  BY <1>1, <1>7 DEF Delivered, Got

LEMMA WaitStep ==
  ASSUME ~ApplyMeanwhile, DispatchInv, WaitInv, [Next]_vars
  PROVE  WaitInv'
<1>0. /\ TypeOK /\ queue \in [Callers -> Seq(Event)] /\ pending \in Seq(Event)
      /\ pc \in [Callers -> Steps] /\ applied \in Nat /\ applied <= MaxEvents /\ MaxEvents \in Nat
  BY DispatchAssumption DEF DispatchInv, TypeOK
<1>1. \A e \in 1 .. applied : e \in Event
  BY <1>0 DEF Event
<1>2. ASSUME received' = received, NEW e PROVE Delivered(e)' = Delivered(e)
  BY <1>2 DEF Delivered, SinksOf, Targets, ShouldAudit
<1>3. CASE Apply
  <2>1. /\ \A c \in Callers : pc[c] = "idle"
        /\ pc' = pc /\ received' = received
        /\ applied' = applied + 1 /\ pending' = Append(pending, applied + 1)
        /\ applied + 1 \in Event
    BY <1>0, <1>3 DEF Apply, Quiet, Event
  <2>2. ToSet(pending') = ToSet(pending) \cup {applied + 1}
    BY <1>0, <2>1, ToSetAppend
  <2>3. \A e \in 1 .. applied + 1 : e \in 1 .. applied \/ e = applied + 1
    BY <1>0
  <2> QED
    BY <1>2, <2>1, <2>2, <2>3 DEF WaitInv
<1>4. ASSUME UNCHANGED <<pending, applied, received, pc, queue>> PROVE WaitInv'
  BY <1>2, <1>4 DEF WaitInv
<1>5. ASSUME NEW c \in Callers, DispatchEventsForAggregate(c) PROVE WaitInv'
  <2>1. /\ UNCHANGED <<pending, applied, received>>
        /\ queue' = [queue EXCEPT ![c] = pending]
        /\ \A d \in Callers \ {c} : pc'[d] = pc[d]
    BY <1>0, <1>5 DEF DispatchEventsForAggregate, StartEvent, Goto
  <2> QED
    BY <1>0, <1>2, <2>1 DEF WaitInv
<1>6. ASSUME NEW c \in Callers, Step(c) PROVE WaitInv'
  <2>1. received' = received \/ \E s \in Sinks, e \in Event : Receive(s, e)
    BY <1>6, StepReceives
  <2>2. \A e \in 1 .. applied : Delivered(e) => Delivered(e)'
    BY <1>0, <1>1, <2>1, DeliveredStays
  <2>3. applied' = applied
    BY <1>6, StepsMove
  <2>4. /\ \A d \in Callers \ {c} : queue'[d] = queue[d] /\ pc'[d] = pc[d]
        /\ \/ queue'[c] = queue[c] /\ ~NextEvent(c) /\ (Commit(c) \/ pc'[c] # "idle")
           \/ Fail(c) /\ queue'[c] = <<>> /\ pc'[c] = "idle"
           \/ NextEvent(c) /\ queue'[c] = Tail(queue[c])
    BY <1>6, QueuesMove
  <2>5. ASSUME NEW d \in Callers, pc'[d] # "idle", NEW e \in 1 .. applied
        PROVE  e \in ToSet(queue'[d]) \/ Delivered(e)'
    <3>1. pc[d] # "idle"
      <4>1. CASE d = c
        BY <1>6, <4>1 DEF Step, RunMiddleware, PublishToDomainBus, StartTransforming,
           PublishIntegrationEvent, SaveAudit, NextEvent, Commit
      <4> QED
        BY <2>4, <2>5, <4>1
    <3>2. e \in ToSet(queue[d]) \/ Delivered(e)
      BY <3>1 DEF WaitInv
    <3>3. CASE queue'[d] = queue[d]
      BY <2>2, <3>2, <3>3
    <3>4. CASE d = c /\ NextEvent(c) /\ queue'[c] = Tail(queue[c])
      <4>1. pc[c] = "process" /\ stage[c] > Len(Processors)
        BY <3>4 DEF NextEvent
      <4>2. Delivered(Head(queue[c])) /\ queue[c] \in Seq(Event) /\ queue[c] # <<>>
        BY <1>0, <4>1, DoneIsDelivered, HeadOfQueue
      <4>3. ToSet(queue[c]) = {Head(queue[c])} \cup ToSet(Tail(queue[c]))
        BY <4>2, HeadAndTail
      <4> QED
        BY <2>2, <3>2, <3>4, <4>2, <4>3
    <3> QED
      BY <2>4, <2>5, <3>3, <3>4
  <2>6. ASSUME NEW e \in 1 .. applied PROVE e \in ToSet(pending') \/ Delivered(e)'
    <3>1. e \in ToSet(pending) \/ Delivered(e)
      BY DEF WaitInv
    <3>2. CASE pending' = pending
      BY <2>2, <3>1, <3>2
    <3>3. CASE pending' # pending
      <4>1. Commit(c)
        BY <1>6, <3>3 DEF Step, RunMiddleware, PublishToDomainBus, StartTransforming,
           PublishIntegrationEvent, SaveAudit, NextEvent
      <4>2. pc[c] = "commit" /\ queue[c] = <<>>
        BY <4>1 DEF Commit, DispatchInv, On
      <4>3. ToSet(queue[c]) = {}
        BY <4>2 DEF ToSet
      <4> QED
        BY <2>2, <4>2, <4>3 DEF WaitInv
    <3> QED
      BY <3>2, <3>3
  <2> QED
    BY <2>3, <2>5, <2>6 DEF WaitInv
<1> QED
  BY <1>3, <1>4, <1>5, <1>6 DEF Next, Use, vars

LEMMA WaitInit ==
  ASSUME Init
  PROVE  WaitInv
BY DEF Init, WaitInv

LEMMA WaitInvariance ==
  ASSUME ~ApplyMeanwhile
  PROVE  Spec => [](WaitInv /\ OrderInv)
<1>1. Init => WaitInv /\ OrderInv
  BY WaitInit DEF Init, OrderInv, Rising
<1>2. DispatchInv /\ WaitInv /\ OrderInv /\ [Next]_vars => (WaitInv /\ OrderInv)'
  BY WaitStep, OrderStep
<1> QED
  BY <1>1, <1>2, DispatchInvariance, PTL DEF Spec

(* No events being applied during a dispatch, an event is cleared from the *)
(* aggregate only when every sink it is due at has it: whatever rejects,   *)
(* however often a dispatch is repeated, and even when dispatches overlap. *)
THEOREM ClearedWasDelivered ==
  ASSUME ~ApplyMeanwhile
  PROVE  Spec => []ClearedWereDelivered
<1>1. WaitInv /\ OrderInv => ClearedWereDelivered
  BY DEF WaitInv, ClearedWereDelivered
<1>2. Spec => [](WaitInv /\ OrderInv)
  BY WaitInvariance
<1> QED
  BY <1>1, <1>2, PTL


(* Events come first in order *)

LEMMA PrefixIs ==
  ASSUME NEW T, NEW q \in Seq(T), NEW j \in 1 .. Len(q)
  PROVE  ToSet(SubSeq(q, 1, j)) = {q[i] : i \in 1 .. j}
<1>0. Len(q) \in Nat
  BY LenProperties
<1>1. /\ SubSeq(q, 1, j) \in Seq(T) /\ Len(SubSeq(q, 1, j)) = j
      /\ \A i \in 1 .. j : SubSeq(q, 1, j)[i] = q[i]
  BY <1>0, SubSeqProperties
<1>2. DOMAIN SubSeq(q, 1, j) = 1 .. j
  BY <1>1, LenProperties
<1> QED
  BY <1>1, <1>2 DEF ToSet

InOrder(s) ==
  \A j \in 1 .. Len(received[s]) : \A e \in 1 .. received[s][j] :
    s \in SinksOf(e) => \E i \in 1 .. j : received[s][i] = e

LEMMA InOrderIs ==
  ASSUME TypeOK, \A s \in Sinks : InOrder(s)
  PROVE  FirstReceivedInOrder
<1> SUFFICES ASSUME NEW s \in Sinks, NEW j \in DOMAIN received[s],
                    NEW e \in 1 .. received[s][j], s \in SinksOf(e)
             PROVE  e \in ToSet(SubSeq(received[s], 1, j))
  BY DEF FirstReceivedInOrder
<1>1. received[s] \in Seq(Event)
  BY DEF TypeOK
<1>2. j \in 1 .. Len(received[s])
  BY <1>1, LenProperties
<1>3. ToSet(SubSeq(received[s], 1, j)) = {received[s][i] : i \in 1 .. j}
  BY <1>1, <1>2, PrefixIs
<1>4. \E i \in 1 .. j : received[s][i] = e
  BY <1>2 DEF InOrder
<1> QED
  BY <1>3, <1>4

(* What a caller is busy with comes after nothing undelivered.             *)
LEMMA BeforeTheHead ==
  ASSUME DispatchInv, WaitInv, OrderInv, NEW c \in Callers,
         pc[c] \in {"pipeline", "process", "fanout"}, NEW e \in 1 .. Head(queue[c])
  PROVE  e \in Event /\ (e = Head(queue[c]) \/ Delivered(e))
<1>1. queue[c] \in Seq(Event) /\ queue[c] # <<>> /\ Rising(queue[c], applied)
  BY HeadOfQueue DEF DispatchInv, OrderInv
<1>2. PICK h : h = Head(queue[c])
  OBVIOUS
<1>3. h \in 1 .. applied /\ h \in Nat /\ applied \in 0 .. MaxEvents /\ MaxEvents \in Nat
  <2>1. h \in Event /\ 1 \in 1 .. Len(queue[c]) /\ h = queue[c][1]
    BY <1>1, <1>2, HeadTailProperties, EmptySeq, LenProperties
  <2>2. applied \in 0 .. MaxEvents /\ MaxEvents \in Nat
    BY DispatchAssumption DEF DispatchInv, TypeOK
  <2> QED
    BY <1>1, <2>1, <2>2 DEF Rising, Event
<1>4. e \in 1 .. applied /\ e \in Event /\ e <= h
  BY <1>2, <1>3 DEF Event
<1>5. \A x \in ToSet(queue[c]) : x = h \/ h < x
  BY <1>1, <1>2, RisingTail
<1>6. e \in ToSet(queue[c]) \/ Delivered(e)
  BY <1>4 DEF WaitInv
<1> QED
  BY <1>2, <1>3, <1>4, <1>5, <1>6

LEMMA InOrderStep ==
  ASSUME DispatchInv, WaitInv, OrderInv, NEW s \in Sinks, InOrder(s), [Next]_vars
  PROVE  InOrder(s)'
<1>0. TypeOK /\ received \in [Sinks -> Seq(Event)]
  BY DEF DispatchInv, TypeOK
<1>1. \A e : SinksOf(e)' = SinksOf(e)
  BY DEF SinksOf, Targets, ShouldAudit
<1>2. ASSUME received'[s] = received[s] PROVE InOrder(s)'
  BY <1>1, <1>2 DEF InOrder
<1>3. ASSUME NEW c \in Callers, Step(c), received' # received PROVE InOrder(s)'
  <2>1. PICK r \in Sinks, h \in Event :
          /\ h = Head(queue[c]) /\ Receive(r, h)
          /\ pc[c] \in {"pipeline", "process", "fanout"}
          /\ pc[c] = "pipeline" => r = "domain"
    BY <1>3, StepReceives
  <2>2. CASE r # s
    BY <1>0, <1>2, <2>1, <2>2 DEF Receive
  <2>3. CASE r = s
    <3> DEFINE old == received[s]
               n == Len(old)
               new == Append(old, h)
    <3>1. received'[s] = new
      BY <1>0, <2>1, <2>3 DEF Receive
    <3>2. old \in Seq(Event)
      BY <1>0
    <3> HIDE DEF old
    <3>3. /\ n \in Nat /\ Len(new) = n + 1 /\ new[n + 1] = h
          /\ \A i \in 1 .. n : new[i] = old[i]
      BY <3>2, AppendProperties, LenProperties
    <3> HIDE DEF new, n
    <3>4. \A j \in 1 .. n : \A e \in 1 .. old[j] :
            s \in SinksOf(e) => \E i \in 1 .. j : old[i] = e
      BY DEF InOrder, old, n
    <3>5. \A e \in 1 .. h : s \in SinksOf(e) => e = h \/ \E i \in 1 .. n : old[i] = e
      <4> SUFFICES ASSUME NEW e \in 1 .. h, s \in SinksOf(e), e # h
                   PROVE  \E i \in 1 .. n : old[i] = e
        OBVIOUS
      <4>1. Delivered(e)
        BY <2>1, BeforeTheHead
      <4>2. e \in ToSet(old) /\ DOMAIN old = 1 .. n
        BY <3>2, <4>1, LenProperties DEF Delivered, old, n
      <4> QED
        BY <4>2 DEF ToSet
    <3>6. ASSUME NEW j \in 1 .. n + 1, NEW e \in 1 .. new[j], s \in SinksOf(e)
          PROVE  \E i \in 1 .. j : new[i] = e
      <4>1. CASE j \in 1 .. n
        <5>1. PICK i \in 1 .. j : old[i] = e
          BY <3>3, <3>4, <3>6, <4>1
        <5> QED
          BY <3>3, <4>1, <5>1
      <4>2. CASE j = n + 1
        <5>1. e \in 1 .. h /\ (e = h \/ \E i \in 1 .. n : old[i] = e)
          BY <3>3, <3>5, <3>6, <4>2
        <5>2. \A i \in 1 .. n : i \in 1 .. j
          BY <3>3, <4>2
        <5> QED
          BY <3>3, <4>2, <5>1, <5>2
      <4> QED
        BY <3>3, <4>1, <4>2
    <3> QED
      BY <1>1, <3>1, <3>3, <3>6 DEF InOrder
  <2> QED
    BY <2>2, <2>3
<1>4. CASE Apply \/ UNCHANGED vars
  BY <1>2, <1>4 DEF Apply, vars
<1>5. ASSUME NEW m \in Middlewares, Use(m) PROVE InOrder(s)'
  BY <1>2, <1>5 DEF Use
<1>6. ASSUME NEW c \in Callers, DispatchEventsForAggregate(c) PROVE InOrder(s)'
  BY <1>2, <1>6 DEF DispatchEventsForAggregate
<1> QED
  BY <1>2, <1>3, <1>4, <1>5, <1>6 DEF Next

(* No events being applied during a dispatch, every sink receives the      *)
(* events due at it in their order, but for repetitions: before one of     *)
(* them it has received all that were applied earlier.  For any callers,   *)
(* overlapping or not, processors, rules and failures.                     *)
THEOREM OrderIsKept ==
  ASSUME ~ApplyMeanwhile
  PROVE  Spec => []FirstReceivedInOrder
<1> DEFINE Good == \A s \in Sinks : InOrder(s)
<1>1. Init => Good
  BY DEF Init, InOrder
<1>2. DispatchInv /\ WaitInv /\ OrderInv /\ Good /\ [Next]_vars => Good'
  BY InOrderStep
<1>3. DispatchInv /\ Good => FirstReceivedInOrder
  BY InOrderIs DEF DispatchInv
<1> HIDE DEF Good
<1>4. Spec => [](WaitInv /\ OrderInv)
  BY WaitInvariance
<1> QED
  BY <1>1, <1>2, <1>3, <1>4, DispatchInvariance, PTL DEF Spec

-----------------------------------------------------------------------------
(* Repetitions are due to failures *)

Occurrences(q, x) == {i \in DOMAIN q : q[i] = x}

LEMMA CountAppend ==
  ASSUME NEW T, NEW q \in Seq(T), NEW e \in T, NEW x
  PROVE  /\ Cardinality(Occurrences(q, x)) \in Nat
         /\ Cardinality(Occurrences(Append(q, e), x))
              = Cardinality(Occurrences(q, x)) + (IF x = e THEN 1 ELSE 0)
<1> DEFINE n == Len(q)
           new == Append(q, e)
<1>1. /\ n \in Nat /\ DOMAIN q = 1 .. n /\ DOMAIN new = 1 .. n + 1
      /\ new[n + 1] = e /\ \A i \in 1 .. n : new[i] = q[i]
  BY AppendProperties, LenProperties
<1>2. IsFiniteSet(1 .. n) /\ Occurrences(q, x) \subseteq 1 .. n
  BY <1>1, FS_Interval DEF Occurrences
<1>3. IsFiniteSet(Occurrences(q, x)) /\ Cardinality(Occurrences(q, x)) \in Nat
  BY <1>2, FS_Subset, FS_CardinalityType
<1> HIDE DEF new, n
<1>4. n + 1 \notin Occurrences(q, x)
  BY <1>1, <1>2
<1>5. CASE x = e
  <2>1. \A i : i \in Occurrences(new, x) <=> i \in Occurrences(q, x) \/ i = n + 1
    BY <1>1, <1>5 DEF Occurrences
  <2>2. Occurrences(new, x) = Occurrences(q, x) \cup {n + 1}
    BY <2>1
  <2> QED
    BY <1>3, <1>4, <1>5, <2>2, FS_AddElement DEF new
<1>6. CASE x # e
  <2>1. \A i : i \in Occurrences(new, x) <=> i \in Occurrences(q, x)
    BY <1>1, <1>6 DEF Occurrences
  <2>2. Occurrences(new, x) = Occurrences(q, x)
    BY <2>1
  <2> QED
    BY <1>3, <1>6, <2>2 DEF new
<1> QED
  BY <1>5, <1>6

(* The processors from n on take an event to sink s.                       *)
Later(s, n) ==
  \E i \in n .. Len(Processors) :
    \/ s = "audit" /\ Processors[i] = "audit"
    \/ s \in Contexts /\ Processors[i] = "integration"

(* The event caller c is busy with has still to come to sink s.            *)
Coming(c, s) ==
  \/ pc[c] = "pipeline"
  \/ pc[c] = "process" /\ Later(s, stage[c])
  \/ pc[c] = "fanout" /\ (s \in ToSet(targets[c]) \/ Later(s, stage[c] + 1))

(* Sink s may receive event e without a failure happening first.           *)
Ahead(s, e) ==
  \/ e > applied
  \/ Quiet /\ e \in ToSet(pending)
  \/ \E c \in Callers :
       /\ pc[c] # "idle" /\ e \in ToSet(queue[c])
       /\ e = Head(queue[c]) => Coming(c, s)

AloneInv ==
  /\ \A c, d \in Callers : pc[c] # "idle" /\ pc[d] # "idle" => c = d
  /\ \A c \in Callers : pc[c] = "fanout" => IsInjective(targets[c])

CountInv ==
  \A s \in Sinks, e \in Event :
    /\ Count(s, e) <= failures + 1
    /\ Ahead(s, e) => Count(s, e) <= failures

LEMMA LaterIs ==
  ASSUME IsInjective(Processors), NEW n \in 1 .. Len(Processors)
  PROVE  /\ \A s : Later(s, n + 1) => Later(s, n)
         /\ Processors[n] = "audit" => Later("audit", n) /\ ~Later("audit", n + 1)
         /\ Processors[n] = "integration" =>
              \A s \in Contexts : Later(s, n) /\ ~Later(s, n + 1)
         /\ \A m : ~Later("domain", m)
<1>1. Len(Processors) \in Nat /\ DOMAIN Processors = 1 .. Len(Processors)
      /\ "domain" \notin Contexts /\ "audit" \notin Contexts
  BY DispatchAssumption, LenProperties
<1>2. \A i \in n + 1 .. Len(Processors) : Processors[i] # Processors[n] /\ i \in n .. Len(Processors)
  BY <1>1 DEF IsInjective
<1>3. n \in n .. Len(Processors)
  BY <1>1
<1> QED
  BY <1>1, <1>2, <1>3 DEF Later

LEMMA NotToDomain ==
  \A m : ~Later("domain", m)
BY DispatchAssumption DEF Later

LEMMA InjectiveTail ==
  ASSUME NEW T, NEW q \in Seq(T), q # <<>>, IsInjective(q)
  PROVE  IsInjective(Tail(q)) /\ Head(q) \notin ToSet(Tail(q)) /\ Head(q) \in ToSet(q)
<1> DEFINE t == Tail(q)
<1>1. /\ Len(q) \in Nat /\ Len(q) # 0 /\ DOMAIN q = 1 .. Len(q) /\ Head(q) = q[1]
      /\ t \in Seq(T) /\ Len(t) = Len(q) - 1 /\ \A i \in 1 .. Len(t) : t[i] = q[i + 1]
  BY HeadTailProperties, LenProperties, EmptySeq
<1>2. DOMAIN t = 1 .. Len(q) - 1
  BY <1>1, LenProperties
<1> HIDE DEF t
<1>3. \A i, j \in 1 .. Len(q) : q[i] = q[j] => i = j
  BY <1>1 DEF IsInjective
<1>4. \A i \in 1 .. Len(q) - 1 : i + 1 \in 1 .. Len(q) /\ i + 1 # 1 /\ t[i] = q[i + 1]
  BY <1>1
<1>5. 1 \in 1 .. Len(q)
  BY <1>1
<1>6. \A i, j \in 1 .. Len(q) - 1 : t[i] = t[j] => i = j
  BY <1>3, <1>4
<1>7. \A i \in 1 .. Len(q) - 1 : t[i] # q[1]
  BY <1>3, <1>4, <1>5
<1> QED
  BY <1>1, <1>2, <1>5, <1>6, <1>7 DEF IsInjective, ToSet, t

(* What a step of a caller does to the event it is busy with: it goes on   *)
(* without telling anybody, or tells one sink that had it coming and has   *)
(* it no more, or fails.                                                   *)
Going(c) ==
  /\ failures' = failures /\ UNCHANGED <<queue, pending, applied>>
  /\ {pc[c], pc'[c]} \subseteq {"pipeline", "process", "fanout"}
  /\ \A s \in Sinks : Coming(c, s)' => Coming(c, s)

Telling(c) ==
  /\ pc[c] \in {"pipeline", "process", "fanout"}
  /\ \E s \in Sinks :
       /\ Receive(s, Head(queue[c])) /\ Coming(c, s)
       /\ Fail(c) \/ (Going(c) /\ ~Coming(c, s)')

LEMMA StepTells ==
  ASSUME IsInjective(Processors), DispatchInv, AloneInv, NEW c \in Callers, Step(c)
  PROVE  \/ received' = received /\ (Fail(c) \/ Going(c))
         \/ received' = received /\ failures' = failures /\ (NextEvent(c) \/ Commit(c))
         \/ Telling(c)
<1> USE DEF Goto, StartProcessors, NextProcessor
<1>0. /\ TypeOK /\ pc \in [Callers -> Steps] /\ stage \in [Callers -> 1 .. Len(Processors) + 1]
      /\ targets \in [Callers -> Seq(Contexts)] /\ Len(Processors) \in Nat
      /\ "domain" \in Sinks /\ "audit" \in Sinks
  BY DispatchAssumption, LenProperties DEF DispatchInv, TypeOK, Sinks
<1>1. \A m : ~Later("domain", m)
  BY NotToDomain
<1>2. ASSUME pc[c] = "pipeline", failures' = failures, UNCHANGED <<queue, pending, applied>>,
             pc'[c] \in {"pipeline", "process"}
      PROVE  Going(c)
  BY <1>2 DEF Going, Coming
<1>3. stage[c] <= Len(Processors) => stage[c] \in 1 .. Len(Processors)
  BY <1>0
<1>4. CASE RunMiddleware(c)
  BY <1>0, <1>2, <1>4 DEF RunMiddleware
<1>5. CASE PublishToDomainBus(c)
  <2>1. pc[c] = "pipeline" /\ Coming(c, "domain")
    BY <1>5 DEF PublishToDomainBus, Coming
  <2>2. CASE /\ Receive("domain", Head(queue[c]))
             /\ StartProcessors(c) /\ UNCHANGED <<queue, failures>>
    <3>1. Going(c) /\ pc'[c] = "process"
      BY <1>0, <1>2, <1>5, <2>1, <2>2 DEF PublishToDomainBus
    <3>2. ~Coming(c, "domain")'
      BY <1>1, <3>1 DEF Coming, Later
    <3> QED
      BY <1>0, <2>1, <2>2, <3>1, <3>2 DEF Telling
  <2>3. CASE Receive("domain", Head(queue[c])) /\ Fail(c)
    BY <1>0, <2>1, <2>3 DEF Telling
  <2> QED
    BY <1>5, <2>2, <2>3 DEF PublishToDomainBus
<1>6. CASE StartTransforming(c)
  <2>1. /\ pc[c] = "process" /\ stage[c] \in 1 .. Len(Processors)
        /\ Processors[stage[c]] = "integration"
        /\ UNCHANGED <<pending, applied, queue, received, failures>>
    BY <1>3, <1>6 DEF StartTransforming
  <2>2. /\ \A s : Later(s, stage[c] + 1) => Later(s, stage[c])
        /\ \A s \in Contexts : Later(s, stage[c])
    BY <2>1, LaterIs
  <2>3. CASE NextProcessor(c)
    <3>1. pc'[c] = "process" /\ stage'[c] = stage[c] + 1
      BY <1>0, <2>3
    <3>2. \A s : Later(s, stage[c])' => Later(s, stage[c])
      BY <2>2, <3>1 DEF Later
    <3> QED
      BY <2>1, <3>1, <3>2 DEF Going, Coming
  <2>4. CASE Goto(c, "fanout") /\ UNCHANGED stage
    <3>1. PICK e \in Event : e = Head(queue[c])
      BY <1>0, <2>1, HeadOfQueue
    <3>2. targets'[c] = Targets(e) /\ Targets(e) \in Seq(Contexts)
      BY <1>0, <1>6, <3>1, TargetsType DEF StartTransforming
    <3>3. \A s \in ToSet(targets'[c]) : s \in Contexts
      BY <3>2, ElementOfSeq DEF ToSet
    <3>4. pc'[c] = "fanout" /\ stage'[c] = stage[c]
      BY <1>0, <2>4
    <3>5. \A s : Coming(c, s)' => Later(s, stage[c])
      BY <2>2, <3>3, <3>4 DEF Coming, Later
    <3> QED
      BY <2>1, <3>4, <3>5 DEF Going, Coming
  <2> QED
    BY <1>6, <2>1, <2>3, <2>4 DEF StartTransforming
<1>7. CASE PublishIntegrationEvent(c)
  <2>1. /\ pc[c] = "fanout" /\ stage[c] \in 1 .. Len(Processors)
        /\ Processors[stage[c]] = "integration"
        /\ targets[c] \in Seq(Contexts) /\ targets[c] # <<>> /\ IsInjective(targets[c])
        /\ UNCHANGED <<pending, applied>>
    BY <1>0, <1>3, <1>7 DEF PublishIntegrationEvent, DispatchInv, On, AloneInv
  <2>2. PICK s : s = Head(targets[c])
    OBVIOUS
  <2> DEFINE rest == Tail(targets[c])
  <2>3. /\ s \in Contexts /\ s \in Sinks /\ s \in ToSet(targets[c]) /\ s \notin ToSet(rest)
        /\ ToSet(rest) \subseteq ToSet(targets[c])
        /\ Len(targets[c]) = 1 => ToSet(rest) = {}
    <3>1. s \in Contexts /\ rest \in Seq(Contexts) /\ ToSet(targets[c]) = {s} \cup ToSet(rest)
          /\ (Len(targets[c]) = 1 <=> rest = <<>>)
      BY <2>1, <2>2, HeadAndTail
    <3>2. s \notin ToSet(rest)
      BY <2>1, <2>2, InjectiveTail
    <3>3. rest = <<>> => ToSet(rest) = {}
      BY DEF ToSet
    <3> HIDE DEF rest
    <3> QED
      BY <3>1, <3>2, <3>3 DEF Sinks
  <2>4. ~Later(s, stage[c] + 1)
    BY <2>1, <2>3, LaterIs
  <2>5. Coming(c, s)
    BY <2>1, <2>3 DEF Coming
  <2>6. CASE Receive(s, Head(queue[c])) /\ Fail(c)
    BY <2>1, <2>3, <2>5, <2>6 DEF Telling
  <2>7. CASE received' = received /\ Fail(c)
    BY <2>7
  <2>8. CASE /\ Receive(s, Head(queue[c]))
             /\ targets' = [targets EXCEPT ![c] = Tail(@)]
             /\ IF Len(targets[c]) = 1 THEN NextProcessor(c) ELSE UNCHANGED <<pc, stage>>
             /\ UNCHANGED <<queue, failures>>
    <3>1. targets'[c] = rest
      BY <1>0, <2>8
    <3> HIDE DEF rest
    <3>2. CASE Len(targets[c]) = 1
      <4>1. pc'[c] = "process" /\ stage'[c] = stage[c] + 1
        BY <1>0, <2>8, <3>2
      <4>2. \A r : Coming(c, r)' => Later(r, stage[c] + 1)
        BY <4>1 DEF Coming, Later
      <4>3. Going(c)
        BY <2>1, <2>8, <4>1, <4>2 DEF Going, Coming
      <4> QED
        BY <2>1, <2>3, <2>4, <2>5, <2>8, <4>2, <4>3 DEF Telling
    <3>3. CASE Len(targets[c]) # 1
      <4>1. pc'[c] = "fanout" /\ stage'[c] = stage[c]
        BY <2>1, <2>8, <3>3
      <4>2. \A r : Coming(c, r)' => r \in ToSet(rest) \/ Later(r, stage[c] + 1)
        BY <3>1, <4>1 DEF Coming, Later
      <4>3. Going(c)
        BY <2>1, <2>3, <2>8, <4>1, <4>2 DEF Going, Coming
      <4> QED
        BY <2>1, <2>3, <2>4, <2>5, <2>8, <4>2, <4>3 DEF Telling
    <3> QED
      BY <3>2, <3>3
  <2> QED
    BY <1>7, <2>2, <2>6, <2>7, <2>8 DEF PublishIntegrationEvent
<1>8. CASE SaveAudit(c)
  <2>1. /\ pc[c] = "process" /\ stage[c] \in 1 .. Len(Processors)
        /\ Processors[stage[c]] = "audit" /\ UNCHANGED <<pending, applied>>
    BY <1>3, <1>8 DEF SaveAudit
  <2>2. /\ \A s : Later(s, stage[c] + 1) => Later(s, stage[c])
        /\ Later("audit", stage[c]) /\ ~Later("audit", stage[c] + 1)
    BY <2>1, LaterIs
  <2>3. ASSUME NextProcessor(c), UNCHANGED <<queue, failures>>
        PROVE  Going(c) /\ ~Coming(c, "audit")'
    <3>1. pc'[c] = "process" /\ stage'[c] = stage[c] + 1
      BY <1>0, <2>3
    <3>2. \A s : Coming(c, s)' => Later(s, stage[c] + 1)
      BY <3>1 DEF Coming, Later
    <3> QED
      BY <2>1, <2>2, <2>3, <3>1, <3>2 DEF Going, Coming
  <2>4. Coming(c, "audit")
    BY <2>1, <2>2 DEF Coming
  <2>5. CASE Receive("audit", Head(queue[c])) /\ NextProcessor(c) /\ UNCHANGED <<queue, failures>>
    BY <1>0, <2>1, <2>3, <2>4, <2>5 DEF Telling
  <2>6. CASE Receive("audit", Head(queue[c])) /\ Fail(c)
    <3>1. "audit" \in Sinks /\ pc[c] \in {"pipeline", "process", "fanout"}
      BY <2>1 DEF Sinks
    <3> QED
      BY <2>1, <2>4, <2>6, <3>1 DEF Telling
  <2> QED
    BY <1>8, <2>3, <2>5, <2>6 DEF SaveAudit
<1>9. CASE NextEvent(c)
  BY <1>9 DEF NextEvent
<1>10. CASE Commit(c)
  BY <1>10 DEF Commit
<1> QED
  BY <1>4, <1>5, <1>6, <1>7, <1>8, <1>9, <1>10 DEF Step


LEMMA AloneStep ==
  ASSUME ~Overlapping, DispatchInv, AloneInv, [Next]_vars
  PROVE  AloneInv'
<1> USE DEF Goto, StartEvent, StartProcessors, NextProcessor
<1>0. /\ TypeOK /\ pc \in [Callers -> Steps] /\ targets \in [Callers -> Seq(Contexts)]
  BY DEF DispatchInv, TypeOK
<1>1. ASSUME UNCHANGED <<pc, targets>> PROVE AloneInv'
  BY <1>1 DEF AloneInv
<1>2. ASSUME NEW c \in Callers, DispatchEventsForAggregate(c) PROVE AloneInv'
  <2>1. \A d \in Callers : pc[d] = "idle" /\ pc'[d] = (IF d = c THEN "pipeline" ELSE "idle")
    BY <1>0, <1>2 DEF DispatchEventsForAggregate, Quiet
  <2> QED
    BY <2>1 DEF AloneInv
<1>3. ASSUME NEW c \in Callers, Step(c) PROVE AloneInv'
  <2>1. \A d \in Callers \ {c} : pc'[d] = pc[d]
    BY <1>3, QueuesMove
  <2>2. pc[c] # "idle"
    BY <1>3 DEF Step, RunMiddleware, PublishToDomainBus, StartTransforming,
       PublishIntegrationEvent, SaveAudit, NextEvent, Commit
  <2>3. \A d \in Callers \ {c} : pc[d] = "idle"
    BY <2>2 DEF AloneInv
  <2>4. pc'[c] = "fanout" => IsInjective(targets'[c])
    <3>1. CASE StartTransforming(c)
      <4>1. PICK e \in Event : e = Head(queue[c])
        BY <1>0, <3>1, HeadOfQueue DEF StartTransforming
      <4>2. targets'[c] = Targets(e) /\ IsInjective(Targets(e))
        BY <1>0, <3>1, <4>1, TargetsType DEF StartTransforming
      <4> QED
        BY <4>2
    <3>2. CASE PublishIntegrationEvent(c)
      <4>1. /\ pc[c] = "fanout" /\ IsInjective(targets[c])
            /\ targets[c] \in Seq(Contexts) /\ targets[c] # <<>>
        BY <1>0, <3>2 DEF PublishIntegrationEvent, DispatchInv, On, AloneInv
      <4>2. targets'[c] = targets[c] \/ targets'[c] = Tail(targets[c])
        BY <1>0, <3>2 DEF PublishIntegrationEvent
      <4> QED
        BY <4>1, <4>2, InjectiveTail
    <3>3. CASE RunMiddleware(c)
      BY <1>0, <3>3 DEF RunMiddleware, Fail
    <3>4. CASE PublishToDomainBus(c)
      BY <1>0, <3>4 DEF PublishToDomainBus, Fail
    <3>5. CASE SaveAudit(c)
      BY <1>0, <3>5 DEF SaveAudit, Fail
    <3>6. CASE NextEvent(c) \/ Commit(c)
      BY <1>0, <3>6 DEF NextEvent, Commit
    <3> QED
      BY <1>3, <3>1, <3>2, <3>3, <3>4, <3>5, <3>6 DEF Step
  <2> QED
    BY <2>1, <2>3, <2>4 DEF AloneInv
<1> QED
  BY <1>1, <1>2, <1>3 DEF Next, Apply, Use, vars

LEMMA CountsFollow ==
  ASSUME TypeOK, NEW s \in Sinks, NEW x \in Event
  PROVE  /\ Count(s, x) \in Nat
         /\ received' = received => Count(s, x)' = Count(s, x)
         /\ \A r \in Sinks, e \in Event :
              Receive(r, e) => Count(s, x)' = Count(s, x) + (IF r = s /\ x = e THEN 1 ELSE 0)
<1>1. received \in [Sinks -> Seq(Event)] /\ received[s] \in Seq(Event)
  BY DEF TypeOK
<1>2. \A y : Count(s, y) = Cardinality(Occurrences(received[s], y))
             /\ Count(s, y)' = Cardinality(Occurrences(received'[s], y))
  BY DEF Count, Occurrences
<1>3. <<>> \in Seq(Event)
  OBVIOUS
<1>4. Count(s, x) \in Nat
  BY <1>1, <1>2, CountAppend
<1>5. ASSUME NEW r \in Sinks, NEW e \in Event, Receive(r, e)
      PROVE  Count(s, x)' = Count(s, x) + (IF r = s /\ x = e THEN 1 ELSE 0)
  <2>1. CASE r = s
    <3>1. received'[s] = Append(received[s], e)
      BY <1>1, <1>5, <2>1 DEF Receive
    <3> QED
      BY <1>1, <1>2, <2>1, <3>1, CountAppend
  <2>2. CASE r # s
    <3>1. received'[s] = received[s]
      BY <1>1, <1>5, <2>2 DEF Receive
    <3> QED
      BY <1>2, <1>4, <2>2, <3>1
  <2> QED
    BY <2>1, <2>2
<1>6. received' = received => Count(s, x)' = Count(s, x)
  BY <1>2
<1> QED
  BY <1>4, <1>5, <1>6

(* Nothing that is not ahead of a sink comes to be so without a failure.   *)
LEMMA AheadStep ==
  ASSUME ~Overlapping, DispatchInv, OrderInv, AloneInv, NEW s \in Sinks, NEW e \in Event
  PROVE  /\ Apply /\ Ahead(s, e)' => Ahead(s, e)
         /\ \A c \in Callers :
              /\ DispatchEventsForAggregate(c) /\ Ahead(s, e)' => Ahead(s, e)
              /\ Step(c) /\ (NextEvent(c) \/ Commit(c) \/ Going(c)) /\ Ahead(s, e)' => Ahead(s, e)
              /\ Step(c) /\ Going(c) /\ e = Head(queue[c]) /\ ~Coming(c, s)' => ~Ahead(s, e)'
<1>0. /\ TypeOK /\ pc \in [Callers -> Steps] /\ queue \in [Callers -> Seq(Event)]
      /\ pending \in Seq(Event) /\ applied \in Nat /\ e \in Nat
  BY DispatchAssumption DEF DispatchInv, TypeOK, Event
<1>1. ASSUME Apply, Ahead(s, e)' PROVE Ahead(s, e)
  <2>1. /\ applied' = applied + 1 /\ applied + 1 \in Event
        /\ pending' = Append(pending, applied + 1)
        /\ UNCHANGED <<pc, queue, stage, targets>>
    BY <1>0, <1>1, DispatchAssumption DEF Apply, Event, DispatchInv, TypeOK
  <2>2. ToSet(pending') = ToSet(pending) \cup {applied + 1}
    BY <1>0, <2>1, ToSetAppend
  <2>3. e > applied' => e > applied
    BY <1>0, <2>1
  <2>4. e = applied + 1 => e > applied
    BY <1>0
  <2>5. \A c : Coming(c, s)' = Coming(c, s)
    BY <2>1 DEF Coming, Later
  <2> QED
    BY <1>1, <2>1, <2>2, <2>3, <2>4, <2>5 DEF Ahead, Quiet
<1> SUFFICES ASSUME NEW c \in Callers
    PROVE  /\ DispatchEventsForAggregate(c) /\ Ahead(s, e)' => Ahead(s, e)
           /\ Step(c) /\ (NextEvent(c) \/ Commit(c) \/ Going(c)) /\ Ahead(s, e)' => Ahead(s, e)
           /\ Step(c) /\ Going(c) /\ e = Head(queue[c]) /\ ~Coming(c, s)' => ~Ahead(s, e)'
  BY <1>1
<1>2. ASSUME DispatchEventsForAggregate(c), Ahead(s, e)' PROVE Ahead(s, e)
  <2>1. /\ Quiet /\ UNCHANGED <<pending, applied>> /\ queue'[c] = pending
        /\ \A d \in Callers \ {c} : pc'[d] = "idle"
    BY <1>0, <1>2 DEF DispatchEventsForAggregate, StartEvent, Goto, Quiet
  <2>2. e > applied \/ e \in ToSet(pending)
    BY <1>2, <2>1 DEF Ahead
  <2> QED
    BY <2>1, <2>2 DEF Ahead
<1>3. ASSUME Step(c), ~Going(c), NextEvent(c) \/ Commit(c), Ahead(s, e)' PROVE Ahead(s, e)
  <2>1. pc[c] # "idle" /\ \A d \in Callers \ {c} : pc[d] = "idle" /\ pc'[d] = "idle"
    BY <1>3, QueuesMove DEF NextEvent, Commit, AloneInv
  <2>2. applied' = applied
    BY <1>3, StepsMove
  <2>3. CASE Commit(c)
    <3>1. ToSet(pending') = {}
      BY <2>3 DEF Commit, ToSet
    <3>2. \A d \in Callers : pc'[d] = "idle"
      BY <1>0, <2>1, <2>3 DEF Commit, Goto
    <3> QED
      BY <1>3, <2>2, <3>1, <3>2 DEF Ahead
  <2>4. CASE NextEvent(c)
    <3>1. /\ pc[c] = "process" /\ pc'[c] # "idle" /\ queue'[c] = Tail(queue[c])
      BY <1>0, <2>4 DEF NextEvent, Goto, StartEvent
    <3>2. queue[c] \in Seq(Event) /\ queue[c] # <<>> /\ Rising(queue[c], applied)
      BY <1>0, <3>1, HeadOfQueue DEF OrderInv
    <3>3. \A x \in ToSet(Tail(queue[c])) : x \in ToSet(queue[c]) /\ Head(queue[c]) < x
      BY <3>2, RisingTail
    <3>4. Head(queue[c]) \in Nat
      BY <1>0, <3>1, HeadOfQueue, DispatchAssumption DEF Event
    <3>5. e > applied \/ e \in ToSet(Tail(queue[c]))
      BY <1>3, <2>1, <2>2, <3>1 DEF Ahead, Quiet
    <3>6. e \in ToSet(Tail(queue[c])) => e \in ToSet(queue[c]) /\ e # Head(queue[c])
      BY <1>0, <3>3, <3>4
    <3> QED
      BY <2>1, <3>5, <3>6 DEF Ahead
  <2> QED
    BY <1>3, <2>3, <2>4
<1>4. ASSUME Going(c) PROVE pc[c] # "idle" /\ pc'[c] # "idle"
  BY <1>4 DEF Going
<1>5. ASSUME Step(c), Going(c), Ahead(s, e)' PROVE Ahead(s, e)
  <2>1. \A d \in Callers \ {c} : pc[d] = "idle" /\ pc'[d] = "idle"
    BY <1>4, <1>5, QueuesMove DEF AloneInv
  <2>2. UNCHANGED <<queue, applied>> /\ (Coming(c, s)' => Coming(c, s))
    BY <1>5 DEF Going
  <2>3. e > applied \/ (e \in ToSet(queue[c]) /\ (e = Head(queue[c]) => Coming(c, s)'))
    BY <1>4, <1>5, <2>1, <2>2 DEF Ahead, Quiet
  <2> QED
    BY <1>4, <1>5, <2>2, <2>3 DEF Ahead
<1>6. ASSUME Step(c), Going(c), e = Head(queue[c]), ~Coming(c, s)' PROVE ~Ahead(s, e)'
  <2>1. \A d \in Callers \ {c} : pc[d] = "idle" /\ pc'[d] = "idle"
    BY <1>4, <1>6, QueuesMove DEF AloneInv
  <2>2. /\ queue' = queue /\ applied' = applied /\ pc[c] \in {"pipeline", "process", "fanout"}
        /\ pc'[c] # "idle"
    BY <1>6 DEF Going
  <2>3. ~(e > applied)
    <3>1. queue[c] \in Seq(Event) /\ queue[c] # <<>> /\ Rising(queue[c], applied)
      BY <1>0, <2>2, HeadOfQueue DEF OrderInv
    <3>2. 1 \in 1 .. Len(queue[c]) /\ e = queue[c][1]
      BY <1>6, <3>1, EmptySeq, LenProperties
    <3> QED
      BY <1>0, <3>1, <3>2 DEF Rising
  <2> QED
    BY <1>6, <2>1, <2>2, <2>3 DEF Ahead, Quiet
<1> QED
  BY <1>2, <1>3, <1>5, <1>6

LEMMA CountStep ==
  ASSUME ~Overlapping, IsInjective(Processors),
         DispatchInv, OrderInv, AloneInv, CountInv, [Next]_vars
  PROVE  CountInv'
<1>0. /\ TypeOK /\ failures \in Nat
  BY DispatchAssumption DEF DispatchInv, TypeOK
<1> SUFFICES ASSUME NEW s \in Sinks, NEW e \in Event
             PROVE  /\ Count(s, e)' <= failures' + 1
                    /\ Ahead(s, e)' => Count(s, e)' <= failures'
  BY DEF CountInv
<1> DEFINE n == Count(s, e)
           m == Count(s, e)'
           Good == m <= failures' + 1 /\ (Ahead(s, e)' => m <= failures')
<1>1. /\ n \in Nat /\ (received' = received => m = n)
      /\ \A r \in Sinks, x \in Event :
           Receive(r, x) => m = n + (IF r = s /\ e = x THEN 1 ELSE 0)
  BY <1>0, CountsFollow
<1>2. n <= failures + 1 /\ (Ahead(s, e) => n <= failures)
  BY DEF CountInv
<1> SUFFICES Good
  OBVIOUS
<1>3. ASSUME received' = received, failures' = failures, Ahead(s, e)' => Ahead(s, e) PROVE Good
  BY <1>1, <1>2, <1>3
<1>4. ASSUME received' = received, failures' = failures + 1 PROVE Good
  BY <1>0, <1>1, <1>2, <1>4
<1>5. CASE Apply
  BY <1>3, <1>5, AheadStep DEF Apply
<1>6. ASSUME NEW k \in Middlewares, Use(k) PROVE Good
  <2>1. Ahead(s, e)' => Ahead(s, e)
    BY <1>6 DEF Use, Ahead, Quiet, Coming, Later
  <2> QED
    BY <1>3, <1>6, <2>1 DEF Use
<1>7. CASE UNCHANGED vars
  <2>1. Ahead(s, e)' => Ahead(s, e)
    BY <1>7 DEF vars, Ahead, Quiet, Coming, Later
  <2> QED
    BY <1>3, <1>7, <2>1 DEF vars
<1>8. ASSUME NEW c \in Callers, DispatchEventsForAggregate(c) PROVE Good
  BY <1>3, <1>8, AheadStep DEF DispatchEventsForAggregate
<1>9. ASSUME NEW c \in Callers, Step(c) PROVE Good
  <2>1. CASE received' = received /\ Fail(c)
    BY <1>4, <2>1 DEF Fail
  <2>2. CASE received' = received /\ Going(c)
    <3>1. failures' = failures
      BY <2>2 DEF Going
    <3> QED
      BY <1>3, <1>9, <2>2, <3>1, AheadStep
  <2>3. CASE received' = received /\ failures' = failures /\ (NextEvent(c) \/ Commit(c))
    BY <1>3, <1>9, <2>3, AheadStep
  <2>4. CASE Telling(c)
    <3>1. PICK r \in Sinks :
            /\ Receive(r, Head(queue[c])) /\ Coming(c, r)
            /\ Fail(c) \/ (Going(c) /\ ~Coming(c, r)')
      BY <2>4 DEF Telling
    <3>2. pc[c] \in {"pipeline", "process", "fanout"}
      BY <2>4 DEF Telling
    <3>3. PICK h \in Event : h = Head(queue[c]) /\ h \in ToSet(queue[c])
      BY <1>0, <3>2, HeadOfQueue
    <3>4. Ahead(r, h)
      BY <3>1, <3>2, <3>3 DEF Ahead
    <3>5. m = n + (IF r = s /\ e = h THEN 1 ELSE 0)
      BY <1>1, <3>1, <3>3
    <3>6. CASE Fail(c)
      <4>1. failures' = failures + 1
        BY <3>6 DEF Fail
      <4> QED
        BY <1>0, <1>1, <1>2, <3>4, <3>5, <4>1
    <3>7. CASE Going(c) /\ ~Coming(c, r)'
      <4>1. failures' = failures
        BY <3>7 DEF Going
      <4>2. Ahead(s, e)' => Ahead(s, e)
        BY <1>9, <3>7, AheadStep
      <4>3. CASE r = s /\ e = h
        <5>1. ~Ahead(s, e)'
          BY <1>9, <3>3, <3>7, <4>3, AheadStep
        <5> QED
          BY <1>0, <1>1, <1>2, <3>4, <3>5, <4>1, <4>3, <5>1
      <4>4. CASE ~(r = s /\ e = h)
        BY <1>0, <1>1, <1>2, <3>5, <4>1, <4>2, <4>4
      <4> QED
        BY <4>3, <4>4
    <3> QED
      BY <3>1, <3>6, <3>7
  <2> QED
    BY <1>9, <2>1, <2>2, <2>3, <2>4, StepTells
<1> QED
  BY <1>5, <1>6, <1>7, <1>8, <1>9 DEF Next

LEMMA CountInit ==
  ASSUME Init
  PROVE  CountInv
<1>1. \A s \in Sinks, e \in Event : Count(s, e) = 0
  <2> SUFFICES ASSUME NEW s \in Sinks, NEW e \in Event PROVE Count(s, e) = 0
    OBVIOUS
  <2>1. {i \in DOMAIN received[s] : received[s][i] = e} = {}
    BY DEF Init
  <2> QED
    BY <2>1, FS_EmptySet DEF Count
<1>2. failures = 0
  BY DEF Init
<1> QED
  BY <1>1, <1>2 DEF CountInv

(* Dispatches made one at a time and every kind of processor added once, a *)
(* sink receives an event once and once more for every rejection at most:  *)
(* nothing but a failure makes it be told again.                           *)
THEOREM RepeatsAreFailures ==
  ASSUME ~Overlapping, IsInjective(Processors)
  PROVE  Spec => []RepeatedByFailures
<1>1. Init => OrderInv /\ AloneInv /\ CountInv
  BY CountInit DEF Init, OrderInv, Rising, AloneInv
<1>2. DispatchInv /\ OrderInv /\ AloneInv /\ CountInv /\ [Next]_vars
        => (OrderInv /\ AloneInv /\ CountInv)'
  BY OrderStep, AloneStep, CountStep
<1>3. CountInv => RepeatedByFailures
  BY DEF CountInv, RepeatedByFailures
<1> QED
  BY <1>1, <1>2, <1>3, DispatchInvariance, PTL DEF Spec

=============================================================================
