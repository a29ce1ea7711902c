------------------------- MODULE AggregateRootProofs -------------------------
(* Theorems about AggregateRoot, for any calls, capabilities and bounds.   *)
EXTENDS AggregateRoot, SequenceTheorems, WellFoundedInduction, TLAPS

(* Induction, for a set instead of a predicate: were a number missing from *)
(* S, the least of those missing would not be 0, nor follow one in S.      *)
LEMMA InductionOnNat ==
  ASSUME NEW S, 0 \in S, \A n \in Nat : n \in S => n + 1 \in S
  PROVE  \A n \in Nat : n \in S
<1> SUFFICES ASSUME NEW n \in Nat, n \notin S PROVE FALSE
  OBVIOUS
<1> DEFINE Missing == {m \in Nat : m \notin S}
           Less == {p \in Nat \X Nat : p[1] < p[2]}
<1>1. IsWellFoundedOn(Less, Nat)
  <2>1. Less \cap (Nat \X Nat) \subseteq OpToRel(<, Nat)
    BY Zenon DEF OpToRel
  <2> QED
    BY <2>1, NatLessThanWellFounded, IsWellFoundedOnSubrelation
<1>2. PICK m \in Missing : \A k \in Missing : <<k, m>> \notin Less
  <2> HIDE DEF Less
  <2>1. Missing \subseteq Nat /\ Missing # {}
    OBVIOUS
  <2> QED
    BY <1>1, <2>1, WFMin
<1>3. m # 0 /\ m - 1 \in Nat
  OBVIOUS
<1>4. m - 1 \in Missing /\ <<m - 1, m>> \in Less
  BY <1>3
<1> QED
  BY <1>2, <1>4

-----------------------------------------------------------------------------
(* Without.  IsRest(rest, ids, some, n): rest is the recursive function of *)
(* Without, up to n.                                                       *)
IsRest(rest, ids, some, n) ==
  rest = [i \in 0 .. n |->
            IF i = 0 THEN <<>>
            ELSE IF ids[i] \in some THEN rest[i - 1] ELSE Append(rest[i - 1], ids[i])]

LEMMA RestExists ==
  ASSUME NEW ids, NEW some
  PROVE  \A n \in Nat : \E rest : IsRest(rest, ids, some, n)
<1> DEFINE S == {n \in Nat : \E rest : IsRest(rest, ids, some, n)}
<1>1. 0 \in S
  <2>1. IsRest([i \in 0 .. 0 |-> <<>>], ids, some, 0)
    BY DEF IsRest
  <2> QED
    BY <2>1
<1>2. ASSUME NEW n \in Nat, n \in S PROVE n + 1 \in S
  <2>1. PICK rest : IsRest(rest, ids, some, n)
    BY <1>2
  <2> DEFINE more == [i \in 0 .. n + 1 |->
                IF i <= n THEN rest[i]
                ELSE IF ids[i] \in some THEN rest[n] ELSE Append(rest[n], ids[i])]
  <2>2. \A i \in 0 .. n :
          rest[i] = IF i = 0 THEN <<>>
                    ELSE IF ids[i] \in some THEN rest[i - 1] ELSE Append(rest[i - 1], ids[i])
    BY <2>1 DEF IsRest
  <2>3. \A i \in 1 .. n + 1 : more[i - 1] = rest[i - 1]
    OBVIOUS
  <2>4. \A i \in 0 .. n + 1 :
          more[i] = IF i = 0 THEN <<>>
                    ELSE IF ids[i] \in some THEN more[i - 1] ELSE Append(more[i - 1], ids[i])
    <3> TAKE i \in 0 .. n + 1
    <3>1. CASE i = n + 1
      BY <3>1, <2>3
    <3>2. CASE i <= n
      BY <3>2, <2>2, <2>3
    <3> QED
      BY <3>1, <3>2
  <2>5. more = [i \in 0 .. n + 1 |->
                 IF i = 0 THEN <<>>
                 ELSE IF ids[i] \in some THEN more[i - 1] ELSE Append(more[i - 1], ids[i])]
    <3> HIDE DEF more
    <3>1. more = [i \in 0 .. n + 1 |-> more[i]]
      BY DEF more
    <3> QED
      BY <2>4, <3>1
  <2>6. IsRest(more, ids, some, n + 1)
    BY <2>5 DEF IsRest
  <2> QED
    BY <2>6
<1> HIDE DEF S
<1>3. \A n \in Nat : n \in S
  BY <1>1, <1>2, InductionOnNat
<1> QED
  BY <1>3 DEF S

(* Two such functions agree as far as their sequences do.                  *)
LEMMA RestsAgree ==
  ASSUME NEW ids, NEW some, NEW n \in Nat, NEW rest, IsRest(rest, ids, some, n),
         NEW jds, NEW same, NEW m \in Nat, NEW other, IsRest(other, jds, same, m),
         NEW k \in Nat, k <= n, k <= m,
         \A i \in 1 .. k : ids[i] = jds[i] /\ (ids[i] \in some <=> ids[i] \in same)
  PROVE  rest[k] = other[k]
<1> DEFINE S == {i \in Nat : i <= k => rest[i] = other[i]}
<1>1. \A i \in 0 .. n :
        rest[i] = IF i = 0 THEN <<>>
                  ELSE IF ids[i] \in some THEN rest[i - 1] ELSE Append(rest[i - 1], ids[i])
  BY DEF IsRest
<1>2. \A i \in 0 .. m :
        other[i] = IF i = 0 THEN <<>>
                   ELSE IF jds[i] \in same THEN other[i - 1] ELSE Append(other[i - 1], jds[i])
  BY DEF IsRest
<1>3. 0 \in S
  BY <1>1, <1>2
<1>4. ASSUME NEW i \in Nat, i \in S PROVE i + 1 \in S
  BY <1>1, <1>2, <1>4
<1> HIDE DEF S
<1>5. \A i \in Nat : i \in S
  BY <1>3, <1>4, InductionOnNat
<1> QED
  BY <1>5 DEF S

(* So Without is the value of any of them.                                 *)
LEMMA WithoutIsRest ==
  ASSUME NEW T, NEW ids \in Seq(T), NEW some
  PROVE  \E rest : IsRest(rest, ids, some, Len(ids)) /\ Without(ids, some) = rest[Len(ids)]
<1> DEFINE rest == CHOOSE r : IsRest(r, ids, some, Len(ids))
<1>1. Len(ids) \in Nat
  OBVIOUS
<1>2. IsRest(rest, ids, some, Len(ids))
  BY <1>1, RestExists
<1>3. Without(ids, some) = rest[Len(ids)]
  BY DEF Without, IsRest
<1> HIDE DEF rest
<1> QED
  BY <1>2, <1>3

LEMMA WithoutEmpty ==
  ASSUME NEW some
  PROVE  Without(<<>>, some) = <<>>
<1>1. PICK rest : IsRest(rest, <<>>, some, 0) /\ Without(<<>>, some) = rest[0]
  <2>1. <<>> \in Seq({}) /\ Len(<<>>) = 0
    OBVIOUS
  <2> QED
    BY <2>1, WithoutIsRest
<1> QED
  BY <1>1 DEF IsRest

LEMMA WithoutAppend ==
  ASSUME NEW T, NEW ids \in Seq(T), NEW e \in T, NEW some
  PROVE  Without(Append(ids, e), some) =
           IF e \in some THEN Without(ids, some) ELSE Append(Without(ids, some), e)
<1> DEFINE n == Len(ids)
           more == Append(ids, e)
<1>1. n \in Nat /\ more \in Seq(T) /\ Len(more) = n + 1 /\ more[n + 1] = e
  OBVIOUS
<1>2. \A i \in 1 .. n : more[i] = ids[i]
  OBVIOUS
<1>3. PICK rest : IsRest(rest, ids, some, n) /\ Without(ids, some) = rest[n]
  BY WithoutIsRest
<1>4. PICK other : IsRest(other, more, some, n + 1) /\ Without(more, some) = other[n + 1]
  BY <1>1, WithoutIsRest
<1> HIDE DEF n, more
<1>5. rest[n] = other[n]
  BY <1>1, <1>2, <1>3, <1>4, RestsAgree
<1>6. other[n + 1] = IF more[n + 1] \in some THEN other[n] ELSE Append(other[n], more[n + 1])
  <2>1. \A i \in 0 .. n + 1 :
          other[i] = IF i = 0 THEN <<>>
                     ELSE IF more[i] \in some THEN other[i - 1] ELSE Append(other[i - 1], more[i])
    BY <1>4 DEF IsRest
  <2>2. n + 1 \in 0 .. n + 1 /\ n + 1 # 0 /\ (n + 1) - 1 = n
    BY <1>1
  <2> QED
    BY <2>1, <2>2
<1> QED
  BY <1>1, <1>3, <1>4, <1>5, <1>6 DEF more

(* Only which of its elements are left out matters.                        *)
LEMMA WithoutSame ==
  ASSUME NEW T, NEW ids \in Seq(T), NEW some, NEW same,
         \A i \in 1 .. Len(ids) : ids[i] \in some <=> ids[i] \in same
  PROVE  Without(ids, some) = Without(ids, same)
<1>1. PICK rest : IsRest(rest, ids, some, Len(ids)) /\ Without(ids, some) = rest[Len(ids)]
  BY WithoutIsRest
<1>2. PICK other : IsRest(other, ids, same, Len(ids)) /\ Without(ids, same) = other[Len(ids)]
  BY WithoutIsRest
<1>3. Len(ids) \in Nat
  OBVIOUS
<1> QED
  BY <1>1, <1>2, <1>3, RestsAgree

(* What has nothing to leave out is kept whole.                            *)
LEMMA WithoutConcat ==
  ASSUME NEW T, NEW ids \in Seq(T), NEW more \in Seq(T), NEW some,
         Without(ids, some) \in Seq(T), \A i \in 1 .. Len(more) : more[i] \notin some
  PROVE  Without(ids \o more, some) = Without(ids, some) \o more
<1> DEFINE kept == Without(ids, some)
           Holds(n) == Without(ids \o SubSeq(more, 1, n), some) = kept \o SubSeq(more, 1, n)
           S == {n \in Nat : n <= Len(more) => Holds(n)}
<1>1. 0 \in S
  <2>1. SubSeq(more, 1, 0) = <<>>
    BY SubSeqEmpty
  <2> QED
    BY <2>1, ConcatEmptySeq
<1>2. ASSUME NEW n \in Nat, n \in S PROVE n + 1 \in S
  <2> SUFFICES ASSUME n + 1 <= Len(more) PROVE Holds(n + 1)
    OBVIOUS
  <2> DEFINE t == SubSeq(more, 1, n)
             e == more[n + 1]
  <2>1. t \in Seq(T) /\ e \in T /\ e \notin some /\ SubSeq(more, 1, n + 1) = Append(t, e)
    <3>1. n + 1 \in 1 .. Len(more)
      OBVIOUS
    <3>2. SubSeq(more, 1, n + 1) = Append(SubSeq(more, 1, n), more[n + 1])
      BY <3>1, SubSeqRecursiveSecond
    <3> QED
      BY <3>1, <3>2, SubSeqProperties
  <2>2. Without(ids \o t, some) = kept \o t
    BY <1>2
  <2> HIDE DEF t, e
  <2>3. ids \o Append(t, e) = Append(ids \o t, e) /\ kept \o Append(t, e) = Append(kept \o t, e)
        /\ ids \o t \in Seq(T)
    BY <2>1
  <2>4. Without(Append(ids \o t, e), some) = Append(Without(ids \o t, some), e)
    <3>1. \A q \in Seq(T) :
            Without(Append(q, e), some) =
              IF e \in some THEN Without(q, some) ELSE Append(Without(q, some), e)
      BY <2>1, WithoutAppend
    <3> QED
      BY <2>1, <2>3, <3>1
  <2> QED
    BY <2>1, <2>2, <2>3, <2>4
<1> HIDE DEF S
<1>3. \A n \in Nat : n \in S
  BY <1>1, <1>2, InductionOnNat
<1>4. SubSeq(more, 1, Len(more)) = more /\ Len(more) \in Nat
  BY SubSeqFull
<1>5. Len(more) <= Len(more) => Holds(Len(more))
  BY <1>3, <1>4 DEF S
<1>6. Len(more) <= Len(more)
  BY <1>4
<1> QED
  BY <1>4, <1>5, <1>6

-----------------------------------------------------------------------------
(* What the operations make of sequences of events.                        *)

LEMMA IdsType ==
  ASSUME NEW s \in Seq(Event(Id))
  PROVE  /\ IdsInOrder(s) \in Seq(Id)
         /\ Len(IdsInOrder(s)) = Len(s)
         /\ \A i \in 1 .. Len(s) : IdsInOrder(s)[i] = s[i].id
<1>1. Len(s) \in Nat /\ DOMAIN s = 1 .. Len(s) /\ \A i \in 1 .. Len(s) : s[i] \in Event(Id)
  BY LenProperties, ElementOfSeq
<1>2. \A i \in 1 .. Len(s) : s[i].id \in Id
  BY <1>1 DEF Event
<1>3. IdsInOrder(s) = [i \in 1 .. Len(s) |-> s[i].id]
  BY <1>1 DEF IdsInOrder
<1> QED
  BY <1>1, <1>2, <1>3

LEMMA IdsConcat ==
  ASSUME NEW s \in Seq(Event(Id)), NEW t \in Seq(Event(Id))
  PROVE  IdsInOrder(s \o t) = IdsInOrder(s) \o IdsInOrder(t)
<1> DEFINE a == IdsInOrder(s)
           b == IdsInOrder(t)
           c == IdsInOrder(s \o t)
<1>1. /\ s \o t \in Seq(Event(Id))
      /\ Len(s) \in Nat /\ Len(t) \in Nat /\ Len(s \o t) = Len(s) + Len(t)
      /\ \A i \in 1 .. Len(s) + Len(t) :
           (s \o t)[i] = IF i <= Len(s) THEN s[i] ELSE t[i - Len(s)]
  BY ConcatProperties, LenProperties
<1>2. /\ a \in Seq(Id) /\ Len(a) = Len(s) /\ \A i \in 1 .. Len(s) : a[i] = s[i].id
      /\ b \in Seq(Id) /\ Len(b) = Len(t) /\ \A i \in 1 .. Len(t) : b[i] = t[i].id
  BY IdsType
<1>3. /\ c \in Seq(Id) /\ Len(c) = Len(s) + Len(t)
      /\ \A i \in 1 .. Len(s) + Len(t) : c[i] = (s \o t)[i].id
  BY <1>1, IdsType
<1> HIDE DEF a, b, c
<1>4. /\ a \o b \in Seq(Id) /\ Len(a \o b) = Len(a) + Len(b)
      /\ \A i \in 1 .. Len(a) + Len(b) : (a \o b)[i] = IF i <= Len(a) THEN a[i] ELSE b[i - Len(a)]
  <2>1. a \in Seq(Id) /\ b \in Seq(Id)
    BY <1>2
  <2> QED
    BY <2>1, ConcatProperties
<1>5. ASSUME NEW i \in 1 .. Len(c) PROVE c[i] = (a \o b)[i]
  <2>1. i \in 1 .. Len(s) + Len(t) /\ c[i] = (s \o t)[i].id
    BY <1>3
  <2>2. CASE i <= Len(s)
    <3>1. i \in 1 .. Len(s) /\ (s \o t)[i] = s[i] /\ (a \o b)[i] = a[i]
      BY <1>1, <1>2, <1>4, <2>1, <2>2
    <3> QED
      BY <1>2, <2>1, <3>1
  <2>3. CASE ~(i <= Len(s))
    <3>1. /\ i - Len(s) \in 1 .. Len(t) /\ (s \o t)[i] = t[i - Len(s)]
          /\ (a \o b)[i] = b[i - Len(s)]
      BY <1>1, <1>2, <1>4, <2>1, <2>3
    <3> QED
      BY <1>2, <2>1, <3>1
  <2> QED
    BY <2>2, <2>3
<1>6. c = a \o b
  <2>1. c \in Seq(Id) /\ a \o b \in Seq(Id) /\ Len(c) = Len(a \o b)
    BY <1>2, <1>3, <1>4
  <2>2. \A i \in 1 .. Len(c) : c[i] = (a \o b)[i]
    BY <1>5
  <2> QED
    BY <2>1, <2>2, SeqEqual
<1> QED
  BY <1>6 DEF a, b, c

LEMMA AppliedType ==
  ASSUME NEW a \in Aggregate(Id), NEW e \in Id
  PROVE  Applied(a, e) \in Aggregate(Id) /\ [id |-> e, version |-> a.version + 1] \in Event(Id)
<1>1. [id |-> e, version |-> a.version + 1] \in Event(Id)
  BY DEF Event, Aggregate
<1> QED
  BY <1>1 DEF Applied, Aggregate

LEMMA NewType ==
  ASSUME NEW v \in Nat
  PROVE  New(v) \in Aggregate(Id)
BY DEF New, Aggregate

LEMMA IdsOfEvents ==
  ASSUME NEW s \in Seq(Event(Id))
  PROVE  Ids(s) = {s[i].id : i \in 1 .. Len(s)} /\ Ids(s) \subseteq Id
<1>1. DOMAIN s = 1 .. Len(s) /\ \A i \in 1 .. Len(s) : s[i] \in Event(Id)
  BY LenProperties, ElementOfSeq
<1> QED
  BY <1>1 DEF Ids, Event

(* The events a replay gets through: those before the first that throws.   *)
Through(events) ==
  {n \in 0 .. Len(events) : \A i \in 1 .. n : events[i].id \notin poison}

LastThrough(events) ==
  CHOOSE n \in Through(events) : \A o \in Through(events) : o <= n

LEMMA ReplayStops ==
  ASSUME NEW events \in Seq(Event(Id))
  PROVE  /\ LastThrough(events) \in 0 .. Len(events)
         /\ \A i \in 1 .. LastThrough(events) : events[i].id \notin poison
<1> DEFINE H == Through(events)
<1>0. Len(events) \in Nat
  OBVIOUS
<1>1. \E n \in H : \A o \in H : o <= n
  <2> SUFFICES ASSUME \A n \in H : \E o \in H : ~(o <= n) PROVE FALSE
    OBVIOUS
  <2>1. 0 \in H
    BY <1>0 DEF Through
  <2>2. ASSUME NEW n \in Nat, n \in H PROVE n + 1 \in H
    <3>1. PICK o \in H : ~(o <= n)
      BY <2>2
    <3> QED
      BY <1>0, <3>1 DEF Through
  <2> HIDE DEF H
  <2>3. \A n \in Nat : n \in H
    BY <2>1, <2>2, InductionOnNat
  <2> QED
    BY <1>0, <2>3 DEF H, Through
<1>2. LastThrough(events) \in H
  BY <1>1 DEF LastThrough
<1> QED
  BY <1>2 DEF Through

LEMMA ReplayIs ==
  ASSUME NEW events \in Seq(Event(Id)), Replay(events)
  PROVE  LET n == LastThrough(events)
         IN  /\ state' = state \o IdsInOrder(SubSeq(events, 1, n))
             /\ agg' = IF n = Len(events) THEN Replayed(agg, n) ELSE ReplayAborted(agg, n)
             /\ discarded' = discarded \cup Ids(agg.events)
BY DEF Replay, LastThrough, Through

LEMMA ReplayType ==
  ASSUME TypeOK, NEW events \in Seq(Event(Id)), Replay(events)
  PROVE  agg' \in Aggregate(Id) /\ state' \in Seq(Id) /\ discarded' \subseteq Id
<1> DEFINE n == LastThrough(events)
<1>1. n \in 0 .. Len(events) /\ Len(events) \in Nat
  BY ReplayStops
<1>2. SubSeq(events, 1, n) \in Seq(Event(Id))
  <2>1. \A i \in 1 .. n : events[i] \in Event(Id)
    BY <1>1
  <2> QED
    BY <1>1, <2>1, SubSeqProperties
<1>3. /\ state' = state \o IdsInOrder(SubSeq(events, 1, n))
      /\ agg' = IF n = Len(events) THEN Replayed(agg, n) ELSE ReplayAborted(agg, n)
      /\ discarded' = discarded \cup Ids(agg.events)
  BY ReplayIs
<1> HIDE DEF n
<1>4. state' \in Seq(Id)
  <2>1. IdsInOrder(SubSeq(events, 1, n)) \in Seq(Id) /\ state \in Seq(Id)
    BY <1>2, IdsType DEF TypeOK
  <2> QED
    BY <1>3, <2>1, ConcatProperties
<1>5. agg' \in Aggregate(Id)
  <2>1. agg \in Aggregate(Id) /\ agg.initialVersion + n \in Nat /\ <<>> \in Seq(Event(Id))
    BY <1>1 DEF TypeOK, Aggregate
  <2>2. Replayed(agg, n) \in Aggregate(Id)
    BY <2>1 DEF Replayed, New, Aggregate
  <2>3. ReplayAborted(agg, n) \in Aggregate(Id)
    BY <2>1 DEF ReplayAborted, Aggregate
  <2> QED
    BY <1>3, <2>2, <2>3
<1>6. agg.events \in Seq(Event(Id))
  BY DEF TypeOK, Aggregate
<1> QED
  BY <1>3, <1>4, <1>5, <1>6, IdsOfEvents DEF TypeOK

LEMMA LogsType ==
  ASSUME NEW n \in Nat, NEW since \in 0 .. MaxEvents
  PROVE  LET new == [i \in 1 .. n |-> Log(since)]
         IN  /\ new \in Seq([since : 0 .. MaxEvents, entries : SUBSET Id])
             /\ Len(new) = n
<1>1. Log(since) \in [since : 0 .. MaxEvents, entries : SUBSET Id]
  BY DEF Log
<1> QED
  BY <1>1

LEMMA WrappedType ==
  ASSUME NEW build
  PROVE  /\ Wrapped(build) \in Seq({"live", "dead"})
         /\ "audit" \in build => Wrapped(build) # <<>>
<1>1. <<"live">> \in Seq({"live", "dead"}) /\ <<>> \in Seq({"live", "dead"}) /\ <<"live">> # <<>>
  OBVIOUS
<1> QED
  BY <1>1 DEF Wrapped

(* Type correctness: every variable keeps its type, with one log for each  *)
(* audit wrapper and a wrapper while the audit capability is attached.     *)
THEOREM TypeCorrect == Spec => []TypeOK
<1>1. Init => TypeOK
  <2> SUFFICES ASSUME Init PROVE TypeOK
    OBVIOUS
  <2>1. wrappers \in Seq({"live", "dead"}) /\ ("audit" \in caps => wrappers # <<>>)
    BY WrappedType DEF Init
  <2>2. DOMAIN wrappers = 1 .. Len(wrappers) /\ Len(wrappers) \in Nat
    BY <2>1
  <2>3. logs \in Seq([since : 0 .. MaxEvents, entries : SUBSET Id]) /\ Len(logs) = Len(wrappers)
    <3> DEFINE n == Len(wrappers)
    <3>1. logs = [i \in 1 .. n |-> Log(0)]
      BY <2>2 DEF Init
    <3>2. 0 \in 0 .. MaxEvents /\ n \in Nat
      BY <2>2, AggregateAssumption
    <3> HIDE DEF n
    <3>3. logs \in Seq([since : 0 .. MaxEvents, entries : SUBSET Id]) /\ Len(logs) = n
      BY <3>1, <3>2, LogsType
    <3> QED
      BY <3>3 DEF n
  <2>4. caps \subseteq Capabilities
    BY AggregateAssumption DEF Init
  <2>5. agg \in Aggregate(Id)
    BY NewType DEF Init
  <2> QED
    BY <2>1, <2>3, <2>4, <2>5, AggregateAssumption DEF Init, TypeOK, Steps, Kinds
<1>2. TypeOK /\ [Next]_vars => TypeOK'
  <2> SUFFICES ASSUME TypeOK, [Next]_vars PROVE TypeOK'
    OBVIOUS
  <2> USE DEF object, audit, call
  <2>0. MaxEvents \in Nat /\ agg.events \in Seq(Event(Id))
    BY AggregateAssumption DEF TypeOK, Aggregate
  <2>1. CASE Construct
    <3>1. wrappers' \in Seq({"live", "dead"}) /\ ("audit" \in caps' => wrappers' # <<>>)
      BY <2>1, WrappedType DEF Construct
    <3>2. DOMAIN wrappers' = 1 .. Len(wrappers') /\ Len(wrappers') \in Nat
      BY <3>1
    <3>3. logs' \in Seq([since : 0 .. MaxEvents, entries : SUBSET Id]) /\ Len(logs') = Len(wrappers')
      <4> DEFINE n == Len(wrappers')
      <4>1. logs' = [i \in 1 .. n |-> Log(applied)]
        BY <2>1, <3>2 DEF Construct
      <4>2. applied \in 0 .. MaxEvents /\ n \in Nat
        BY <3>2 DEF TypeOK
      <4> HIDE DEF n
      <4>3. logs' \in Seq([since : 0 .. MaxEvents, entries : SUBSET Id]) /\ Len(logs') = n
        BY <4>1, <4>2, LogsType
      <4> QED
        BY <4>3 DEF n
    <3>4. caps' \subseteq Capabilities
      BY <2>1, AggregateAssumption DEF Construct
    <3>5. agg' \in Aggregate(Id)
      BY <2>1, NewType DEF Construct
    <3>6. discarded' \subseteq Id
      BY <2>0, <2>1, IdsOfEvents DEF Construct, TypeOK
    <3> QED
      BY <2>1, <3>1, <3>3, <3>4, <3>5, <3>6 DEF Construct, TypeOK, Steps
  <2>2. ASSUME NEW name \in Capabilities, AddCapability(name) PROVE TypeOK'
    <3>1. Log(applied) \in [since : 0 .. MaxEvents, entries : SUBSET Id]
      BY DEF Log, TypeOK
    <3>2. caps' \subseteq Capabilities
      BY <2>2 DEF AddCapability, TypeOK
    <3>3. CASE name = "audit"
      <4>1. /\ wrappers' = Append(wrappers, "live") /\ logs' = Append(logs, Log(applied))
            /\ wrappers' # <<>>
        BY <2>2, <3>3 DEF AddCapability, TypeOK
      <4> QED
        BY <2>2, <3>1, <3>2, <4>1 DEF AddCapability, TypeOK
    <3>4. CASE name # "audit"
      <4>1. UNCHANGED <<wrappers, logs>> /\ ("audit" \in caps' => "audit" \in caps)
        BY <2>2, <3>4 DEF AddCapability
      <4> QED
        BY <2>2, <3>2, <4>1 DEF AddCapability, TypeOK
    <3> QED
      BY <3>3, <3>4
  <2>3. ASSUME NEW name \in Capabilities, RemoveCapability(name) PROVE TypeOK'
    <3>1. Log(applied) \in [since : 0 .. MaxEvents, entries : SUBSET Id]
      BY DEF Log, TypeOK
    <3>2. caps' \subseteq Capabilities /\ orphans' \subseteq Calls
      BY <2>3 DEF RemoveCapability, TypeOK
    <3>3. CASE name = "audit"
      <4>1. Len(wrappers) \in 1 .. Len(wrappers) /\ Len(logs) = Len(wrappers)
        BY <2>3, <3>3 DEF RemoveCapability, TypeOK
      <4>2. /\ wrappers' = [wrappers EXCEPT ![Len(wrappers)] = "dead"]
            /\ logs' = [logs EXCEPT ![Len(logs)] = Log(applied)]
            /\ "audit" \notin caps'
        BY <2>3, <3>3 DEF RemoveCapability
      <4>3. wrappers' \in Seq({"live", "dead"}) /\ Len(wrappers') = Len(wrappers)
        BY <4>1, <4>2, ExceptSeq DEF TypeOK
      <4>4. /\ logs' \in Seq([since : 0 .. MaxEvents, entries : SUBSET Id])
            /\ Len(logs') = Len(logs)
        BY <3>1, <4>1, <4>2, ExceptSeq DEF TypeOK
      <4> QED
        BY <2>3, <3>2, <4>1, <4>2, <4>3, <4>4 DEF RemoveCapability, TypeOK
    <3>4. CASE name # "audit"
      <4>1. UNCHANGED <<wrappers, logs>> /\ ("audit" \in caps' => "audit" \in caps)
        BY <2>3, <3>4 DEF RemoveCapability
      <4> QED
        BY <2>3, <3>2, <4>1 DEF RemoveCapability, TypeOK
    <3> QED
      BY <3>3, <3>4
  <2>4. CASE Apply
    <3>1. applied + 1 \in Id /\ applied' \in 0 .. MaxEvents
      BY <2>0, <2>4 DEF Apply, TypeOK, Id
    <3>2. agg' \in Aggregate(Id)
      BY <2>4, <3>1, AppliedType DEF Apply, TypeOK
    <3>3. state' \in Seq(Id) /\ poison' \subseteq Id
      <4>1. Append(state, applied + 1) \in Seq(Id)
        BY <3>1, AppendProperties DEF TypeOK
      <4>2. state' \in {state, Append(state, applied + 1)}
        BY <2>4 DEF Apply
      <4>3. poison' \in {poison, poison \cup {applied + 1}}
        BY <2>4 DEF Apply
      <4> QED
        BY <3>1, <4>1, <4>2, <4>3 DEF TypeOK
    <3>4. failures' \in 0 .. MaxFailures
      BY <2>4, AggregateAssumption DEF Apply, Fail, TypeOK
    <3>5. /\ logs' \in Seq([since : 0 .. MaxEvents, entries : SUBSET Id])
          /\ Len(logs') = Len(logs)
      <4>1. CASE logs' = logs
        BY <4>1 DEF TypeOK
      <4>2. CASE logs' = [i \in DOMAIN logs |->
                            [logs[i] EXCEPT !.entries = @ \cup {applied + 1}]]
        <5>1. DOMAIN logs = 1 .. Len(logs) /\ Len(logs) \in Nat
          BY DEF TypeOK
        <5>2. \A i \in 1 .. Len(logs) :
                [logs[i] EXCEPT !.entries = @ \cup {applied + 1}]
                  \in [since : 0 .. MaxEvents, entries : SUBSET Id]
          <6>1. \A i \in 1 .. Len(logs) : logs[i] \in [since : 0 .. MaxEvents, entries : SUBSET Id]
            BY ElementOfSeq DEF TypeOK
          <6> QED
            BY <3>1, <6>1
        <5>3. logs' = [i \in 1 .. Len(logs) |->
                         [logs[i] EXCEPT !.entries = @ \cup {applied + 1}]]
          BY <4>2, <5>1
        <5> QED
          BY <5>1, <5>2, <5>3
      <4> QED
        BY <2>4, <4>1, <4>2 DEF Apply
    <3> QED
      BY <2>4, <3>1, <3>2, <3>3, <3>4, <3>5 DEF Apply, TypeOK
  <2>5. CASE CreateSnapshot
    <3>1. [version |-> agg.version, state |-> state] \in [version : Nat, state : Seq(Id)]
      BY DEF TypeOK, Aggregate
    <3> QED
      BY <2>5, <3>1 DEF CreateSnapshot, TypeOK
  <2>6. CASE RestoreFromSnapshot
    <3>1. snapshot[1] \in [version : Nat, state : Seq(Id)]
      <4>1. 1 \in 1 .. Len(snapshot) /\ snapshot \in Seq([version : Nat, state : Seq(Id)])
        BY <2>6, EmptySeq DEF RestoreFromSnapshot, TypeOK
      <4> QED
        BY <4>1, ElementOfSeq
    <3>2. agg' \in Aggregate(Id) /\ state' \in Seq(Id)
      BY <2>6, <3>1, NewType DEF RestoreFromSnapshot
    <3>3. discarded' \subseteq Id
      BY <2>0, <2>6, IdsOfEvents DEF RestoreFromSnapshot, TypeOK
    <3> QED
      BY <2>6, <3>2, <3>3 DEF RestoreFromSnapshot, TypeOK
  <2>7. ASSUME NEW k \in Calls, SaveToEventStore(k) \/ LoadFromEventStore(k) \/ RebuildFromVersion(k)
        PROVE  TypeOK'
    <3>1. \E what \in Kinds, events \in Seq(Event(Id)), version \in Nat :
            Call(k, what, events, version)
      <4>1. <<>> \in Seq(Event(Id)) /\ agg.version \in Nat /\ 0 \in Nat
        BY DEF TypeOK, Aggregate
      <4>2. 0 .. Len(store) \subseteq Nat
        OBVIOUS
      <4>3. "save" \in Kinds /\ "load" \in Kinds /\ "rebuild" \in Kinds
        BY DEF Kinds
      <4>4. CASE SaveToEventStore(k)
        BY <2>0, <4>1, <4>3, <4>4 DEF SaveToEventStore
      <4>5. CASE LoadFromEventStore(k)
        BY <4>1, <4>3, <4>5 DEF LoadFromEventStore
      <4>6. CASE RebuildFromVersion(k)
        BY <4>1, <4>2, <4>3, <4>6 DEF RebuildFromVersion
      <4> QED
        BY <2>7, <4>4, <4>5, <4>6
    <3> QED
      BY <3>1 DEF Call, TypeOK, Steps
  <2>8. ASSUME NEW k \in Calls, StoreAnswers(k) PROVE TypeOK'
    <3>1. carried[k] \in Seq(Event(Id)) /\ store \in Seq(Event(Id)) /\ base[k] \in Nat
      BY DEF TypeOK
    <3>2. SubSeq(store, base[k] + 1, Len(store)) \in Seq(Event(Id))
      <4>1. \A i \in base[k] + 1 .. Len(store) : store[i] \in Event(Id)
        BY <3>1
      <4>2. base[k] + 1 \in Int /\ Len(store) \in Int
        BY <3>1
      <4> QED
        BY <4>1, <4>2, SubSeqProperties
    <3>3. store' \in Seq(Event(Id)) /\ pc' \in [Calls -> Steps] /\ orphans' \subseteq Calls
      <4>1. store \o carried[k] \in Seq(Event(Id))
        BY <3>1, ConcatProperties
      <4>2. store' \in {store, store \o carried[k]}
        BY <2>8 DEF StoreAnswers
      <4>3. \/ pc' = [pc EXCEPT ![k] = "answered"]
            \/ pc' = [pc EXCEPT ![k] = "idle"]
        BY <2>8 DEF StoreAnswers
      <4>4. orphans' \in {orphans, orphans \ {k}}
        BY <2>8 DEF StoreAnswers
      <4> QED
        BY <3>1, <4>1, <4>2, <4>3, <4>4 DEF TypeOK, Steps
    <3>4. carried' \in [Calls -> Seq(Event(Id))]
      <4>1. <<>> \in Seq(Event(Id))
        OBVIOUS
      <4>2. \E q \in Seq(Event(Id)) : carried' = carried \/ carried' = [carried EXCEPT ![k] = q]
        BY <2>8, <3>2, <4>1 DEF StoreAnswers
      <4> QED
        BY <4>2 DEF TypeOK
    <3>5. failures' \in 0 .. MaxFailures
      BY <2>8, AggregateAssumption DEF StoreAnswers, Fail, TypeOK
    <3> QED
      BY <2>8, <3>3, <3>4, <3>5 DEF StoreAnswers, TypeOK
  <2>9. ASSUME NEW k \in Calls, Return(k) PROVE TypeOK'
    <3>1. agg' \in Aggregate(Id) /\ state' \in Seq(Id) /\ discarded' \subseteq Id
      <4>1. carried[k] \in Seq(Event(Id)) /\ agg.version \in Nat
        BY DEF TypeOK, Aggregate
      <4>2. CASE agg' = Committed(agg) /\ UNCHANGED <<state, discarded>>
        BY <4>1, <4>2, NewType DEF Committed, TypeOK
      <4>3. CASE Replay(carried[k])
        BY <4>1, <4>3, ReplayType
      <4>4. CASE UNCHANGED object
        BY <4>4 DEF TypeOK
      <4> QED
        BY <2>9, <4>2, <4>3, <4>4 DEF Return
    <3>2. /\ pc' \in [Calls -> Steps] /\ carried' \in [Calls -> Seq(Event(Id))]
          /\ orphans' \subseteq Calls
      BY <2>9 DEF Return, TypeOK, Steps
    <3> QED
      BY <2>9, <3>1, <3>2 DEF Return, TypeOK
  <2>10. CASE UNCHANGED vars
    BY <2>10 DEF vars, TypeOK
  <2> QED
    BY <2>1, <2>2, <2>3, <2>4, <2>5, <2>6, <2>7, <2>8, <2>9, <2>10 DEF Next
<1> QED
  BY <1>1, <1>2, PTL DEF Spec


-----------------------------------------------------------------------------
(* The audit logs.  A log starts where its wrapper was attached, and a     *)
(* handler that throws is among the events applied.                        *)
AuditInv ==
  /\ AuditTrail
  /\ poison \subseteq 1 .. applied
  /\ \A i \in DOMAIN logs : logs[i].since <= applied

LEMMA AuditStep ==
  ASSUME TypeOK, AuditInv, [Next]_vars
  PROVE  AuditInv'
<1> USE DEF object, audit, call
<1>0. /\ wrappers \in Seq({"live", "dead"}) /\ Len(wrappers) \in Nat
      /\ DOMAIN wrappers = 1 .. Len(wrappers) /\ DOMAIN logs = 1 .. Len(wrappers)
      /\ applied \in Nat
      /\ \A i \in 1 .. Len(wrappers) :
           logs[i].since \in Nat /\ logs[i].since <= applied
             /\ logs[i] = [since |-> logs[i].since, entries |-> logs[i].entries]
  <2>1. \A i \in 1 .. Len(logs) : logs[i] \in [since : 0 .. MaxEvents, entries : SUBSET Id]
    BY ElementOfSeq DEF TypeOK
  <2>2. DOMAIN logs = 1 .. Len(logs) /\ DOMAIN wrappers = 1 .. Len(wrappers)
        /\ Len(wrappers) \in Nat
    BY LenProperties DEF TypeOK
  <2> QED
    BY <2>1, <2>2, AggregateAssumption DEF TypeOK, AuditInv
<1>1. CASE UNCHANGED <<wrappers, logs, poison, applied>>
  BY <1>1 DEF AuditInv, AuditTrail
<1>2. CASE Construct
  <2>1. UNCHANGED <<poison, applied>> /\ logs' = [i \in DOMAIN wrappers' |-> Log(applied)]
    BY <1>2 DEF Construct
  <2>2. applied + 1 .. applied = {}
    BY <1>0
  <2> QED
    BY <1>0, <2>1, <2>2 DEF AuditInv, AuditTrail, Log
<1>3. ASSUME wrappers' = Append(wrappers, "live"), logs' = Append(logs, Log(applied)),
             UNCHANGED <<poison, applied>>
      PROVE  AuditInv'
  <2> DEFINE n == Len(wrappers)
  <2>1. /\ DOMAIN wrappers' = 1 .. n + 1 /\ DOMAIN logs' = 1 .. n + 1
        /\ \A i \in 1 .. n : wrappers'[i] = wrappers[i] /\ logs'[i] = logs[i]
        /\ logs'[n + 1] = Log(applied)
    <3>1. Len(logs) = n /\ n \in Nat /\ logs \in Seq([since : 0 .. MaxEvents, entries : SUBSET Id])
          /\ Log(applied) \in [since : 0 .. MaxEvents, entries : SUBSET Id]
      BY <1>0 DEF TypeOK, Log
    <3>2. /\ Len(wrappers') = n + 1 /\ wrappers' \in Seq({"live", "dead"})
          /\ \A i \in 1 .. n : wrappers'[i] = wrappers[i]
      BY <1>0, <1>3, AppendProperties
    <3>3. /\ Len(logs') = n + 1 /\ logs' \in Seq([since : 0 .. MaxEvents, entries : SUBSET Id])
          /\ \A i \in 1 .. n : logs'[i] = logs[i]
          /\ logs'[n + 1] = Log(applied)
      BY <1>3, <3>1, AppendProperties
    <3> QED
      BY <3>2, <3>3, LenProperties
  <2>2. applied + 1 .. applied = {}
    BY <1>0
  <2> HIDE DEF n
  <2>3. \A i \in DOMAIN wrappers' : i = n + 1 \/ i \in 1 .. n
    BY <1>0, <2>1 DEF n
  <2>4. n \in Nat /\ DOMAIN wrappers = 1 .. n /\ DOMAIN logs = 1 .. n
    BY <1>0 DEF n
  <2>5. AuditTrail'
    <3> SUFFICES ASSUME NEW i \in DOMAIN wrappers', wrappers'[i] = "live"
                 PROVE  logs'[i].entries = (logs'[i].since + 1 .. applied) \ poison
      BY <1>3 DEF AuditTrail
    <3>1. CASE i = n + 1
      BY <2>1, <2>2, <3>1 DEF Log
    <3>2. CASE i \in 1 .. n
      BY <2>1, <2>4, <3>2 DEF AuditInv, AuditTrail
    <3> QED
      BY <2>3, <3>1, <3>2
  <2>6. \A i \in DOMAIN logs' : logs'[i].since <= applied
    <3> SUFFICES ASSUME NEW i \in DOMAIN logs' PROVE logs'[i].since <= applied
      OBVIOUS
    <3>1. CASE i = n + 1
      BY <1>0, <2>1, <3>1 DEF Log
    <3>2. CASE i \in 1 .. n
      BY <2>1, <2>4, <3>2 DEF AuditInv
    <3> QED
      BY <2>1, <2>3, <3>1, <3>2
  <2> QED
    BY <1>3, <2>5, <2>6 DEF AuditInv
<1>4. ASSUME NEW j \in DOMAIN wrappers,
             wrappers' = [wrappers EXCEPT ![j] = "dead"],
             logs' = [logs EXCEPT ![j] = Log(applied)],
             UNCHANGED <<poison, applied>>
      PROVE  AuditInv'
  BY <1>0, <1>4 DEF AuditInv, AuditTrail, Log
<1>5. CASE Apply
  <2>1. \A i \in DOMAIN wrappers : wrappers[i] = "live"
    <3>1. \A i \in DOMAIN wrappers : wrappers[i] \in {"live", "dead"}
      BY <1>0, ElementOfSeq
    <3> QED
      BY <1>5, <3>1 DEF Apply, Blocked
  <2>2. UNCHANGED wrappers /\ applied' = applied + 1
    BY <1>5 DEF Apply
  <2>3. \A i \in DOMAIN logs : logs[i].entries = (logs[i].since + 1 .. applied) \ poison
    BY <1>0, <2>1 DEF AuditInv, AuditTrail
  <2>4. CASE /\ logs' = [i \in DOMAIN logs |-> [logs[i] EXCEPT !.entries = @ \cup {applied + 1}]]
             /\ UNCHANGED poison
    <3>1. \A i \in DOMAIN logs :
            logs'[i].since = logs[i].since /\ logs'[i].entries = logs[i].entries \cup {applied + 1}
      BY <1>0, <2>4
    <3>2. applied + 1 \notin poison
      BY <1>0 DEF AuditInv
    <3>3. \A i \in DOMAIN logs :
            (logs[i].since + 1 .. applied + 1) = (logs[i].since + 1 .. applied) \cup {applied + 1}
      BY <1>0
    <3>4. \A i \in DOMAIN logs :
            logs'[i].entries = (logs'[i].since + 1 .. applied + 1) \ poison
      BY <2>3, <3>1, <3>2, <3>3
    <3>5. DOMAIN logs' = DOMAIN logs /\ poison \subseteq 1 .. applied + 1
          /\ \A i \in DOMAIN logs : logs'[i].since <= applied + 1
      BY <1>0, <2>4, <3>1 DEF AuditInv
    <3> QED
      BY <1>0, <2>2, <2>4, <3>4, <3>5 DEF AuditInv, AuditTrail
  <2>5. CASE UNCHANGED logs /\ poison' = poison \cup {applied + 1}
    <3>1. \A i \in DOMAIN logs :
            (logs[i].since + 1 .. applied + 1) = (logs[i].since + 1 .. applied) \cup {applied + 1}
      BY <1>0
    <3>2. \A i \in DOMAIN logs : applied + 1 \notin (logs[i].since + 1 .. applied)
      BY <1>0
    <3>3. \A i \in DOMAIN logs :
            logs'[i].entries = (logs'[i].since + 1 .. applied + 1) \ poison'
      BY <2>3, <2>5, <3>1, <3>2
    <3>4. poison' \subseteq 1 .. applied + 1
      BY <1>0, <2>5 DEF AuditInv
    <3>5. \A i \in DOMAIN logs : logs'[i].since <= applied + 1
      BY <1>0, <2>5
    <3> QED
      BY <1>0, <2>2, <2>5, <3>3, <3>4, <3>5 DEF AuditInv, AuditTrail
  <2> QED
    BY <1>5, <2>4, <2>5 DEF Apply
<1>6. ASSUME NEW name \in Capabilities, AddCapability(name) PROVE AuditInv'
  BY <1>1, <1>3, <1>6 DEF AddCapability
<1>7. ASSUME NEW name \in Capabilities, RemoveCapability(name) PROVE AuditInv'
  <2>1. CASE name = "audit"
    <3>1. Len(wrappers) \in DOMAIN wrappers /\ Len(logs) = Len(wrappers)
      BY <1>0, <1>7, <2>1, EmptySeq DEF RemoveCapability, TypeOK
    <3> QED
      BY <1>4, <1>7, <2>1, <3>1 DEF RemoveCapability
  <2>2. CASE name # "audit"
    BY <1>1, <1>7, <2>2 DEF RemoveCapability
  <2> QED
    BY <2>1, <2>2
<1>8. ASSUME NEW k \in Calls,
             \/ SaveToEventStore(k) \/ LoadFromEventStore(k) \/ RebuildFromVersion(k)
             \/ StoreAnswers(k) \/ Return(k)
      PROVE  UNCHANGED <<wrappers, logs, poison, applied>>
  BY <1>8 DEF SaveToEventStore, LoadFromEventStore, RebuildFromVersion, Call, StoreAnswers, Return
<1> QED
  BY <1>1, <1>2, <1>5, <1>6, <1>7, <1>8
  DEF Next, vars, CreateSnapshot, RestoreFromSnapshot

(* An audit log holds every event applied since it was attached, but for   *)
(* those whose handler threw: while audits are attached again, removed and *)
(* combined with snapshots (audit-capability.ts).                          *)
THEOREM AuditsAreComplete == Spec => []AuditTrail
<1>1. Init => AuditInv
  <2>1. 1 .. 0 = {} /\ 0 + 1 .. 0 = {}
    OBVIOUS
  <2> SUFFICES ASSUME Init PROVE AuditInv
    OBVIOUS
  <2>2. \A i \in DOMAIN wrappers : logs[i].since = 0 /\ logs[i].entries = {}
    BY DEF Init, Log
  <2>3. DOMAIN logs = DOMAIN wrappers /\ applied = 0 /\ poison = {}
    BY DEF Init
  <2>4. \A i \in DOMAIN wrappers : (logs[i].since + 1 .. applied) \ poison = {}
    BY <2>1, <2>2, <2>3
  <2>5. AuditTrail
    BY <2>2, <2>4 DEF AuditTrail
  <2>6. \A i \in DOMAIN logs : logs[i].since <= applied
    BY <2>2, <2>3
  <2> QED
    BY <2>3, <2>5, <2>6 DEF AuditInv
<1>2. TypeOK /\ AuditInv /\ [Next]_vars => AuditInv'
  BY AuditStep
<1>3. AuditInv => AuditTrail
  BY DEF AuditInv
<1> QED
  BY <1>1, <1>2, <1>3, TypeCorrect, PTL DEF Spec


-----------------------------------------------------------------------------
(* The numbers in the store.  The pending events are numbered up to the    *)
(* version of the aggregate, also when the version no longer follows from  *)
(* initialVersion, and so are those of a save that waits for the store.    *)
Stamped(events, last) ==
  \A i \in DOMAIN events : events[i].version = last - Len(events) + i

NumberInv ==
  /\ StoreNumbered
  /\ Stamped(agg.events, agg.version)
  /\ \A k \in Calls : pc[k] = "called" /\ kind[k] = "save" => Stamped(carried[k], base[k])

LEMMA NoneIsStamped ==
  ASSUME NEW last
  PROVE  Stamped(<<>>, last)
BY DEF Stamped

LEMMA AppliedIsStamped ==
  ASSUME NEW a \in Aggregate(Id), NEW e \in Id, Stamped(a.events, a.version)
  PROVE  Stamped(Applied(a, e).events, Applied(a, e).version)
<1> DEFINE n == Len(a.events)
           new == [id |-> e, version |-> a.version + 1]
<1>1. a.events \in Seq(Event(Id)) /\ n \in Nat /\ a.version \in Nat /\ DOMAIN a.events = 1 .. n
  BY LenProperties DEF Aggregate
<1>2. new \in Event(Id)
  BY AppliedType
<1>3. Applied(a, e).events = Append(a.events, new) /\ Applied(a, e).version = a.version + 1
  BY DEF Applied
<1> HIDE DEF n
<1>4. /\ Append(a.events, new) \in Seq(Event(Id))
      /\ Len(Append(a.events, new)) = n + 1
      /\ \A i \in 1 .. n : Append(a.events, new)[i] = a.events[i]
      /\ Append(a.events, new)[n + 1] = new
  BY <1>1, <1>2, AppendProperties DEF n
<1>5. DOMAIN Append(a.events, new) = 1 .. n + 1
  BY <1>4, LenProperties
<1>6. ASSUME NEW i \in 1 .. n + 1
      PROVE  Append(a.events, new)[i].version = (a.version + 1) - (n + 1) + i
  <2>1. CASE i \in 1 .. n
    <3>1. a.events[i].version = a.version - n + i
      BY <1>1, <2>1 DEF Stamped, n
    <3>2. Append(a.events, new)[i] = a.events[i]
      BY <1>4, <2>1
    <3>3. a.version - n + i = (a.version + 1) - (n + 1) + i
      BY <1>1, <2>1
    <3> QED
      BY <3>1, <3>2, <3>3
  <2>2. CASE i = n + 1
    BY <1>1, <1>4, <2>2
  <2> QED
    BY <1>1, <2>1, <2>2
<1> QED
  BY <1>3, <1>4, <1>5, <1>6 DEF Stamped

(* Whatever a step makes of the aggregate, the events it leaves pending    *)
(* are stamped.                                                            *)
LEMMA AggregateStaysStamped ==
  ASSUME TypeOK, Stamped(agg.events, agg.version), [Next]_vars
  PROVE  Stamped(agg'.events, agg'.version)
<1> USE DEF object
<1>1. CASE agg' = agg
  BY <1>1
<1>2. ASSUME NEW v, agg' = New(v) PROVE Stamped(agg'.events, agg'.version)
  BY <1>2, NoneIsStamped DEF New
<1>3. CASE Construct \/ RestoreFromSnapshot
  BY <1>2, <1>3 DEF Construct, RestoreFromSnapshot
<1>4. CASE Apply
  <2>1. applied + 1 \in Id /\ agg \in Aggregate(Id)
    BY <1>4, AggregateAssumption DEF Apply, TypeOK, Id
  <2>2. agg' = Applied(agg, applied + 1)
    BY <1>4 DEF Apply
  <2> QED
    BY <2>1, <2>2, AppliedIsStamped
<1>5. ASSUME NEW k \in Calls, Return(k) PROVE Stamped(agg'.events, agg'.version)
  <2>1. CASE agg' = Committed(agg)
    BY <1>2, <2>1 DEF Committed
  <2>2. CASE Replay(carried[k])
    <3>1. \/ \E v : agg' = New(v)
          \/ \E v : agg' = [agg EXCEPT !.version = v, !.events = <<>>]
      BY <2>2 DEF Replay, Replayed, ReplayAborted
    <3>2. agg.events \in Seq(Event(Id)) /\ agg \in Aggregate(Id)
      BY DEF TypeOK, Aggregate
    <3>3. ASSUME NEW v, agg' = [agg EXCEPT !.version = v, !.events = <<>>]
          PROVE  agg'.events = <<>>
      BY <3>2, <3>3 DEF Aggregate
    <3> QED
      BY <1>2, <3>1, <3>3, NoneIsStamped
  <2> QED
    BY <1>1, <1>5, <2>1, <2>2 DEF Return
<1>6. ASSUME NEW name \in Capabilities, AddCapability(name) \/ RemoveCapability(name)
      PROVE  agg' = agg
  BY <1>6 DEF AddCapability, RemoveCapability
<1>7. ASSUME NEW k \in Calls,
             SaveToEventStore(k) \/ LoadFromEventStore(k) \/ RebuildFromVersion(k) \/ StoreAnswers(k)
      PROVE  agg' = agg
  BY <1>7 DEF SaveToEventStore, LoadFromEventStore, RebuildFromVersion, Call, StoreAnswers
<1> QED
  BY <1>1, <1>3, <1>4, <1>5, <1>6, <1>7 DEF Next, vars, CreateSnapshot

LEMMA NumberStep ==
  ASSUME TypeOK, NumberInv, [Next]_vars
  PROVE  NumberInv'
<1> USE DEF object, call
<1>1. Stamped(agg'.events, agg'.version)
  BY AggregateStaysStamped DEF NumberInv
<1>2. CASE UNCHANGED <<store, pc, kind, carried, base>>
  BY <1>1, <1>2 DEF NumberInv, StoreNumbered
<1>3. CASE Construct
  BY <1>1, <1>3 DEF NumberInv, StoreNumbered, Construct
<1>4. ASSUME NEW k \in Calls, NEW what, NEW events, NEW version, Call(k, what, events, version),
             what = "save" => Stamped(events, version)
      PROVE  NumberInv'
  <2>1. ASSUME NEW j \in Calls, pc'[j] = "called", kind'[j] = "save"
        PROVE  Stamped(carried'[j], base'[j])
    BY <1>4, <2>1 DEF Call, NumberInv, TypeOK
  <2> QED
    BY <1>1, <1>4, <2>1 DEF Call, NumberInv, StoreNumbered
<1>5. ASSUME NEW k \in Calls,
             SaveToEventStore(k) \/ LoadFromEventStore(k) \/ RebuildFromVersion(k)
      PROVE  NumberInv'
  BY <1>4, <1>5 DEF SaveToEventStore, LoadFromEventStore, RebuildFromVersion, NumberInv
<1>6. ASSUME NEW k \in Calls, pc'[k] # "called",
             \A j \in Calls \ {k} : pc'[j] = pc[j] /\ carried'[j] = carried[j],
             UNCHANGED <<kind, base>>, StoreNumbered'
      PROVE  NumberInv'
  BY <1>1, <1>6 DEF NumberInv
<1>7. ASSUME NEW k \in Calls, StoreAnswers(k) PROVE NumberInv'
  <2>1. /\ pc'[k] # "called"
        /\ \A j \in Calls \ {k} : pc'[j] = pc[j] /\ carried'[j] = carried[j]
        /\ UNCHANGED <<kind, base>>
    BY <1>7 DEF StoreAnswers, TypeOK
  <2>2. CASE UNCHANGED store
    BY <1>6, <2>1, <2>2 DEF NumberInv, StoreNumbered
  <2>3. CASE /\ pc[k] = "called" /\ kind[k] = "save"
             /\ base[k] = Len(store) + Len(carried[k])
             /\ store' = store \o carried[k]
    <3> DEFINE new == carried[k]
    <3>1. store \in Seq(Event(Id)) /\ new \in Seq(Event(Id)) /\ Stamped(new, base[k])
      BY <2>3 DEF TypeOK, NumberInv
    <3>2. Len(store) \in Nat /\ Len(new) \in Nat /\ DOMAIN new = 1 .. Len(new)
          /\ DOMAIN store = 1 .. Len(store)
      BY <3>1, LenProperties
    <3>3. /\ DOMAIN store' = 1 .. Len(store) + Len(new)
          /\ \A i \in 1 .. Len(store) + Len(new) :
               store'[i] = IF i <= Len(store) THEN store[i] ELSE new[i - Len(store)]
      <4>1. /\ store \o new \in Seq(Event(Id))
            /\ Len(store \o new) = Len(store) + Len(new)
            /\ \A i \in 1 .. Len(store) + Len(new) :
                 (store \o new)[i] = IF i <= Len(store) THEN store[i] ELSE new[i - Len(store)]
        BY <3>1, ConcatProperties
      <4> QED
        BY <2>3, <4>1, LenProperties
    <3>4. ASSUME NEW i \in 1 .. Len(store) + Len(new) PROVE store'[i].version = i
      <4>1. CASE i <= Len(store)
        BY <3>2, <3>3, <4>1 DEF NumberInv, StoreNumbered
      <4>2. CASE ~(i <= Len(store))
        <5>1. i - Len(store) \in 1 .. Len(new)
          BY <3>2, <4>2
        <5>2. new[i - Len(store)].version = base[k] - Len(new) + (i - Len(store))
          BY <3>1, <3>2, <5>1 DEF Stamped
        <5> QED
          BY <2>3, <3>2, <3>3, <4>2, <5>2
      <4> QED
        BY <4>1, <4>2
    <3>5. StoreNumbered'
      BY <3>3, <3>4 DEF StoreNumbered
    <3> QED
      BY <1>6, <2>1, <3>5
  <2> QED
    BY <1>7, <2>2, <2>3 DEF StoreAnswers
<1>8. ASSUME NEW k \in Calls, Return(k) PROVE NumberInv'
  <2>1. /\ pc'[k] # "called"
        /\ \A j \in Calls \ {k} : pc'[j] = pc[j] /\ carried'[j] = carried[j]
        /\ UNCHANGED <<kind, base, store>>
    BY <1>8 DEF Return, TypeOK
  <2> QED
    BY <1>6, <2>1 DEF NumberInv, StoreNumbered
<1>9. ASSUME NEW name \in Capabilities, AddCapability(name) \/ RemoveCapability(name)
      PROVE  UNCHANGED <<store, pc, kind, carried, base>>
  BY <1>9 DEF AddCapability, RemoveCapability
<1>10. CASE Apply \/ CreateSnapshot \/ RestoreFromSnapshot \/ UNCHANGED vars
  BY <1>2, <1>10 DEF Apply, CreateSnapshot, RestoreFromSnapshot, vars
<1> QED
  BY <1>2, <1>3, <1>5, <1>7, <1>8, <1>9, <1>10 DEF Next

(* Whatever liberties the application takes, overlapping saves, reloads    *)
(* and outdated objects, the events in the store are numbered without gap  *)
(* or repetition.                                                          *)
THEOREM StoreStaysNumbered == Spec => []StoreNumbered
<1>1. Init => NumberInv
  BY NoneIsStamped DEF Init, NumberInv, StoreNumbered, New
<1>2. TypeOK /\ NumberInv /\ [Next]_vars => NumberInv'
  BY NumberStep
<1>3. NumberInv => StoreNumbered
  BY DEF NumberInv
<1> QED
  BY <1>1, <1>2, <1>3, TypeCorrect, PTL DEF Spec


-----------------------------------------------------------------------------
(* No event is lost.  An aggregate that nobody uses while a call awaits    *)
(* the store: one call at a time, and what a save took with it is still    *)
(* what is pending, which the store has once it has answered.              *)
KeptInv ==
  /\ NoEventLost
  /\ \A j, k \in Calls : pc[j] # "idle" /\ pc[k] # "idle" => j = k
  /\ \A k \in Calls : kind[k] = "save" =>
       /\ pc[k] # "idle" => carried[k] = agg.events
       /\ pc[k] = "answered" => Ids(carried[k]) \subseteq Ids(store)

LEMMA IdsOfConcat ==
  ASSUME NEW s \in Seq(Event(Id)), NEW t \in Seq(Event(Id))
  PROVE  Ids(s \o t) = Ids(s) \cup Ids(t)
<1>1. /\ s \o t \in Seq(Event(Id)) /\ Len(s \o t) = Len(s) + Len(t)
      /\ \A i \in 1 .. Len(s) + Len(t) : (s \o t)[i] = IF i <= Len(s) THEN s[i] ELSE t[i - Len(s)]
      /\ Len(s) \in Nat /\ Len(t) \in Nat
  BY ConcatProperties, LenProperties
<1>2. /\ Ids(s) = {s[i].id : i \in 1 .. Len(s)} /\ Ids(t) = {t[i].id : i \in 1 .. Len(t)}
      /\ Ids(s \o t) = {(s \o t)[i].id : i \in 1 .. Len(s) + Len(t)}
  BY <1>1, IdsOfEvents
<1>3. ASSUME NEW x \in Ids(s \o t) PROVE x \in Ids(s) \cup Ids(t)
  <2>1. PICK i \in 1 .. Len(s) + Len(t) : x = (s \o t)[i].id
    BY <1>2
  <2>2. CASE i <= Len(s)
    BY <1>1, <1>2, <2>1, <2>2
  <2>3. CASE ~(i <= Len(s))
    <3>1. i - Len(s) \in 1 .. Len(t)
      BY <1>1, <2>3
    <3> QED
      BY <1>1, <1>2, <2>1, <2>3, <3>1
  <2> QED
    BY <2>2, <2>3
<1>4. ASSUME NEW x \in Ids(s) PROVE x \in Ids(s \o t)
  <2>1. PICK i \in 1 .. Len(s) : x = s[i].id
    BY <1>2
  <2>2. i \in 1 .. Len(s) + Len(t) /\ (s \o t)[i] = s[i]
    BY <1>1
  <2> QED
    BY <1>2, <2>1, <2>2
<1>5. ASSUME NEW x \in Ids(t) PROVE x \in Ids(s \o t)
  <2>1. PICK i \in 1 .. Len(t) : x = t[i].id
    BY <1>2
  <2>2. i + Len(s) \in 1 .. Len(s) + Len(t) /\ (s \o t)[i + Len(s)] = t[i]
    BY <1>1
  <2> QED
    BY <1>2, <2>1, <2>2
<1> QED
  BY <1>3, <1>4, <1>5

LEMMA IdsOfApplied ==
  ASSUME NEW a \in Aggregate(Id), NEW e \in Id
  PROVE  Ids(Applied(a, e).events) = Ids(a.events) \cup {e}
<1> DEFINE new == [id |-> e, version |-> a.version + 1]
<1>1. a.events \in Seq(Event(Id)) /\ new \in Event(Id)
  BY AppliedType DEF Aggregate
<1>2. Applied(a, e).events = a.events \o <<new>>
  BY <1>1, AppendIsConcat DEF Applied
<1>3. <<new>> \in Seq(Event(Id)) /\ Ids(<<new>>) = {e}
  BY <1>1 DEF Ids
<1> QED
  BY <1>1, <1>2, <1>3, IdsOfConcat

LEMMA KeptStep ==
  ASSUME "overlap" \notin Liberties, TypeOK, KeptInv, [Next]_vars
  PROVE  KeptInv'
<1> USE DEF object, call
<1>0. /\ agg.events \in Seq(Event(Id)) /\ store \in Seq(Event(Id)) /\ Ids(<<>>) = {}
      /\ \A k \in Calls : pc[k] \in Steps /\ carried[k] \in Seq(Event(Id))
  BY DEF TypeOK, Aggregate, Ids
<1>1. ASSUME UNCHANGED <<agg, store, applied, discarded, pc, kind, carried>>
      PROVE  KeptInv'
  BY <1>1 DEF KeptInv, NoEventLost
<1>2. CASE Construct
  <2>1. agg'.events = <<>> /\ UNCHANGED <<store, applied>>
        /\ discarded' = discarded \cup Ids(agg.events) /\ \A k \in Calls : pc'[k] = "idle"
    BY <1>2 DEF Construct, New
  <2> QED
    BY <1>0, <2>1 DEF KeptInv, NoEventLost
<1>3. CASE Apply
  <2>1. Quiet /\ UNCHANGED <<pc, kind, carried, store, discarded>> /\ applied' = applied + 1
        /\ agg' = Applied(agg, applied + 1)
    BY <1>3 DEF Apply, Allowed
  <2>2. applied + 1 \in Id /\ agg \in Aggregate(Id) /\ applied \in Nat
    BY <1>3, AggregateAssumption DEF Apply, TypeOK, Id
  <2>3. Ids(agg'.events) = Ids(agg.events) \cup {applied + 1}
    BY <2>1, <2>2, IdsOfApplied
  <2>4. 1 .. applied + 1 = (1 .. applied) \cup {applied + 1}
    BY <2>2
  <2> QED
    BY <2>1, <2>3, <2>4 DEF KeptInv, NoEventLost, Quiet
<1>4. CASE RestoreFromSnapshot
  <2>1. Quiet /\ UNCHANGED <<pc, kind, carried, store, applied>> /\ agg'.events = <<>>
        /\ discarded' = discarded \cup Ids(agg.events)
    BY <1>4 DEF RestoreFromSnapshot, New
  <2> QED
    BY <1>0, <2>1 DEF KeptInv, NoEventLost, Quiet
<1>5. ASSUME NEW k \in Calls,
             SaveToEventStore(k) \/ LoadFromEventStore(k) \/ RebuildFromVersion(k)
      PROVE  KeptInv'
  <2>1. PICK what, events, version :
          Call(k, what, events, version) /\ (what = "save" => events = agg.events)
    BY <1>5 DEF SaveToEventStore, LoadFromEventStore, RebuildFromVersion
  <2>2. Quiet /\ UNCHANGED <<agg, store, applied, discarded>>
        /\ pc' = [pc EXCEPT ![k] = "called"] /\ kind' = [kind EXCEPT ![k] = what]
        /\ carried' = [carried EXCEPT ![k] = events]
    BY <2>1 DEF Call, Allowed
  <2>3. \A j \in Calls : pc'[j] # "idle" => j = k
    BY <2>2 DEF Quiet, TypeOK
  <2>4. pc'[k] = "called" /\ kind'[k] = what /\ carried'[k] = events
    BY <2>2 DEF TypeOK
  <2> QED
    BY <2>1, <2>2, <2>3, <2>4 DEF KeptInv, NoEventLost
<1>6. ASSUME NEW k \in Calls, StoreAnswers(k) PROVE KeptInv'
  <2>1. UNCHANGED <<agg, applied, discarded, kind>> /\ pc[k] = "called"
        /\ \A j \in Calls \ {k} : pc'[j] = pc[j] /\ pc[j] = "idle"
    BY <1>0, <1>6 DEF StoreAnswers, KeptInv, TypeOK
  <2>2. CASE kind[k] = "save" /\ store' = store \o carried[k] /\ UNCHANGED carried
    <3>1. Ids(store') = Ids(store) \cup Ids(carried[k])
      BY <1>0, <2>2, IdsOfConcat
    <3> QED
      BY <2>1, <2>2, <3>1 DEF KeptInv, NoEventLost
  <2>3. CASE store' = store /\ (kind[k] # "save" \/ pc'[k] = "idle")
    BY <2>1, <2>3 DEF KeptInv, NoEventLost
  <2> QED
    BY <1>6, <2>1, <2>2, <2>3 DEF StoreAnswers, TypeOK
<1>7. ASSUME NEW k \in Calls, Return(k) PROVE KeptInv'
  <2>1. pc[k] = "answered" /\ UNCHANGED <<store, applied, kind>> /\ \A j \in Calls : pc'[j] = "idle"
    BY <1>0, <1>7 DEF Return, KeptInv, TypeOK
  <2>2. CASE kind[k] = "save" /\ agg' = Committed(agg) /\ UNCHANGED discarded
    <3>1. Ids(agg.events) \subseteq Ids(store) /\ agg'.events = <<>>
      BY <2>1, <2>2 DEF KeptInv, Committed, New
    <3> QED
      BY <1>0, <2>1, <2>2, <3>1 DEF KeptInv, NoEventLost
  <2>3. CASE Replay(carried[k])
    <3>1. discarded' = discarded \cup Ids(agg.events)
      BY <2>3 DEF Replay
    <3> QED
      BY <2>1, <3>1 DEF KeptInv, NoEventLost
  <2>4. CASE UNCHANGED object
    BY <2>1, <2>4 DEF KeptInv, NoEventLost
  <2> QED
    BY <1>7, <2>2, <2>3, <2>4 DEF Return
<1>8. ASSUME NEW name \in Capabilities, AddCapability(name) \/ RemoveCapability(name)
      PROVE  UNCHANGED <<agg, store, applied, discarded, pc, kind, carried>>
  BY <1>8 DEF AddCapability, RemoveCapability
<1>9. CASE CreateSnapshot \/ UNCHANGED vars
  BY <1>1, <1>9 DEF CreateSnapshot, vars
<1> QED
  BY <1>1, <1>2, <1>3, <1>4, <1>5, <1>6, <1>7, <1>8, <1>9 DEF Next

LEMMA KeptInvariance ==
  ASSUME "overlap" \notin Liberties
  PROVE  Spec => []KeptInv
<1>1. Init => KeptInv
  BY DEF Init, KeptInv, NoEventLost
<1>2. TypeOK /\ KeptInv /\ [Next]_vars => KeptInv'
  BY KeptStep
<1> QED
  BY <1>1, <1>2, TypeCorrect, PTL DEF Spec

(* While nobody uses the aggregate during a call to the store, an event    *)
(* that was applied is pending, stored or was given up by a reload, a      *)
(* restore or a new object: capabilities attached and removed during the   *)
(* call, refusals and throwing handlers included.                          *)
THEOREM EventsAreKept ==
  ASSUME "overlap" \notin Liberties
  PROVE  Spec => []NoEventLost
<1>1. KeptInv => NoEventLost
  BY DEF KeptInv
<1> QED
  BY <1>1, KeptInvariance, PTL


-----------------------------------------------------------------------------
(* The state is the history.  With no liberties taken, what a call awaits  *)
(* leads from the aggregate it left to the one it comes back to: a save    *)
(* that was answered has moved what is pending to the end of the store, a  *)
(* load or rebuild brings what follows initialVersion.  A snapshot is the  *)
(* history of its own version.                                             *)
Stored(v) == SubSeq(store, 1, v)

CallLeadsOn(k) ==
  /\ Accounted(agg)
  /\ kind[k] = "save" =>
       /\ base[k] = agg.version
       /\ pc[k] = "answered" => /\ Len(store) = agg.version
                                /\ store = Stored(agg.initialVersion) \o agg.events
  /\ kind[k] # "save" =>
       /\ base[k] = agg.initialVersion
       /\ agg.events = <<>>
       /\ pc[k] = "answered" =>
            carried[k] = SubSeq(store, agg.initialVersion + 1, Len(store))

HistoryHolds ==
  /\ agg.initialVersion <= Len(store)
  /\ Accounted(agg) => state = Without(History, poison)
  /\ snapshot # <<>> =>
       /\ snapshot[1].version <= Len(store)
       /\ snapshot[1].state = Without(IdsInOrder(Stored(snapshot[1].version)), poison)
  /\ poison \cup Ids(store) \cup Ids(agg.events) \subseteq 1 .. applied

HistoryInv ==
  /\ HistoryHolds
  /\ \A k \in Calls : pc[k] # "idle" => CallLeadsOn(k)

(* A part of the store is a sequence of its events, and stays when the     *)
(* store grows.                                                            *)
LEMMA StoredType ==
  ASSUME TypeOK, NEW v \in Nat, v <= Len(store)
  PROVE  /\ Stored(v) \in Seq(Event(Id)) /\ Len(Stored(v)) = v
         /\ Ids(Stored(v)) \subseteq Ids(store)
<1>1. store \in Seq(Event(Id)) /\ Len(store) \in Nat
  BY DEF TypeOK
<1>2. \A i \in 1 .. v : i \in 1 .. Len(store) /\ store[i] \in Event(Id)
  BY <1>1, ElementOfSeq
<1>3. /\ Stored(v) \in Seq(Event(Id))
      /\ Len(Stored(v)) = IF 1 <= v THEN v - 1 + 1 ELSE 0
      /\ \A i \in 1 .. v - 1 + 1 : Stored(v)[i] = store[1 + i - 1]
  BY <1>1, <1>2, SubSeqProperties DEF Stored
<1>4. Len(Stored(v)) = v /\ \A i \in 1 .. v : Stored(v)[i] = store[i]
  BY <1>3
<1>5. /\ Ids(Stored(v)) = {Stored(v)[i].id : i \in 1 .. v}
      /\ Ids(store) = {store[i].id : i \in 1 .. Len(store)}
  BY <1>1, <1>3, <1>4, IdsOfEvents
<1>6. ASSUME NEW x \in Ids(Stored(v)) PROVE x \in Ids(store)
  <2>1. PICK i \in 1 .. v : x = Stored(v)[i].id
    BY <1>5
  <2> QED
    BY <1>2, <1>4, <1>5, <2>1
<1> QED
  BY <1>3, <1>4, <1>6

LEMMA StoredStays ==
  ASSUME TypeOK, NEW v \in Nat, v <= Len(store), NEW new \in Seq(Event(Id))
  PROVE  SubSeq(store \o new, 1, v) = Stored(v)
<1>1. store \in Seq(Event(Id))
  BY DEF TypeOK
<1>2. CASE v = 0
  BY <1>2, SubSeqEmpty DEF Stored
<1>3. CASE v # 0
  <2>1. v \in 1 .. Len(store) /\ 1 \in 1 .. Len(store)
    BY <1>1, <1>3
  <2> QED
    BY <1>1, <2>1, SubSeqOfConcat1 DEF Stored
<1> QED
  BY <1>2, <1>3

(* What an aggregate claims as its history is a sequence of ids that were  *)
(* applied.                                                                *)
LEMMA HistoryType ==
  ASSUME TypeOK, HistoryHolds
  PROVE  /\ Stored(agg.initialVersion) \in Seq(Event(Id))
         /\ agg.events \in Seq(Event(Id))
         /\ History \in Seq(Id)
         /\ \A i \in 1 .. Len(History) : History[i] \in 1 .. applied
<1>1. agg.initialVersion \in Nat /\ agg.events \in Seq(Event(Id))
  BY DEF TypeOK, Aggregate
<1>2. /\ Stored(agg.initialVersion) \in Seq(Event(Id))
      /\ Ids(Stored(agg.initialVersion)) \subseteq 1 .. applied
  BY <1>1, StoredType DEF HistoryHolds
<1> DEFINE all == Stored(agg.initialVersion) \o agg.events
<1>3. all \in Seq(Event(Id)) /\ Ids(all) \subseteq 1 .. applied
  BY <1>1, <1>2, ConcatProperties, IdsOfConcat DEF HistoryHolds
<1>4. History = IdsInOrder(all)
  BY DEF History, Stored
<1> HIDE DEF all
<1>5. /\ History \in Seq(Id) /\ Len(History) = Len(all)
      /\ \A i \in 1 .. Len(all) : History[i] = all[i].id
  BY <1>3, <1>4, IdsType
<1>6. Ids(all) = {all[i].id : i \in 1 .. Len(all)}
  BY <1>3, IdsOfEvents
<1> QED
  BY <1>1, <1>2, <1>3, <1>5, <1>6

LEMMA SnapshotType ==
  ASSUME TypeOK, HistoryHolds, snapshot # <<>>
  PROVE  /\ snapshot[1] \in [version : Nat, state : Seq(Id)]
         /\ IdsInOrder(Stored(snapshot[1].version)) \in Seq(Id)
         /\ \A i \in 1 .. Len(IdsInOrder(Stored(snapshot[1].version))) :
              IdsInOrder(Stored(snapshot[1].version))[i] \in 1 .. applied
<1> DEFINE v == snapshot[1].version
<1>1. snapshot[1] \in [version : Nat, state : Seq(Id)]
  <2>1. 1 \in 1 .. Len(snapshot) /\ snapshot \in Seq([version : Nat, state : Seq(Id)])
    BY EmptySeq DEF TypeOK
  <2> QED
    BY <2>1, ElementOfSeq
<1>2. v \in Nat /\ v <= Len(store)
  BY <1>1 DEF HistoryHolds
<1> HIDE DEF v
<1>3. Stored(v) \in Seq(Event(Id)) /\ Ids(Stored(v)) \subseteq 1 .. applied
  BY <1>2, StoredType DEF HistoryHolds
<1>4. /\ IdsInOrder(Stored(v)) \in Seq(Id) /\ Len(IdsInOrder(Stored(v))) = Len(Stored(v))
      /\ \A i \in 1 .. Len(Stored(v)) : IdsInOrder(Stored(v))[i] = Stored(v)[i].id
  BY <1>3, IdsType
<1>5. Ids(Stored(v)) = {Stored(v)[i].id : i \in 1 .. Len(Stored(v))}
  BY <1>3, IdsOfEvents
<1>6. \A i \in 1 .. Len(IdsInOrder(Stored(v))) : IdsInOrder(Stored(v))[i] \in 1 .. applied
  BY <1>3, <1>4, <1>5
<1> QED
  BY <1>1, <1>4, <1>6 DEF v


(* What stands when the store at most grows and the aggregate rests.       *)
LEMMA HistoryRests ==
  ASSUME TypeOK, HistoryHolds, UNCHANGED <<agg, state, snapshot, poison, applied>>,
         NEW new \in Seq(Event(Id)), Ids(new) \subseteq 1 .. applied,
         store' = store \o new
  PROVE  HistoryHolds'
<1>1. /\ agg \in Aggregate(Id) /\ store \in Seq(Event(Id))
      /\ Len(store) \in Nat /\ Len(new) \in Nat
  BY LenProperties DEF TypeOK
<1>2. Len(store') = Len(store) + Len(new) /\ Ids(store') = Ids(store) \cup Ids(new)
  BY <1>1, ConcatProperties, IdsOfConcat
<1>3. ASSUME NEW v \in Nat, v <= Len(store) PROVE SubSeq(store', 1, v) = Stored(v)
  BY <1>3, StoredStays
<1>4. agg.initialVersion \in Nat /\ agg.initialVersion <= Len(store)
  BY <1>1 DEF HistoryHolds, Aggregate
<1>5. History' = History
  BY <1>3, <1>4 DEF History, Stored
<1>6. ASSUME snapshot # <<>>
      PROVE  /\ snapshot[1].version <= Len(store')
             /\ Stored(snapshot[1].version)' = Stored(snapshot[1].version)
  <2>1. snapshot[1].version \in Nat /\ snapshot[1].version <= Len(store)
    BY <1>6, SnapshotType DEF HistoryHolds
  <2> QED
    BY <1>1, <1>2, <1>3, <2>1 DEF Stored
<1>7. (Accounted(agg) => state = Without(History, poison))'
  BY <1>5 DEF HistoryHolds
<1>8. (snapshot # <<>> =>
         /\ snapshot[1].version <= Len(store)
         /\ snapshot[1].state = Without(IdsInOrder(Stored(snapshot[1].version)), poison))'
  BY <1>6 DEF HistoryHolds
<1>9. (agg.initialVersion <= Len(store))'
  BY <1>1, <1>2, <1>4
<1>10. (poison \cup Ids(store) \cup Ids(agg.events) \subseteq 1 .. applied)'
  BY <1>2 DEF HistoryHolds
<1> QED
  BY <1>7, <1>8, <1>9, <1>10 DEF HistoryHolds

(* An aggregate without pending events stands where the store says.        *)
LEMMA HistoryAt ==
  ASSUME TypeOK, NEW v \in Nat, v <= Len(store)
  PROVE  IdsInOrder(Stored(v) \o <<>>) = IdsInOrder(Stored(v))
<1>1. Stored(v) \in Seq(Event(Id))
  BY StoredType
<1> QED
  BY <1>1, ConcatEmptySeq

LEMMA HistoryApplies ==
  ASSUME TypeOK, HistoryHolds, Apply, Accounted(agg)
  PROVE  HistoryHolds'
<1> DEFINE e == applied + 1
           new == [id |-> e, version |-> agg.version + 1]
<1>1. /\ UNCHANGED <<store, snapshot>> /\ applied' = e
      /\ agg' = Applied(agg, e) /\ e \in Id /\ applied \in Nat /\ agg \in Aggregate(Id)
  BY AggregateAssumption DEF Apply, TypeOK, Id
<1>2. /\ new \in Event(Id) /\ agg'.events = Append(agg.events, new)
      /\ agg'.initialVersion = agg.initialVersion
      /\ Ids(agg'.events) = Ids(agg.events) \cup {e}
  BY <1>1, AppliedType, IdsOfApplied DEF Applied
<1>3. \/ state' = Append(state, e) /\ poison' = poison
      \/ state' = state /\ poison' = poison \cup {e}
  BY DEF Apply
<1> HIDE DEF e, new
<1>4. /\ History \in Seq(Id) /\ agg.events \in Seq(Event(Id))
      /\ Stored(agg.initialVersion) \in Seq(Event(Id))
      /\ \A i \in 1 .. Len(History) : History[i] \in 1 .. applied
  BY HistoryType
<1>5. History' = Append(History, e)
  <2> DEFINE old == Stored(agg.initialVersion)
  <2>1. History' = IdsInOrder(old \o Append(agg.events, new)) /\ History = IdsInOrder(old \o agg.events)
    BY <1>1, <1>2 DEF History, Stored
  <2> HIDE DEF old
  <2>2. /\ old \in Seq(Event(Id)) /\ <<new>> \in Seq(Event(Id))
        /\ old \o agg.events \in Seq(Event(Id))
    BY <1>2, <1>4, ConcatProperties DEF old
  <2>3. old \o Append(agg.events, new) = (old \o agg.events) \o <<new>>
    <3>1. Append(agg.events, new) = agg.events \o <<new>>
      BY <1>2, <1>4, AppendIsConcat
    <3>2. agg.events \in Seq(Event(Id)) /\ old \in Seq(Event(Id)) /\ <<new>> \in Seq(Event(Id))
      BY <1>4, <2>2
    <3>3. (old \o agg.events) \o <<new>> = old \o (agg.events \o <<new>>)
      <4>1. \A s, t, u \in Seq(Event(Id)) : (s \o t) \o u = s \o (t \o u)
        BY ConcatAssociative
      <4> QED
        BY <3>2, <4>1
    <3> QED
      BY <3>1, <3>3
  <2>4. IdsInOrder(<<new>>) = <<e>>
    BY DEF IdsInOrder, new
  <2>5. History' = History \o <<e>>
    BY <2>1, <2>2, <2>3, <2>4, IdsConcat
  <2> QED
    BY <1>1, <1>4, <2>5, AppendIsConcat
<1>6. e \notin 1 .. applied /\ e \notin poison
  BY <1>1 DEF e, HistoryHolds
<1>7. Without(History, poison') = Without(History, poison)
  <2>1. \A i \in 1 .. Len(History) : History[i] \in poison <=> History[i] \in poison'
    BY <1>3, <1>4, <1>6
  <2> QED
    BY <1>4, <2>1, WithoutSame
<1>8. state = Without(History, poison)
  BY DEF HistoryHolds
<1>9. state' = Without(History', poison')
  <2>1. Without(History', poison') =
          IF e \in poison' THEN Without(History, poison') ELSE Append(Without(History, poison'), e)
    BY <1>1, <1>4, <1>5, WithoutAppend
  <2>2. CASE state' = Append(state, e) /\ poison' = poison
    BY <1>6, <1>7, <1>8, <2>1, <2>2
  <2>3. CASE state' = state /\ poison' = poison \cup {e}
    BY <1>7, <1>8, <2>1, <2>3
  <2> QED
    BY <1>3, <2>2, <2>3
<1>10. (snapshot # <<>> =>
         /\ snapshot[1].version <= Len(store)
         /\ snapshot[1].state = Without(IdsInOrder(Stored(snapshot[1].version)), poison))'
  <2> SUFFICES ASSUME snapshot # <<>>
               PROVE  LET ids == IdsInOrder(Stored(snapshot[1].version))
                      IN  Without(ids, poison') = Without(ids, poison)
    BY <1>1 DEF HistoryHolds, Stored
  <2> DEFINE ids == IdsInOrder(Stored(snapshot[1].version))
  <2>1. ids \in Seq(Id) /\ \A i \in 1 .. Len(ids) : ids[i] \in 1 .. applied
    BY SnapshotType
  <2> HIDE DEF ids
  <2>2. \A i \in 1 .. Len(ids) : ids[i] \in poison <=> ids[i] \in poison'
    BY <1>3, <1>6, <2>1
  <2>3. Without(ids, poison') = Without(ids, poison)
    BY <2>1, <2>2, WithoutSame
  <2> QED
    BY <2>3 DEF ids
<1>11. 1 .. e = (1 .. applied) \cup {e}
  BY <1>1 DEF e
<1>12. (poison \cup Ids(store) \cup Ids(agg.events) \subseteq 1 .. applied)'
  BY <1>1, <1>2, <1>3, <1>11 DEF HistoryHolds
<1>13. (agg.initialVersion <= Len(store))'
  BY <1>1, <1>2 DEF HistoryHolds
<1> QED
  BY <1>9, <1>10, <1>12, <1>13 DEF HistoryHolds

(* A replay of what follows initialVersion in the store, by an aggregate   *)
(* with nothing pending.                                                   *)
LEMMA HistoryReplays ==
  ASSUME TypeOK, HistoryHolds, Accounted(agg), agg.events = <<>>,
         NEW events, events = SubSeq(store, agg.initialVersion + 1, Len(store)),
         Replay(events), UNCHANGED <<store, snapshot, poison, applied>>
  PROVE  HistoryHolds'
<1> DEFINE v == agg.initialVersion
           n == LastThrough(events)
           through == SubSeq(events, 1, n)
<1>1. /\ v \in Nat /\ v <= Len(store) /\ Len(store) \in Nat
      /\ store \in Seq(Event(Id)) /\ agg \in Aggregate(Id)
  BY DEF HistoryHolds, TypeOK, Aggregate
<1>2. events \in Seq(Event(Id)) /\ Len(events) = Len(store) - v
  <2>1. \A i \in v + 1 .. Len(store) : store[i] \in Event(Id)
    BY <1>1, ElementOfSeq
  <2> QED
    BY <1>1, <2>1, SubSeqProperties
<1>3. n \in 0 .. Len(events) /\ \A i \in 1 .. n : events[i].id \notin poison
  BY <1>2, ReplayStops
<1>4. /\ state' = state \o IdsInOrder(through)
      /\ agg' = IF n = Len(events) THEN Replayed(agg, n) ELSE ReplayAborted(agg, n)
  BY <1>2, ReplayIs
<1>5. Stored(v) \in Seq(Event(Id))
  BY <1>1, StoredType
<1>6. state = Without(IdsInOrder(Stored(v)), poison) /\ state \in Seq(Id)
  <2>1. IdsInOrder(Stored(v) \o <<>>) = IdsInOrder(Stored(v))
    BY <1>1, HistoryAt
  <2> QED
    BY <2>1 DEF HistoryHolds, History, Stored, TypeOK
<1> HIDE DEF n
<1>7. agg'.events = <<>> /\ agg'.initialVersion = IF n = Len(events) THEN Len(store) ELSE v
  BY <1>1, <1>2, <1>3, <1>4 DEF Replayed, ReplayAborted, New, Aggregate
<1>8. CASE n = Len(events)
  <2>1. through = events
    BY <1>2, <1>8, SubSeqFull
  <2>2. History' = IdsInOrder(store)
    <3>1. History' = IdsInOrder(SubSeq(store, 1, Len(store)) \o <<>>)
      BY <1>7, <1>8 DEF History
    <3> QED
      BY <1>1, <3>1, SubSeqFull, ConcatEmptySeq
  <2>3. store = Stored(v) \o events
    <3>1. 1 \in 1 .. Len(store) + 1 /\ v \in 1 - 1 .. Len(store) /\ Len(store) \in v .. Len(store)
      BY <1>1
    <3>2. SubSeq(store, 1, v) \o SubSeq(store, v + 1, Len(store)) = SubSeq(store, 1, Len(store))
      BY <1>1, <3>1, ConcatAdjacentSubSeq
    <3> QED
      BY <1>1, <3>2, SubSeqFull DEF Stored
  <2> DEFINE a == IdsInOrder(Stored(v))
             b == IdsInOrder(events)
  <2>4. History' = a \o b
    BY <1>2, <1>5, <2>2, <2>3, IdsConcat
  <2>5. a \in Seq(Id) /\ b \in Seq(Id) /\ \A i \in 1 .. Len(b) : b[i] \notin poison
    BY <1>2, <1>3, <1>5, <1>8, IdsType
  <2>6. state = Without(a, poison) /\ state' = state \o b
    BY <1>4, <1>6, <2>1
  <2> HIDE DEF a, b
  <2>7. Without(a \o b, poison) = Without(a, poison) \o b
    <3>1. Without(a, poison) \in Seq(Id)
      BY <1>6, <2>6
    <3>2. a \in Seq(Id) /\ b \in Seq(Id)
      BY <2>5
    <3>3. \A i \in 1 .. Len(b) : b[i] \notin poison
      BY <2>5
    <3> QED
      BY <3>1, <3>2, <3>3, WithoutConcat
  <2>8. state' = Without(History', poison')
    BY <2>4, <2>6, <2>7
  <2> QED
    BY <1>1, <1>7, <1>8, <2>8 DEF HistoryHolds, Stored, Ids
<1>9. CASE n # Len(events)
  <2>1. n = 0 => state' = Without(History', poison')
    <3> SUFFICES ASSUME n = 0 PROVE state' = Without(History', poison')
      OBVIOUS
    <3>1. through = <<>> /\ IdsInOrder(<<>>) = <<>>
      BY SubSeqEmpty DEF IdsInOrder
    <3>2. state' = state
      BY <1>4, <1>6, <3>1, ConcatEmptySeq
    <3>3. History' = IdsInOrder(Stored(v) \o <<>>)
      BY <1>7, <1>9 DEF History, Stored
    <3> QED
      BY <1>1, <1>6, <3>2, <3>3, HistoryAt
  <2>2. n # 0 => ~Accounted(agg)'
    <3>1. Len(agg'.events) = 0 /\ agg'.version = v + n /\ agg'.initialVersion = v
      BY <1>1, <1>4, <1>7, <1>9 DEF ReplayAborted, Aggregate
    <3> QED
      BY <1>1, <1>3, <3>1 DEF Accounted
  <2> QED
    BY <1>1, <1>7, <1>9, <2>1, <2>2 DEF HistoryHolds, Stored, Ids
<1> QED
  BY <1>8, <1>9

LEMMA HistoryStep ==
  ASSUME Liberties = {}, TypeOK, KeptInv, HistoryInv, [Next]_vars
  PROVE  HistoryInv'
<1> USE DEF object, audit, call
<1>0. /\ HistoryHolds
      /\ store \in Seq(Event(Id)) /\ agg \in Aggregate(Id) /\ agg.events \in Seq(Event(Id))
      /\ Len(store) \in Nat /\ Len(agg.events) \in Nat
      /\ agg.version \in Nat /\ agg.initialVersion \in Nat /\ agg.initialVersion <= Len(store)
      /\ Without(<<>>, poison) = <<>> /\ IdsInOrder(<<>>) = <<>> /\ Ids(<<>>) = {}
      /\ <<>> \in Seq(Event(Id)) /\ store \o <<>> = store
  <2>1. /\ store \in Seq(Event(Id)) /\ agg \in Aggregate(Id) /\ agg.events \in Seq(Event(Id))
        /\ agg.version \in Nat /\ agg.initialVersion \in Nat
    BY DEF TypeOK, Aggregate
  <2>2. IdsInOrder(<<>>) = <<>> /\ Ids(<<>>) = {} /\ <<>> \in Seq(Event(Id))
    BY DEF IdsInOrder, Ids
  <2>3. Len(store) \in Nat /\ Len(agg.events) \in Nat /\ store \o <<>> = store
    BY <2>1, LenProperties, ConcatEmptySeq
  <2> QED
    BY <2>1, <2>2, <2>3, WithoutEmpty DEF HistoryInv, HistoryHolds
<1>1. ASSUME UNCHANGED <<agg, state, snapshot, poison, applied, store>>
      PROVE  HistoryHolds'
  BY <1>0, <1>1, HistoryRests
<1>2. CASE UNCHANGED vars
  BY <1>1, <1>2 DEF vars, HistoryInv, CallLeadsOn, Stored
<1>3. CASE Construct
  <2>1. /\ agg' = New(0) /\ state' = <<>> /\ UNCHANGED <<store, snapshot, poison, applied>>
        /\ \A k \in Calls : pc'[k] = "idle"
    BY <1>3 DEF Construct
  <2>2. History' = <<>>
    <3>1. History' = IdsInOrder(SubSeq(store, 1, 0) \o <<>>)
      BY <2>1 DEF History, New
    <3>2. SubSeq(store, 1, 0) = <<>> /\ <<>> \o <<>> = <<>>
      BY SubSeqEmpty
    <3> QED
      BY <1>0, <3>1, <3>2
  <2>3. HistoryHolds'
    BY <1>0, <2>1, <2>2 DEF HistoryHolds, Stored, New
  <2> QED
    BY <2>1, <2>3 DEF HistoryInv
<1>4. ASSUME NEW name \in Capabilities, AddCapability(name) \/ RemoveCapability(name)
      PROVE  HistoryInv'
  <2>1. UNCHANGED <<agg, state, snapshot, poison, applied, store, pc, kind, carried, base>>
    BY <1>4 DEF AddCapability, RemoveCapability
  <2> QED
    BY <1>1, <2>1 DEF HistoryInv, CallLeadsOn, Stored
<1>5. CASE Apply
  <2>1. Quiet /\ Accounted(agg) /\ UNCHANGED pc
    BY <1>5 DEF Apply, Allowed
  <2> QED
    BY <1>0, <1>5, <2>1, HistoryApplies DEF HistoryInv, Quiet
<1>6. CASE CreateSnapshot
  <2>1. /\ Accounted(agg) /\ agg.events = <<>> /\ UNCHANGED <<agg, state, poison, applied, store>>
        /\ UNCHANGED <<pc, kind, carried, base>>
        /\ snapshot' = <<[version |-> agg.version, state |-> state]>>
    BY <1>6 DEF CreateSnapshot, HasChanges
  <2>2. agg.version = agg.initialVersion
    BY <1>0, <2>1 DEF Accounted
  <2>3. state = Without(IdsInOrder(Stored(agg.version)), poison)
    BY <1>0, <2>1, <2>2, HistoryAt DEF HistoryHolds, History, Stored
  <2>4. HistoryHolds'
    BY <1>0, <2>1, <2>2, <2>3 DEF HistoryHolds, History, Stored, Accounted
  <2> QED
    BY <2>1, <2>4 DEF HistoryInv, CallLeadsOn, Stored
<1>7. CASE RestoreFromSnapshot
  <2> DEFINE v == snapshot[1].version
  <2>1. /\ Quiet /\ snapshot # <<>> /\ state' = snapshot[1].state /\ agg' = New(v)
        /\ UNCHANGED <<pc, store, snapshot, poison, applied>>
    BY <1>7 DEF RestoreFromSnapshot
  <2>2. v \in Nat /\ v <= Len(store) /\ snapshot[1].state = Without(IdsInOrder(Stored(v)), poison)
    BY <1>0, <2>1, SnapshotType DEF HistoryHolds
  <2> HIDE DEF v
  <2>3. History' = IdsInOrder(Stored(v) \o <<>>)
    BY <2>1 DEF History, New, Stored
  <2>4. History' = IdsInOrder(Stored(v))
    BY <2>2, <2>3, HistoryAt
  <2>5. HistoryHolds'
    BY <1>0, <2>1, <2>2, <2>4 DEF HistoryHolds, New, Stored
  <2> QED
    BY <2>1, <2>5 DEF HistoryInv, Quiet
<1>8. ASSUME NEW k \in Calls,
             SaveToEventStore(k) \/ LoadFromEventStore(k) \/ RebuildFromVersion(k)
      PROVE  HistoryInv'
  <2>1. PICK what, events, version :
          /\ Call(k, what, events, version)
          /\ what = "save" => version = agg.version
          /\ what # "save" => version = agg.initialVersion /\ agg.events = <<>>
    <3>1. CASE SaveToEventStore(k)
      BY <3>1 DEF SaveToEventStore
    <3>2. CASE LoadFromEventStore(k)
      <4>1. agg = New(0) /\ Call(k, "load", <<>>, 0)
        BY <3>2 DEF LoadFromEventStore
      <4>2. agg.initialVersion = 0 /\ agg.events = <<>>
        BY <4>1 DEF New
      <4> QED
        BY <4>1, <4>2
    <3>3. CASE RebuildFromVersion(k)
      <4>1. Call(k, "rebuild", <<>>, agg.initialVersion) /\ agg.events = <<>>
        BY <3>3 DEF RebuildFromVersion, HasChanges
      <4> QED
        BY <4>1
    <3> QED
      BY <1>8, <3>1, <3>2, <3>3
  <2>2. /\ Quiet /\ Accounted(agg) /\ UNCHANGED <<agg, state, snapshot, poison, applied, store>>
        /\ pc' = [pc EXCEPT ![k] = "called"] /\ kind' = [kind EXCEPT ![k] = what]
        /\ base' = [base EXCEPT ![k] = version]
    BY <2>1 DEF Call, Allowed
  <2>3. /\ pc'[k] = "called" /\ kind'[k] = what /\ base'[k] = version
        /\ \A j \in Calls \ {k} : pc'[j] = "idle"
    BY <2>2 DEF TypeOK, Quiet
  <2>4. CallLeadsOn(k)'
    BY <2>1, <2>2, <2>3 DEF CallLeadsOn, Accounted
  <2> QED
    BY <1>1, <2>2, <2>3, <2>4 DEF HistoryInv
<1>9. ASSUME NEW k \in Calls, StoreAnswers(k) PROVE HistoryInv'
  <2>1. /\ UNCHANGED <<agg, state, snapshot, poison, applied, kind, base>> /\ pc[k] = "called"
        /\ \A j \in Calls \ {k} : pc'[j] = pc[j] /\ pc[j] = "idle"
        /\ CallLeadsOn(k)
    BY <1>9 DEF StoreAnswers, KeptInv, TypeOK, HistoryInv
  <2>2. CASE /\ kind[k] = "save" /\ base[k] = Len(store) + Len(carried[k])
             /\ store' = store \o carried[k]
    <3>1. carried[k] = agg.events /\ base[k] = agg.version
      BY <2>1, <2>2 DEF KeptInv, CallLeadsOn
    <3>2. Len(store) = agg.initialVersion
      BY <1>0, <2>1, <2>2, <3>1 DEF CallLeadsOn, Accounted
    <3>3. Ids(agg.events) \subseteq 1 .. applied
      BY <1>0 DEF HistoryHolds
    <3>4. HistoryHolds'
      BY <1>0, <2>1, <2>2, <3>1, <3>3, HistoryRests
    <3>5. Stored(agg.initialVersion)' = store /\ Len(store') = agg.version
      <4>1. Stored(agg.initialVersion) = store
        BY <1>0, <3>2, SubSeqFull DEF Stored
      <4>2. Stored(agg.initialVersion)' = Stored(agg.initialVersion)
        BY <1>0, <2>1, <2>2, <3>1, StoredStays DEF Stored
      <4>3. Len(store') = Len(store) + Len(agg.events)
        BY <1>0, <2>2, <3>1, ConcatProperties
      <4> QED
        BY <2>1, <3>2, <4>1, <4>2, <4>3 DEF CallLeadsOn, Accounted
    <3>6. CallLeadsOn(k)'
      BY <2>1, <2>2, <3>1, <3>5 DEF CallLeadsOn, Accounted
    <3> QED
      BY <2>1, <3>4, <3>6 DEF HistoryInv
  <2>3. CASE /\ kind[k] # "save" /\ store' = store /\ pc'[k] = "answered"
             /\ carried'[k] = SubSeq(store, base[k] + 1, Len(store))
    <3>1. CallLeadsOn(k)'
      BY <2>1, <2>3 DEF CallLeadsOn, Accounted
    <3> QED
      BY <1>1, <2>1, <2>3, <3>1 DEF HistoryInv
  <2>4. CASE store' = store /\ pc'[k] = "idle"
    BY <1>1, <2>1, <2>4 DEF HistoryInv
  <2> QED
    BY <1>9, <2>2, <2>3, <2>4 DEF StoreAnswers, TypeOK
<1>10. ASSUME NEW k \in Calls, Return(k) PROVE HistoryInv'
  <2>1. /\ UNCHANGED <<store, snapshot, poison, applied>> /\ pc[k] = "answered" /\ CallLeadsOn(k)
        /\ \A j \in Calls : pc'[j] = "idle"
    BY <1>10 DEF Return, KeptInv, TypeOK, HistoryInv
  <2>2. CASE kind[k] = "save" /\ agg' = Committed(agg) /\ UNCHANGED state
    <3>1. /\ agg' = New(agg.version) /\ Len(store) = agg.version
          /\ store = Stored(agg.initialVersion) \o agg.events
      BY <2>1, <2>2 DEF Committed, CallLeadsOn
    <3>2. History' = IdsInOrder(Stored(agg.version) \o <<>>)
      BY <2>1, <3>1 DEF History, New, Stored
    <3>3. History' = IdsInOrder(store)
      BY <1>0, <3>1, <3>2, HistoryAt, SubSeqFull DEF Stored
    <3>4. state = Without(IdsInOrder(store), poison)
      BY <1>0, <2>1, <3>1 DEF HistoryHolds, History, CallLeadsOn, Stored
    <3>5. HistoryHolds'
      BY <1>0, <2>1, <2>2, <3>1, <3>3, <3>4 DEF HistoryHolds, New, Stored
    <3> QED
      BY <2>1, <3>5 DEF HistoryInv
  <2>3. CASE kind[k] # "save" /\ Replay(carried[k])
    <3>1. /\ Accounted(agg) /\ agg.events = <<>>
          /\ carried[k] = SubSeq(store, agg.initialVersion + 1, Len(store))
      BY <2>1, <2>3 DEF CallLeadsOn
    <3>2. HistoryHolds'
      BY <1>0, <2>1, <2>3, <3>1, HistoryReplays
    <3> QED
      BY <2>1, <3>2 DEF HistoryInv
  <2>4. CASE UNCHANGED object
    BY <1>1, <2>1, <2>4 DEF HistoryInv
  <2> QED
    BY <1>10, <2>2, <2>3, <2>4 DEF Return
<1> QED
  BY <1>2, <1>3, <1>4, <1>5, <1>6, <1>7, <1>8, <1>9, <1>10 DEF Next

(* When the application takes no liberties, an aggregate whose version     *)
(* accounts for its changes has the state its history gives it: the stored *)
(* events up to initialVersion, then the pending ones, but for those whose *)
(* handler threw.  However saves, loads, rebuilds, snapshots, restores,    *)
(* capabilities removed during a call, refusals and restarts follow each   *)
(* other.                                                                  *)
THEOREM StateFollowsHistory ==
  ASSUME Liberties = {}
  PROVE  Spec => []StateIsHistory
<1>1. Init => HistoryInv
  <2> SUFFICES ASSUME Init PROVE HistoryInv
    OBVIOUS
  <2>1. /\ agg = New(0) /\ state = <<>> /\ snapshot = <<>> /\ store = <<>> /\ poison = {}
        /\ \A k \in Calls : pc[k] = "idle"
    BY DEF Init
  <2>2. History = <<>>
    <3>1. History = IdsInOrder(SubSeq(<<>>, 1, 0) \o <<>>)
      BY <2>1 DEF History, New
    <3>2. SubSeq(<<>>, 1, 0) = <<>> /\ <<>> \o <<>> = <<>>
      BY SubSeqEmpty
    <3> QED
      BY <3>1, <3>2 DEF IdsInOrder
  <2> QED
    BY <2>1, <2>2, WithoutEmpty DEF HistoryInv, HistoryHolds, New, Ids
<1>2. TypeOK /\ KeptInv /\ HistoryInv /\ [Next]_vars => HistoryInv'
  BY HistoryStep
<1>3. HistoryInv => StateIsHistory
  BY DEF HistoryInv, HistoryHolds, StateIsHistory
<1> QED
  <2>1. Spec => []KeptInv
    <3>1. "overlap" \notin Liberties
      OBVIOUS
    <3> QED
      BY <3>1, KeptInvariance
  <2> QED
    BY <1>1, <1>2, <1>3, <2>1, TypeCorrect, PTL DEF Spec

=============================================================================
