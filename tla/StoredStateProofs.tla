-------------------------- MODULE StoredStateProofs --------------------------
(***************************************************************************)
(* Theorems about what is kept in a store: the saves of the repository and *)
(* the read models the projections keep.                                   *)
(*                                                                         *)
(* RepositorySave, for any number of callers and events: Progress says     *)
(* what a save has done when it stands at each step; it is the inductive   *)
(* invariant the properties follow from.                                   *)
(*                                                                         *)
(* Projections, the composition MCProjections runs, for any values of its  *)
(* constants: every engine keeps the invariants of ProjectionEngineProofs, *)
(* the circuit breaker keeps BreakerInv and the registry with the engines  *)
(* it builds keeps HubInv, whichever of them takes the step.               *)
(***************************************************************************)
EXTENDS MCRepositorySave, MCProjections, SequenceTheorems, FiniteSetTheorems, TLAPS

-----------------------------------------------------------------------------
(* What the operations make of one aggregate *)

(* A new aggregate has nothing pending.                                    *)
LEMMA NewFacts ==
  ASSUME NEW v \in Nat
  PROVE  /\ New(v) \in Aggregate(Id)
         /\ Accounted(New(v)) /\ Numbered(New(v))
         /\ Ids(New(v).events) = {}
BY DEF New, Aggregate, Accounted, Numbered, Ids

(* The ids of a sequence that grows by one event ...                       *)
LEMMA IdsAppend ==
  ASSUME NEW S, NEW s \in Seq(Event(S)), NEW e \in Event(S)
  PROVE  /\ Append(s, e) \in Seq(Event(S))
         /\ Append(s, e) # <<>>
         /\ Ids(Append(s, e)) = Ids(s) \cup {e.id}
<1>1. /\ Append(s, e) \in Seq(Event(S))
      /\ Len(Append(s, e)) = Len(s) + 1
      /\ \A i \in 1 .. Len(s) : Append(s, e)[i] = s[i]
      /\ Append(s, e)[Len(s) + 1] = e
  OBVIOUS
<1>2. /\ DOMAIN s = 1 .. Len(s)
      /\ DOMAIN Append(s, e) = 1 .. Len(s) + 1
      /\ Len(s) \in Nat
  BY <1>1
<1>3. Ids(Append(s, e)) = Ids(s) \cup {e.id}
  BY <1>1, <1>2 DEF Ids
<1> QED BY <1>1, <1>3

(* ... and of one that is consumed from the front.                         *)
LEMMA IdsTail ==
  ASSUME NEW S, NEW s \in Seq(Event(S)), s # <<>>
  PROVE  /\ Head(s) \in Event(S)
         /\ Tail(s) \in Seq(Event(S))
         /\ Head(s).id \in Ids(s)
         /\ Ids(s) = Ids(Tail(s)) \cup {Head(s).id}
<1>1. /\ Len(s) \in Nat \ {0}
      /\ Head(s) = s[1]
      /\ Head(s) \in Event(S)
      /\ Tail(s) \in Seq(Event(S))
      /\ Len(Tail(s)) = Len(s) - 1
      /\ \A i \in 1 .. Len(s) - 1 : Tail(s)[i] = s[i + 1]
  OBVIOUS
<1>2. DOMAIN s = 1 .. Len(s) /\ DOMAIN Tail(s) = 1 .. Len(s) - 1
  BY <1>1
<1>3. Ids(Tail(s)) \subseteq Ids(s) /\ Head(s).id \in Ids(s)
  BY <1>1, <1>2 DEF Ids
<1>4. ASSUME NEW i \in DOMAIN s
      PROVE  s[i].id \in Ids(Tail(s)) \cup {Head(s).id}
  <2>1. CASE i = 1
    BY <1>1, <2>1
  <2>2. CASE i # 1
    <3>1. i - 1 \in DOMAIN Tail(s) /\ Tail(s)[i - 1] = s[i]
      BY <1>1, <1>2, <2>2
    <3> QED BY <3>1 DEF Ids
  <2> QED BY <2>1, <2>2
<1> QED BY <1>1, <1>3, <1>4 DEF Ids

(* Ids are ids of events.                                                  *)
LEMMA IdsType ==
  ASSUME NEW S, NEW s \in Seq(Event(S))
  PROVE  Ids(s) \subseteq S
<1>1. \A i \in DOMAIN s : s[i] \in Event(S)
  OBVIOUS
<1> QED BY <1>1 DEF Ids, Event

(* apply records one event more, stamped with the version it leads to.     *)
LEMMA AppliedFacts ==
  ASSUME NEW a \in Aggregate(Id), NEW e \in Id
  PROVE  /\ Applied(a, e) \in Aggregate(Id)
         /\ Applied(a, e).events # <<>>
         /\ Ids(Applied(a, e).events) = Ids(a.events) \cup {e}
         /\ Accounted(a) => Accounted(Applied(a, e))
         /\ Accounted(a) /\ Numbered(a) => Numbered(Applied(a, e))
<1> DEFINE ev == [id |-> e, version |-> a.version + 1]
<1>1. /\ a.version \in Nat /\ a.initialVersion \in Nat
      /\ a.events \in Seq(Event(Id))
      /\ ev \in Event(Id)
  BY DEF Aggregate, Event
<1>2. Applied(a, e) = [version |-> a.version + 1,
                       initialVersion |-> a.initialVersion,
                       events |-> Append(a.events, ev)]
  BY DEF Applied
<1>3. /\ Append(a.events, ev) \in Seq(Event(Id))
      /\ Append(a.events, ev) # <<>>
      /\ Ids(Append(a.events, ev)) = Ids(a.events) \cup {e}
  BY <1>1, IdsAppend
<1>4. Applied(a, e) \in Aggregate(Id)
  BY <1>1, <1>2, <1>3 DEF Aggregate
<1>5. /\ Len(Append(a.events, ev)) = Len(a.events) + 1
      /\ \A i \in 1 .. Len(a.events) : Append(a.events, ev)[i] = a.events[i]
      /\ Append(a.events, ev)[Len(a.events) + 1] = ev
      /\ DOMAIN a.events = 1 .. Len(a.events)
      /\ DOMAIN Append(a.events, ev) = 1 .. Len(a.events) + 1
      /\ Len(a.events) \in Nat
  BY <1>1, <1>3
<1>6. Accounted(a) => Accounted(Applied(a, e))
  BY <1>1, <1>2, <1>5 DEF Accounted
<1>7. ASSUME Accounted(a), Numbered(a)
      PROVE  Numbered(Applied(a, e))
  <2>1. \A i \in 1 .. Len(a.events) :
          Append(a.events, ev)[i].version = a.initialVersion + i
    BY <1>5, <1>7 DEF Numbered
  <2>2. ev.version = a.initialVersion + (Len(a.events) + 1)
    BY <1>1, <1>5, <1>7 DEF Accounted
  <2> QED BY <1>2, <1>5, <2>1, <2>2 DEF Numbered
<1> QED BY <1>2, <1>3, <1>4, <1>6, <1>7

(* commit leaves nothing pending and forgets where it started from.        *)
LEMMA CommittedFacts ==
  ASSUME NEW a \in Aggregate(Id)
  PROVE  /\ Committed(a) \in Aggregate(Id)
         /\ Committed(a).initialVersion = a.version
         /\ Accounted(Committed(a)) /\ Numbered(Committed(a))
         /\ Ids(Committed(a).events) = {}
<1>1. Committed(a) = [version |-> a.version, initialVersion |-> a.version,
                      events |-> <<>>]
  BY DEF Committed, New
<1>2. a.version \in Nat
  BY DEF Aggregate
<1> QED BY <1>1, <1>2 DEF Aggregate, Accounted, Numbered, Ids

-----------------------------------------------------------------------------
(* Types, and the consistency of the copies *)

(* A save is only under way while something is pending in its copy.        *)
Pending == \A c \in Callers : pc[c] # "idle" => agg[c].events # <<>>

Shape == TypeOK /\ CopiesConsistent /\ Pending

LEMMA ShapeInit == Init => Shape
<1> SUFFICES ASSUME Init PROVE Shape
  OBVIOUS
<1>1. /\ New(0) \in Aggregate(Id)
      /\ Accounted(New(0)) /\ Numbered(New(0))
  BY NewFacts
<1> QED
  BY <1>1, RepositoryAssumption
  DEF Init, Shape, TypeOK, CopiesConsistent, Pending, Steps, Outcomes

(* A rejected call stays within the bound.                                 *)
LEMMA FailType ==
  ASSUME TypeOK, Fail \/ UNCHANGED failures
  PROVE  failures' \in 0 .. MaxFailures
BY RepositoryAssumption DEF TypeOK, Fail

(* The end of a save keeps the shape of the callers.                       *)
LEMMA FinishType ==
  ASSUME TypeOK, NEW c \in Callers, NEW how \in Outcomes, Finish(c, how)
  PROVE  /\ pc' \in [Callers -> Steps]
         /\ todo' \in [Callers -> Seq(Event(Id))]
         /\ outcome' \in [Callers -> Outcomes]
         /\ pc'[c] = "idle"
         /\ \A d \in Callers : todo'[d] # <<>> <=> pc'[d] # "idle"
         /\ \A d \in Callers \ {c} : pc'[d] = pc[d] /\ todo'[d] = todo[d]
BY DEF TypeOK, Finish, Steps

(* The next event of a save under way, and what it leaves.                 *)
LEMMA HeadType ==
  ASSUME TypeOK, NEW c \in Callers, pc[c] # "idle"
  PROVE  /\ todo[c] \in Seq(Event(Id)) /\ todo[c] # <<>>
         /\ Head(todo[c]) \in Event(Id)
         /\ Tail(todo[c]) \in Seq(Event(Id))
BY IdsTail DEF TypeOK

LEMMA ShapeStep == Shape /\ [Next]_vars => Shape'
<1> SUFFICES ASSUME Shape, [Next]_vars PROVE Shape'
  OBVIOUS
<1>1. ASSUME NEW c \in Callers, Load(c) PROVE Shape'
  <2>1. Len(stream) \in Nat
    BY DEF Shape, TypeOK
  <2>2. /\ New(Len(stream)) \in Aggregate(Id)
        /\ Accounted(New(Len(stream))) /\ Numbered(New(Len(stream)))
    BY <2>1, NewFacts
  <2>3. Ids(agg[c].events) \subseteq Id
    <3>1. agg[c].events \in Seq(Event(Id))
      BY DEF Shape, TypeOK, Aggregate
    <3> QED BY <3>1, IdsType
  <2> QED
    BY <1>1, <2>2, <2>3
    DEF Load, Shape, TypeOK, CopiesConsistent, Pending, Outcomes
<1>2. ASSUME NEW c \in Callers, Apply(c) PROVE Shape'
  <2>1. agg[c] \in Aggregate(Id) /\ applied + 1 \in Id
    BY <1>2, RepositoryAssumption DEF Apply, Shape, TypeOK, Id
  <2>2. /\ Applied(agg[c], applied + 1) \in Aggregate(Id)
        /\ Accounted(Applied(agg[c], applied + 1))
        /\ Numbered(Applied(agg[c], applied + 1))
        /\ Applied(agg[c], applied + 1).events # <<>>
    BY <2>1, AppliedFacts DEF Shape, CopiesConsistent
  <2> QED
    BY <1>2, <2>1, <2>2
    DEF Apply, Shape, TypeOK, CopiesConsistent, Pending, Id
<1>3. ASSUME NEW c \in Callers, Save(c) PROVE Shape'
  <2>1. agg[c].events \in Seq(Event(Id)) /\ agg[c].events # <<>>
    BY <1>3 DEF Save, HasChanges, Shape, TypeOK, Aggregate
  <2> QED
    BY <1>3, <2>1
    DEF Save, Shape, TypeOK, CopiesConsistent, Pending, Steps, Outcomes
<1>4. ASSUME NEW c \in Callers, CheckVersion(c) PROVE Shape'
  <2>1. failures' \in 0 .. MaxFailures
    BY <1>4, FailType DEF CheckVersion, Shape
  <2>2. CASE pc' = [pc EXCEPT ![c] = "persist"] /\ UNCHANGED <<todo, outcome>>
    BY <1>4, <2>1, <2>2
    DEF CheckVersion, Shape, TypeOK, CopiesConsistent, Pending, Steps
  <2>3. ASSUME NEW how \in Outcomes, Finish(c, how) PROVE Shape'
    BY <1>4, <2>1, <2>3, FinishType
    DEF CheckVersion, Shape, TypeOK, CopiesConsistent, Pending
  <2> QED
    BY <1>4, <2>2, <2>3 DEF CheckVersion, Outcomes
<1>5. ASSUME NEW c \in Callers, PersistEvent(c) PROVE Shape'
  <2>1. failures' \in 0 .. MaxFailures
    BY <1>5, FailType DEF PersistEvent, Shape
  <2>2. stream' \in Seq(Event(Id))
    <3>1. pc[c] # "idle"
      BY <1>5 DEF PersistEvent
    <3>2. stream \in Seq(Event(Id)) /\ Head(todo[c]) \in Event(Id)
      BY <3>1, HeadType DEF Shape, TypeOK
    <3>3. Append(stream, Head(todo[c])) \in Seq(Event(Id))
      BY <3>2
    <3> QED
      BY <1>5, <3>2, <3>3 DEF PersistEvent
  <2>3. CASE /\ pc' = [pc EXCEPT ![c] = "dispatch"]
             /\ todo' = [todo EXCEPT ![c] = agg[c].events]
             /\ UNCHANGED outcome
    <3>1. agg[c].events \in Seq(Event(Id)) /\ agg[c].events # <<>>
      BY <1>5 DEF PersistEvent, Shape, TypeOK, Pending, Aggregate
    <3> QED
      BY <1>5, <2>1, <2>2, <2>3, <3>1
      DEF PersistEvent, Shape, TypeOK, CopiesConsistent, Pending, Steps
  <2>4. CASE /\ Tail(todo[c]) # <<>>
             /\ todo' = [todo EXCEPT ![c] = Tail(@)]
             /\ UNCHANGED <<pc, outcome>>
    <3>1. Tail(todo[c]) \in Seq(Event(Id))
      BY <1>5, HeadType DEF PersistEvent, Shape
    <3> QED
      BY <1>5, <2>1, <2>2, <2>4, <3>1
      DEF PersistEvent, Shape, TypeOK, CopiesConsistent, Pending
  <2>5. CASE Finish(c, "failed")
    BY <1>5, <2>1, <2>2, <2>5, FinishType
    DEF PersistEvent, Shape, TypeOK, CopiesConsistent, Pending, Outcomes
  <2> QED
    BY <1>5, <2>3, <2>4, <2>5 DEF PersistEvent
<1>6. ASSUME NEW c \in Callers, DispatchEvent(c) PROVE Shape'
  <2>1. failures' \in 0 .. MaxFailures
    BY <1>6, FailType DEF DispatchEvent, Shape
  <2>2. published' \in Seq(Event(Id))
    <3>1. pc[c] # "idle"
      BY <1>6 DEF DispatchEvent
    <3>2. published \in Seq(Event(Id)) /\ Head(todo[c]) \in Event(Id)
      BY <3>1, HeadType DEF Shape, TypeOK
    <3>3. Append(published, Head(todo[c])) \in Seq(Event(Id))
      BY <3>2
    <3> QED
      BY <1>6, <3>2, <3>3 DEF DispatchEvent
  <2>3. CASE agg' = [agg EXCEPT ![c] = Committed(@)] /\ Finish(c, "saved")
    <3>1. /\ Committed(agg[c]) \in Aggregate(Id)
          /\ Accounted(Committed(agg[c])) /\ Numbered(Committed(agg[c]))
      BY CommittedFacts DEF Shape, TypeOK
    <3> QED
      BY <1>6, <2>1, <2>2, <2>3, <3>1, FinishType
      DEF DispatchEvent, Shape, TypeOK, CopiesConsistent, Pending, Outcomes
  <2>4. CASE /\ Tail(todo[c]) # <<>>
             /\ todo' = [todo EXCEPT ![c] = Tail(@)]
             /\ UNCHANGED <<agg, pc, outcome>>
    <3>1. Tail(todo[c]) \in Seq(Event(Id))
      BY <1>6, HeadType DEF DispatchEvent, Shape
    <3> QED
      BY <1>6, <2>1, <2>2, <2>4, <3>1
      DEF DispatchEvent, Shape, TypeOK, CopiesConsistent, Pending
  <2>5. CASE Finish(c, "failed") /\ UNCHANGED agg
    BY <1>6, <2>1, <2>2, <2>5, FinishType
    DEF DispatchEvent, Shape, TypeOK, CopiesConsistent, Pending, Outcomes
  <2> QED
    BY <1>6, <2>3, <2>4, <2>5 DEF DispatchEvent
<1>7. CASE UNCHANGED vars
  BY <1>7 DEF vars, Shape, TypeOK, CopiesConsistent, Pending
<1> QED
  BY <1>1, <1>2, <1>3, <1>4, <1>5, <1>6, <1>7 DEF Next, SaveStep

(* Every variable keeps its type, and a save has an event left to handle   *)
(* exactly while it is under way.                                          *)
THEOREM TypeCorrect == Spec => []TypeOK
<1>1. Shape => TypeOK
  BY DEF Shape
<1> QED BY <1>1, ShapeInit, ShapeStep, PTL DEF Spec

(* Conflicts, rejected calls and changes made during a save leave every    *)
(* copy's version, initial version and pending events in agreement.        *)
THEOREM CopiesStayConsistent == Spec => []CopiesConsistent
<1>1. Shape => CopiesConsistent
  BY DEF Shape
<1> QED BY <1>1, ShapeInit, ShapeStep, PTL DEF Spec

-----------------------------------------------------------------------------
(* Persisted before published, and nothing lost: for any number of racing  *)
(* callers that leave a copy alone while it is being saved                 *)

(* While a save is under way, what is pending in its copy is persisted or  *)
(* still to be persisted; what it dispatches is persisted.                 *)
Progress ==
  \A c \in Callers :
    /\ pc[c] \in {"check", "persist"} =>
         Ids(agg[c].events) \subseteq Ids(stream) \cup Ids(todo[c])
    /\ pc[c] = "dispatch" =>
         /\ Ids(agg[c].events) \subseteq Ids(stream)
         /\ Ids(todo[c]) \subseteq Ids(stream)

Kept == Progress /\ PublishedArePersisted /\ NoEventLost

LEMMA KeptInit == Init => Kept
<1> SUFFICES ASSUME Init PROVE Kept
  OBVIOUS
<1> QED BY DEF Init, Kept, Progress, PublishedArePersisted, NoEventLost, Ids

(* The stream only grows, by the event a save persists.                    *)
LEMMA StreamGrows ==
  ASSUME Shape, NEW c \in Callers, PersistEvent(c)
  PROVE  /\ Ids(stream) \subseteq Ids(stream')
         /\ Ids(Append(stream, Head(todo[c]))) =
              Ids(stream) \cup {Head(todo[c]).id}
<1>1. stream \in Seq(Event(Id)) /\ Head(todo[c]) \in Event(Id)
  BY HeadType DEF Shape, TypeOK, PersistEvent
<1>2. Ids(Append(stream, Head(todo[c]))) = Ids(stream) \cup {Head(todo[c]).id}
  BY <1>1, IdsAppend
<1>3. stream' \in {stream, Append(stream, Head(todo[c]))}
  BY DEF PersistEvent
<1> QED BY <1>2, <1>3

LEMMA KeptStep ==
  ASSUME ApplyDuringSave = FALSE
  PROVE  Shape /\ Kept /\ [Next]_vars => Kept'
<1> SUFFICES ASSUME Shape, Kept, [Next]_vars PROVE Kept'
  OBVIOUS
<1>1. ASSUME NEW c \in Callers, Load(c) PROVE Kept'
  <2>1. \A d \in Callers : pc'[d] # "idle" => agg'[d] = agg[d]
    BY <1>1 DEF Load, Shape, TypeOK
  <2>2. Progress'
    BY <1>1, <2>1 DEF Load, Kept, Progress
  <2>3. ASSUME NEW e \in 1 .. applied', e \notin Ids(stream') \cup dropped'
        PROVE  \E d \in Callers : e \in Ids(agg'[d].events)
    <3>1. PICK d \in Callers : e \in Ids(agg[d].events)
      BY <1>1, <2>3 DEF Load, Kept, NoEventLost
    <3>2. d # c
      BY <1>1, <2>3, <3>1 DEF Load
    <3> QED BY <1>1, <3>1, <3>2 DEF Load, Shape, TypeOK
  <2> QED
    BY <1>1, <2>2, <2>3 DEF Load, Kept, PublishedArePersisted, NoEventLost
<1>2. ASSUME NEW c \in Callers, Apply(c) PROVE Kept'
  <2>1. agg[c] \in Aggregate(Id) /\ applied + 1 \in Id /\ applied \in Nat
    BY <1>2, RepositoryAssumption DEF Apply, Shape, TypeOK, Id
  <2>2. Ids(agg'[c].events) = Ids(agg[c].events) \cup {applied + 1}
    BY <1>2, <2>1, AppliedFacts DEF Apply, Shape, TypeOK
  <2>3. \A d \in Callers \ {c} : agg'[d] = agg[d]
    BY <1>2 DEF Apply, Shape, TypeOK
  <2>4. pc[c] = "idle"
    BY <1>2 DEF Apply
  <2>5. Progress'
    BY <1>2, <2>3, <2>4 DEF Apply, Kept, Progress
  <2>6. applied' = applied + 1
    BY <1>2 DEF Apply
  <2>7. \A e \in 1 .. applied' : e \in 1 .. applied \/ e = applied + 1
    BY <2>1, <2>6
  <2>8. NoEventLost'
    BY <1>2, <2>2, <2>3, <2>7 DEF Apply, Kept, NoEventLost
  <2> QED
    BY <1>2, <2>5, <2>8 DEF Apply, Kept, PublishedArePersisted
<1>3. ASSUME NEW c \in Callers, Save(c) PROVE Kept'
  BY <1>3
  DEF Save, Kept, Progress, PublishedArePersisted, NoEventLost, Shape, TypeOK
<1>4. ASSUME NEW c \in Callers, CheckVersion(c) PROVE Kept'
  <2>1. \/ pc'[c] = "persist" /\ todo' = todo /\ pc[c] = "check"
        \/ pc'[c] = "idle"
    BY <1>4 DEF CheckVersion, Finish, Shape, TypeOK
  <2>2. \A d \in Callers \ {c} : pc'[d] = pc[d] /\ todo'[d] = todo[d]
    BY <1>4 DEF CheckVersion, Finish, Shape, TypeOK
  <2> QED
    BY <1>4, <2>1, <2>2
    DEF CheckVersion, Kept, Progress, PublishedArePersisted, NoEventLost
<1>5. ASSUME NEW c \in Callers, PersistEvent(c) PROVE Kept'
  <2> DEFINE h == Head(todo[c])
             t == Tail(todo[c])
  <2>1. /\ Ids(stream) \subseteq Ids(stream')
        /\ Ids(Append(stream, h)) = Ids(stream) \cup {h.id}
    BY <1>5, StreamGrows
  <2>2. pc[c] = "persist" /\ UNCHANGED <<agg, published, applied, dropped>>
    BY <1>5 DEF PersistEvent
  <2>3. Ids(todo[c]) = Ids(t) \cup {h.id}
    BY <2>2, HeadType, IdsTail DEF Shape, TypeOK
  <2>4. Ids(agg[c].events) \subseteq Ids(stream) \cup Ids(todo[c])
    BY <2>2 DEF Kept, Progress
  <2>5. \A d \in Callers \ {c} : pc'[d] = pc[d] /\ todo'[d] = todo[d]
    BY <1>5 DEF PersistEvent, Finish, Shape, TypeOK
  <2>6. \/ /\ pc'[c] = "dispatch" /\ todo'[c] = agg[c].events
           /\ stream' = Append(stream, h) /\ t = <<>>
        \/ /\ pc'[c] = "persist" /\ todo'[c] = t
           /\ stream' = Append(stream, h)
        \/ pc'[c] = "idle"
    BY <1>5 DEF PersistEvent, Finish, Shape, TypeOK
  <2>7. Ids(<<>>) = {}
    BY DEF Ids
  <2> HIDE DEF h, t
  <2>8. ASSUME NEW d \in Callers PROVE
          /\ pc'[d] \in {"check", "persist"} =>
               Ids(agg[d].events) \subseteq Ids(stream') \cup Ids(todo'[d])
          /\ pc'[d] = "dispatch" =>
               /\ Ids(agg[d].events) \subseteq Ids(stream')
               /\ Ids(todo'[d]) \subseteq Ids(stream')
    <3>1. CASE d # c
      BY <2>1, <2>5, <3>1 DEF Kept, Progress
    <3>2. CASE d = c
      BY <2>1, <2>3, <2>4, <2>6, <2>7, <3>2
    <3> QED BY <3>1, <3>2
  <2>9. Progress'
    BY <2>2, <2>8 DEF Progress
  <2> QED
    BY <2>1, <2>2, <2>9 DEF Kept, PublishedArePersisted, NoEventLost
<1>6. ASSUME NEW c \in Callers, DispatchEvent(c) PROVE Kept'
  <2>1. pc[c] = "dispatch" /\ UNCHANGED <<stream, applied, dropped>>
    BY <1>6 DEF DispatchEvent
  <2>2. /\ Ids(agg[c].events) \subseteq Ids(stream)
        /\ Ids(todo[c]) \subseteq Ids(stream)
    BY <2>1 DEF Kept, Progress
  <2>3. /\ Head(todo[c]).id \in Ids(todo[c])
        /\ Ids(Tail(todo[c])) \subseteq Ids(todo[c])
    BY <2>1, HeadType, IdsTail DEF Shape, TypeOK
  <2>4. Ids(published') \subseteq Ids(published) \cup {Head(todo[c]).id}
    <3>1. published \in Seq(Event(Id)) /\ Head(todo[c]) \in Event(Id)
      BY <2>1, HeadType DEF Shape, TypeOK
    <3>2. Ids(Append(published, Head(todo[c]))) =
            Ids(published) \cup {Head(todo[c]).id}
      BY <3>1, IdsAppend
    <3> QED BY <1>6, <3>2 DEF DispatchEvent
  <2>5. \/ pc'[c] = "idle"
        \/ pc'[c] = "dispatch" /\ todo'[c] = Tail(todo[c]) /\ UNCHANGED agg
    BY <1>6 DEF DispatchEvent, Finish, Shape, TypeOK
  <2>6. \A d \in Callers \ {c} :
          pc'[d] = pc[d] /\ todo'[d] = todo[d] /\ agg'[d] = agg[d]
    BY <1>6 DEF DispatchEvent, Finish, Shape, TypeOK
  <2>7. Progress'
    BY <2>1, <2>2, <2>3, <2>5, <2>6 DEF Kept, Progress
  <2>8. PublishedArePersisted'
    BY <2>1, <2>2, <2>3, <2>4 DEF Kept, PublishedArePersisted
  <2>9. NoEventLost'
    BY <2>1, <2>2, <2>6 DEF Kept, NoEventLost
  <2> QED BY <2>7, <2>8, <2>9 DEF Kept
<1>7. CASE UNCHANGED vars
  BY <1>7 DEF vars, Kept, Progress, PublishedArePersisted, NoEventLost
<1> QED
  BY <1>1, <1>2, <1>3, <1>4, <1>5, <1>6, <1>7 DEF Next, SaveStep

(* However saves race, conflict or fail, no event reaches a bus that was   *)
(* not persisted before.                                                   *)
THEOREM PublishedWerePersisted ==
  ASSUME ApplyDuringSave = FALSE
  PROVE  Spec => []PublishedArePersisted
<1>1. Shape /\ Kept /\ [Next]_vars => Kept'
  BY KeptStep
<1>2. Kept => PublishedArePersisted
  BY DEF Kept
<1> QED BY <1>1, <1>2, ShapeInit, ShapeStep, KeptInit, PTL DEF Spec

(* However saves race, conflict or fail, an event is pending, persisted or *)
(* was dropped by a reload.                                                *)
THEOREM EventsAreKept ==
  ASSUME ApplyDuringSave = FALSE
  PROVE  Spec => []NoEventLost
<1>1. Shape /\ Kept /\ [Next]_vars => Kept'
  BY KeptStep
<1>2. Kept => NoEventLost
  BY DEF Kept
<1> QED BY <1>1, <1>2, ShapeInit, ShapeStep, KeptInit, PTL DEF Spec

-----------------------------------------------------------------------------
(* The versions of the stream, when saves exclude each other               *)

(* At most one save is under way.                                          *)
Alone == \A c, d \in Callers : pc[c] # "idle" /\ pc[d] # "idle" => c = d

(* The events a save has left continue the stream, and complete it at the  *)
(* version of the copy.                                                    *)
Continues(c) ==
  /\ pc[c] = "check" => todo[c] = agg[c].events
  /\ pc[c] = "persist" =>
       /\ \A i \in DOMAIN todo[c] : todo[c][i].version = Len(stream) + i
       /\ Len(stream) + Len(todo[c]) = agg[c].version
  /\ pc[c] = "dispatch" => Len(stream) = agg[c].version

Ordered == Alone /\ (\A c \in Callers : Continues(c)) /\ StreamNumbered

LEMMA OrderedInit == Init => Ordered
BY DEF Init, Ordered, Alone, Continues, StreamNumbered

(* Appending the next event of a sequence that continues the stream.       *)
LEMMA AppendNext ==
  ASSUME NEW s \in Seq(Event(Id)), NEW q \in Seq(Event(Id)), q # <<>>,
         \A i \in DOMAIN s : s[i].version = i,
         \A i \in DOMAIN q : q[i].version = Len(s) + i
  PROVE  /\ \A i \in DOMAIN Append(s, Head(q)) :
                Append(s, Head(q))[i].version = i
         /\ Len(Append(s, Head(q))) = Len(s) + 1
         /\ Len(Append(s, Head(q))) + Len(Tail(q)) = Len(s) + Len(q)
         /\ \A i \in DOMAIN Tail(q) :
                Tail(q)[i].version = Len(Append(s, Head(q))) + i
<1> DEFINE t == Append(s, Head(q))
<1>1. /\ Len(q) \in Nat \ {0} /\ Len(s) \in Nat
      /\ Head(q) = q[1] /\ Head(q) \in Event(Id)
      /\ Len(Tail(q)) = Len(q) - 1
      /\ \A i \in 1 .. Len(q) - 1 : Tail(q)[i] = q[i + 1]
      /\ DOMAIN q = 1 .. Len(q) /\ DOMAIN s = 1 .. Len(s)
  OBVIOUS
<1>2. DOMAIN Tail(q) = 1 .. Len(q) - 1
  OBVIOUS
<1>3. /\ Len(t) = Len(s) + 1
      /\ DOMAIN t = 1 .. Len(s) + 1
      /\ \A i \in 1 .. Len(s) : t[i] = s[i]
      /\ t[Len(s) + 1] = Head(q)
  BY <1>1
<1> HIDE DEF t
<1>4. \A i \in DOMAIN t : t[i].version = i
  BY <1>1, <1>3
<1>5. ASSUME NEW i \in DOMAIN Tail(q)
      PROVE  Tail(q)[i].version = Len(t) + i
  <2>1. i \in 1 .. Len(q) - 1 /\ i + 1 \in DOMAIN q
    BY <1>1, <1>2
  <2>2. Tail(q)[i] = q[i + 1] /\ q[i + 1].version = Len(s) + (i + 1)
    BY <1>1, <2>1
  <2>3. Len(s) + (i + 1) = Len(t) + i
    BY <1>1, <1>3, <2>1
  <2> QED BY <2>2, <2>3
<1>6. Len(t) + Len(Tail(q)) = Len(s) + Len(q)
  BY <1>1, <1>3
<1> QED BY <1>3, <1>4, <1>5, <1>6 DEF t

LEMMA OrderedStep ==
  ASSUME Exclusive = TRUE, ApplyDuringSave = FALSE
  PROVE  Shape /\ Ordered /\ [Next]_vars => Ordered'
<1> SUFFICES ASSUME Shape, Ordered, [Next]_vars PROVE Ordered'
  OBVIOUS
<1>1. ASSUME NEW c \in Callers, Load(c) \/ Apply(c) PROVE Ordered'
  <2>1. /\ pc[c] = "idle"
        /\ \A d \in Callers \ {c} : agg'[d] = agg[d]
        /\ UNCHANGED <<pc, todo, stream>>
    BY <1>1 DEF Load, Apply, Shape, TypeOK
  <2> QED BY <2>1 DEF Ordered, Alone, Continues, StreamNumbered
<1>2. ASSUME NEW c \in Callers, Save(c) PROVE Ordered'
  <2>1. /\ \A d \in Callers : pc[d] = "idle"
        /\ UNCHANGED <<agg, stream>>
    BY <1>2 DEF Save
  <2>2. /\ pc'[c] = "check" /\ todo'[c] = agg[c].events
        /\ \A d \in Callers \ {c} : pc'[d] = "idle"
    BY <1>2, <2>1 DEF Save, Shape, TypeOK
  <2> QED BY <2>1, <2>2 DEF Ordered, Alone, Continues, StreamNumbered
<1>3. ASSUME NEW c \in Callers, CheckVersion(c) PROVE Ordered'
  <2>1. pc[c] = "check" /\ UNCHANGED <<agg, stream>>
    BY <1>3 DEF CheckVersion
  <2>2. \A d \in Callers \ {c} : pc[d] = "idle" /\ pc'[d] = "idle"
    BY <1>3, <2>1 DEF CheckVersion, Finish, Shape, TypeOK, Ordered, Alone
  <2>3. CASE pc'[c] = "idle"
    BY <2>1, <2>2, <2>3 DEF Ordered, Alone, Continues, StreamNumbered
  <2>4. CASE /\ agg[c].initialVersion = Len(stream)
             /\ pc' = [pc EXCEPT ![c] = "persist"] /\ UNCHANGED todo
    <3>1. pc'[c] = "persist" /\ todo'[c] = agg[c].events
      BY <2>1, <2>4 DEF Ordered, Continues, Shape, TypeOK
    <3>2. /\ \A i \in DOMAIN todo'[c] : todo'[c][i].version = Len(stream) + i
          /\ Len(stream) + Len(todo'[c]) = agg[c].version
      BY <2>4, <3>1
      DEF Shape, CopiesConsistent, Accounted, Numbered
    <3>3. Continues(c)'
      BY <2>1, <3>1, <3>2 DEF Continues
    <3>4. \A d \in Callers : Continues(d)'
      BY <2>2, <3>3 DEF Continues
    <3>5. Alone'
      BY <2>2 DEF Alone
    <3>6. StreamNumbered'
      BY <2>1 DEF Ordered, StreamNumbered
    <3> QED BY <3>4, <3>5, <3>6 DEF Ordered
  <2> QED
    BY <1>3, <2>3, <2>4 DEF CheckVersion, Finish, Shape, TypeOK
<1>4. ASSUME NEW c \in Callers, PersistEvent(c) PROVE Ordered'
  <2> DEFINE h == Head(todo[c])
             t == Tail(todo[c])
  <2>1. pc[c] = "persist" /\ UNCHANGED agg
    BY <1>4 DEF PersistEvent
  <2>2. \A d \in Callers \ {c} : pc[d] = "idle" /\ pc'[d] = "idle"
    BY <1>4, <2>1 DEF PersistEvent, Finish, Shape, TypeOK, Ordered, Alone
  <2>3. todo[c] \in Seq(Event(Id)) /\ todo[c] # <<>>
    BY <2>1, HeadType DEF Shape
  <2>4. /\ \A i \in DOMAIN todo[c] : todo[c][i].version = Len(stream) + i
        /\ Len(stream) + Len(todo[c]) = agg[c].version
    BY <2>1 DEF Ordered, Continues
  <2>5. stream \in Seq(Event(Id)) /\ \A i \in DOMAIN stream : stream[i].version = i
    BY DEF Shape, TypeOK, Ordered, StreamNumbered
  <2>6. /\ \A i \in DOMAIN Append(stream, h) :
               Append(stream, h)[i].version = i
        /\ Len(Append(stream, h)) = Len(stream) + 1
        /\ Len(Append(stream, h)) + Len(t) = Len(stream) + Len(todo[c])
        /\ \A i \in DOMAIN t : t[i].version = Len(Append(stream, h)) + i
    BY <2>3, <2>4, <2>5, AppendNext
  <2>7. \/ /\ pc'[c] = "dispatch" /\ t = <<>> /\ stream' = Append(stream, h)
        \/ /\ pc'[c] = "persist" /\ todo'[c] = t
           /\ stream' = Append(stream, h)
        \/ pc'[c] = "idle" /\ stream' \in {stream, Append(stream, h)}
    BY <1>4 DEF PersistEvent, Finish, Shape, TypeOK
  <2>8. Len(<<>>) = 0
    OBVIOUS
  <2>9. Len(stream) \in Nat
    BY <2>5
  <2> HIDE DEF h, t
  <2>10. StreamNumbered'
    BY <2>5, <2>6, <2>7 DEF StreamNumbered
  <2>11. Continues(c)'
    <3>1. CASE pc'[c] = "dispatch"
      BY <2>1, <2>4, <2>6, <2>7, <2>8, <2>9, <3>1 DEF Continues
    <3>2. CASE pc'[c] = "persist"
      BY <2>1, <2>4, <2>6, <2>7, <3>2 DEF Continues
    <3> QED BY <2>7, <3>1, <3>2 DEF Continues
  <2>12. \A d \in Callers : Continues(d)'
    BY <2>2, <2>11 DEF Continues
  <2> QED BY <2>2, <2>10, <2>12 DEF Ordered, Alone
<1>5. ASSUME NEW c \in Callers, DispatchEvent(c) PROVE Ordered'
  <2>1. pc[c] = "dispatch" /\ UNCHANGED stream
    BY <1>5 DEF DispatchEvent
  <2>2. \A d \in Callers \ {c} : pc[d] = "idle" /\ pc'[d] = "idle"
    BY <1>5, <2>1 DEF DispatchEvent, Finish, Shape, TypeOK, Ordered, Alone
  <2>3. \/ pc'[c] = "idle"
        \/ pc'[c] = "dispatch" /\ agg'[c] = agg[c]
    <3>1. Finish(c, "saved") \/ Finish(c, "failed") => pc'[c] = "idle"
      BY DEF Finish, Shape, TypeOK
    <3> QED BY <1>5, <2>1, <3>1 DEF DispatchEvent
  <2>4. Continues(c)'
    BY <2>1, <2>3 DEF Ordered, Continues
  <2> QED BY <2>1, <2>2, <2>4 DEF Ordered, Alone, Continues, StreamNumbered
<1>6. CASE UNCHANGED vars
  BY <1>6 DEF vars, Ordered, Alone, Continues, StreamNumbered
<1> QED
  BY <1>1, <1>2, <1>3, <1>4, <1>5, <1>6 DEF Next, SaveStep

(* With exclusive saves the stream has neither gaps nor twice the same     *)
(* version, whatever conflicts, rejected calls and partial saves occur.    *)
THEOREM StreamStaysNumbered ==
  ASSUME Exclusive = TRUE, ApplyDuringSave = FALSE
  PROVE  Spec => []StreamNumbered
<1>1. Shape /\ Ordered /\ [Next]_vars => Ordered'
  BY OrderedStep
<1>2. Ordered => StreamNumbered
  BY DEF Ordered
<1> QED BY <1>1, <1>2, ShapeInit, ShapeStep, OrderedInit, PTL DEF Spec

(* A save ends well only by its last dispatch, which commits the copy at   *)
(* the version the stream has reached.                                     *)
LEMMA SaveLeavesCurrent ==
  ASSUME Shape, Ordered, [Next]_vars
  PROVE  [SavesCurrent]_vars
<1> SUFFICES ASSUME Next, NEW c \in Callers,
                    outcome[c] # "saved", outcome'[c] = "saved"
             PROVE  agg'[c].initialVersion = Len(stream')
  BY DEF SavesCurrent
<1>1. PICK d \in Callers : Load(d) \/ Apply(d) \/ Save(d) \/ SaveStep(d)
  BY DEF Next
<1>2. DispatchEvent(d) /\ d = c
  BY <1>1
  DEF Load, Apply, Save, SaveStep, CheckVersion, PersistEvent,
      DispatchEvent, Finish, Shape, TypeOK
<1>3. /\ agg'[c] = Committed(agg[c]) /\ UNCHANGED stream
      /\ pc[c] = "dispatch"
  BY <1>2 DEF DispatchEvent, Finish, Shape, TypeOK
<1>4. Committed(agg[c]).initialVersion = agg[c].version
  BY CommittedFacts DEF Shape, TypeOK
<1> QED BY <1>3, <1>4 DEF Ordered, Continues

(* With exclusive saves a successful save leaves its copy at the persisted *)
(* version, so that the same copy can be changed and saved again.          *)
THEOREM SavesLeaveCopiesCurrent ==
  ASSUME Exclusive = TRUE, ApplyDuringSave = FALSE
  PROVE  Spec => SavesEndCurrent
<1>1. Shape /\ Ordered /\ [Next]_vars => [SavesCurrent]_vars
  BY SaveLeavesCurrent
<1>2. Shape /\ Ordered /\ [Next]_vars => Ordered'
  BY OrderedStep
<1> QED
  BY <1>1, <1>2, ShapeInit, ShapeStep, OrderedInit, PTL
  DEF Spec, SavesEndCurrent

-----------------------------------------------------------------------------
(* No event is published twice, when saves exclude each other              *)

Distinct(es) ==
  \A i, j \in DOMAIN es : es[i].id = es[j].id => i = j

(* The copies hold different events, a save handles each of them once, and *)
(* a copy whose events are published already is one the version check      *)
(* refuses: its initial version is behind the stream.                      *)
Separate(c) ==
  /\ Distinct(agg[c].events) /\ Ids(agg[c].events) \subseteq 1 .. applied
  /\ pc[c] # "idle" => Distinct(todo[c]) /\ Ids(todo[c]) \subseteq Ids(agg[c].events)
  /\ \A d \in Callers \ {c} : Ids(agg[c].events) \cap Ids(agg[d].events) = {}

Unpublished(c) ==
  /\ pc[c] \in {"idle", "check"} =>
       \/ Ids(published) \cap Ids(agg[c].events) = {}
       \/ agg[c].initialVersion < Len(stream)
  /\ pc[c] = "persist" => Ids(published) \cap Ids(agg[c].events) = {}
  /\ pc[c] = "dispatch" => Ids(published) \cap Ids(todo[c]) = {}

Single ==
  /\ PublishedOnce /\ Ids(published) \subseteq 1 .. applied
  /\ \A c \in Callers : Separate(c) /\ Unpublished(c)

LEMMA DistinctAppend ==
  ASSUME NEW s \in Seq(Event(Id)), NEW e \in Event(Id), Distinct(s), e.id \notin Ids(s)
  PROVE  Distinct(Append(s, e))
<1>1. /\ DOMAIN s = 1 .. Len(s) /\ Len(s) \in Nat
      /\ DOMAIN Append(s, e) = 1 .. Len(s) + 1
      /\ \A i \in 1 .. Len(s) : Append(s, e)[i] = s[i]
      /\ Append(s, e)[Len(s) + 1] = e
  OBVIOUS
<1>2. \A i \in 1 .. Len(s) + 1 : i \in DOMAIN s \/ i = Len(s) + 1
  BY <1>1
<1>3. \A i \in DOMAIN s : s[i].id # e.id
  BY DEF Ids
<1> QED BY <1>1, <1>2, <1>3 DEF Distinct

LEMMA DistinctTail ==
  ASSUME NEW s \in Seq(Event(Id)), s # <<>>, Distinct(s)
  PROVE  Distinct(Tail(s)) /\ Head(s).id \notin Ids(Tail(s))
<1>1. /\ Len(s) \in Nat \ {0}
      /\ Head(s) = s[1]
      /\ Tail(s) \in Seq(Event(Id))
      /\ Len(Tail(s)) = Len(s) - 1
      /\ \A i \in 1 .. Len(s) - 1 : Tail(s)[i] = s[i + 1]
      /\ DOMAIN s = 1 .. Len(s)
  OBVIOUS
<1>2. DOMAIN Tail(s) = 1 .. Len(s) - 1
  BY <1>1
<1>3. \A i \in DOMAIN Tail(s) : /\ i + 1 \in DOMAIN s /\ i + 1 # 1 /\ i \in Int
                                /\ Tail(s)[i] = s[i + 1]
  BY <1>1, <1>2
<1>4. 1 \in DOMAIN s
  BY <1>1
<1>5. \A i \in DOMAIN Tail(s) : Tail(s)[i].id # Head(s).id
  BY <1>1, <1>3, <1>4 DEF Distinct
<1>6. ASSUME NEW i \in DOMAIN Tail(s), NEW j \in DOMAIN Tail(s), Tail(s)[i].id = Tail(s)[j].id
      PROVE  i = j
  <2>1. i + 1 = j + 1
    BY <1>3, <1>6 DEF Distinct
  <2> QED BY <1>3, <2>1
<1> QED BY <1>5, <1>6 DEF Distinct, Ids

LEMMA SingleInit == Init => Single
<1>1. Ids(<<>>) = {} /\ Distinct(<<>>)
  BY DEF Ids, Distinct
<1> QED
  BY <1>1 DEF Init, Single, PublishedOnce, Separate, Unpublished, New, Distinct, Ids

LEMMA SingleStep ==
  ASSUME Exclusive = TRUE, ApplyDuringSave = FALSE
  PROVE  Shape /\ Ordered /\ Single /\ [Next]_vars => Single'
<1> SUFFICES ASSUME Shape, Ordered, Single, [Next]_vars PROVE Single'
  OBVIOUS
<1>0. /\ applied \in Nat /\ Len(stream) \in Nat
      /\ \A c \in Callers : /\ agg[c] \in Aggregate(Id) /\ agg[c].initialVersion \in Nat
                            /\ agg[c].events \in Seq(Event(Id))
                            /\ todo[c] \in Seq(Event(Id))
  BY RepositoryAssumption DEF Shape, TypeOK, Aggregate
<1>1. ASSUME NEW c \in Callers, Load(c) PROVE Single'
  <2>1. /\ pc[c] = "idle" /\ UNCHANGED <<pc, todo, stream, published, applied>>
        /\ Ids(agg'[c].events) = {} /\ Distinct(agg'[c].events)
        /\ \A d \in Callers \ {c} : agg'[d] = agg[d]
    BY <1>1 DEF Load, Shape, TypeOK, New, Ids, Distinct
  <2>2. PublishedOnce' /\ Ids(published') \subseteq 1 .. applied'
    BY <2>1 DEF Single, PublishedOnce
  <2>3. \A d \in Callers : Separate(d)' /\ Unpublished(d)'
    BY <2>1 DEF Single, Separate, Unpublished
  <2> QED BY <2>2, <2>3 DEF Single
<1>2. ASSUME NEW c \in Callers, Apply(c) PROVE Single'
  <2> DEFINE e == applied + 1
             a == Applied(agg[c], e)
             ev == [id |-> e, version |-> agg[c].version + 1]
  <2>1. /\ pc[c] = "idle" /\ UNCHANGED <<pc, todo, stream, published>>
        /\ applied' = e /\ agg'[c] = a
        /\ \A d \in Callers \ {c} : agg'[d] = agg[d]
    BY <1>2 DEF Apply, Shape, TypeOK
  <2>2. e \in Id
    BY <1>0, <1>2, RepositoryAssumption DEF Apply, Id
  <2>3. Ids(a.events) = Ids(agg[c].events) \cup {e}
    BY <1>0, <2>2, AppliedFacts
  <2>4. 1 .. applied \subseteq 1 .. e /\ e \in 1 .. e /\ e \notin 1 .. applied
    BY <1>0
  <2>5. Distinct(a.events) /\ a.initialVersion = agg[c].initialVersion
    <3>1. ev \in Event(Id) /\ ev.id = e
      BY <1>0, <2>2 DEF Event, Aggregate
    <3>2. Distinct(agg[c].events) /\ e \notin Ids(agg[c].events)
      BY <2>4 DEF Single, Separate
    <3>3. a.events = Append(agg[c].events, ev) /\ a.initialVersion = agg[c].initialVersion
      BY DEF Applied
    <3> HIDE DEF a, e, ev
    <3> QED BY <1>0, <3>1, <3>2, <3>3, DistinctAppend
  <2> HIDE DEF a, e, ev
  <2>6. PublishedOnce' /\ Ids(published') \subseteq 1 .. applied'
    BY <2>1, <2>4 DEF Single, PublishedOnce
  <2>7. \A d \in Callers : Ids(agg[d].events) \subseteq 1 .. applied
    BY DEF Single, Separate
  <2>8. Separate(c)'
    BY <2>1, <2>3, <2>4, <2>5, <2>7 DEF Single, Separate
  <2>9. ASSUME NEW d \in Callers \ {c} PROVE Separate(d)'
    <3>1. Ids(agg[d].events) \cap Ids(agg'[c].events) = {}
      BY <2>1, <2>3, <2>4, <2>7 DEF Single, Separate
    <3> QED BY <2>1, <2>4, <2>7, <3>1 DEF Single, Separate
  <2>10. Unpublished(c)'
    <3>1. e \notin Ids(published)
      BY <2>4 DEF Single
    <3> QED BY <2>1, <2>3, <2>5, <3>1 DEF Single, Unpublished
  <2>11. \A d \in Callers \ {c} : Unpublished(d)'
    BY <2>1 DEF Single, Unpublished
  <2> QED BY <2>6, <2>8, <2>9, <2>10, <2>11 DEF Single
<1>3. ASSUME NEW c \in Callers, Save(c) PROVE Single'
  <2>1. /\ pc[c] = "idle" /\ UNCHANGED <<agg, stream, published, applied>>
        /\ pc'[c] = "check" /\ todo'[c] = agg[c].events
        /\ \A d \in Callers \ {c} : pc'[d] = pc[d] /\ todo'[d] = todo[d]
    BY <1>3 DEF Save, Shape, TypeOK
  <2>2. PublishedOnce' /\ Ids(published') \subseteq 1 .. applied'
    BY <2>1 DEF Single, PublishedOnce
  <2>3. Separate(c)' /\ Unpublished(c)'
    BY <2>1 DEF Single, Separate, Unpublished
  <2>4. \A d \in Callers \ {c} : Separate(d)' /\ Unpublished(d)'
    BY <2>1 DEF Single, Separate, Unpublished
  <2> QED BY <2>2, <2>3, <2>4 DEF Single
<1>4. ASSUME NEW c \in Callers, CheckVersion(c) PROVE Single'
  <2>1. /\ pc[c] = "check" /\ UNCHANGED <<agg, stream, published, applied>>
        /\ \A d \in Callers \ {c} : pc'[d] = pc[d] /\ todo'[d] = todo[d]
    BY <1>4 DEF CheckVersion, Finish, Shape, TypeOK
  <2>2. \/ /\ agg[c].initialVersion = Len(stream)
           /\ pc'[c] = "persist" /\ todo'[c] = todo[c]
        \/ pc'[c] = "idle"
    BY <1>4 DEF CheckVersion, Finish, Shape, TypeOK
  <2>3. PublishedOnce' /\ Ids(published') \subseteq 1 .. applied'
    BY <2>1 DEF Single, PublishedOnce
  <2>4. Separate(c)'
    BY <2>1, <2>2 DEF Single, Separate
  <2>5. Unpublished(c)'
    <3>1. pc'[c] = "persist" => Ids(published) \cap Ids(agg[c].events) = {}
      BY <1>0, <2>1, <2>2 DEF Single, Unpublished
    <3> QED BY <2>1, <2>2, <3>1 DEF Single, Unpublished
  <2>6. \A d \in Callers \ {c} : Separate(d)' /\ Unpublished(d)'
    BY <2>1 DEF Single, Separate, Unpublished
  <2> QED BY <2>3, <2>4, <2>5, <2>6 DEF Single
<1>5. ASSUME NEW c \in Callers, PersistEvent(c) PROVE Single'
  <2>1. /\ pc[c] = "persist" /\ UNCHANGED <<agg, published, applied>>
        /\ \A d \in Callers \ {c} : pc'[d] = pc[d] /\ todo'[d] = todo[d]
    BY <1>5 DEF PersistEvent, Finish, Shape, TypeOK
  <2>2. \/ pc'[c] = "dispatch" /\ todo'[c] = agg[c].events
        \/ pc'[c] = "persist" /\ todo'[c] = Tail(todo[c])
        \/ pc'[c] = "idle"
    BY <1>5 DEF PersistEvent, Finish, Shape, TypeOK
  <2>3. todo[c] # <<>> /\ Head(todo[c]) \in Event(Id)
    BY <2>1, HeadType DEF Shape
  <2>4. Distinct(Tail(todo[c])) /\ Ids(Tail(todo[c])) \subseteq Ids(agg[c].events)
    <3>1. Distinct(todo[c]) /\ Ids(todo[c]) \subseteq Ids(agg[c].events)
      BY <2>1 DEF Single, Separate
    <3>2. Distinct(Tail(todo[c]))
      BY <1>0, <2>3, <3>1, DistinctTail
    <3>3. Ids(Tail(todo[c])) \subseteq Ids(todo[c])
      BY <1>0, <2>3, IdsTail
    <3> QED BY <3>1, <3>2, <3>3
  <2>5. Len(stream') \in Nat /\ Len(stream) <= Len(stream')
    <3>1. stream \in Seq(Event(Id))
      BY DEF Shape, TypeOK
    <3>2. Len(Append(stream, Head(todo[c]))) = Len(stream) + 1
      BY <2>3, <3>1
    <3> QED BY <1>0, <1>5, <3>2 DEF PersistEvent
  <2>6. PublishedOnce' /\ Ids(published') \subseteq 1 .. applied'
    BY <2>1 DEF Single, PublishedOnce
  <2>7. Separate(c)'
    BY <2>1, <2>2, <2>4 DEF Single, Separate
  <2>8. Unpublished(c)'
    BY <2>1, <2>2 DEF Single, Unpublished
  <2>9. ASSUME NEW d \in Callers \ {c} PROVE Separate(d)' /\ Unpublished(d)'
    <3>1. Separate(d)'
      BY <2>1 DEF Single, Separate
    <3>2. agg[d].initialVersion < Len(stream) => agg[d].initialVersion < Len(stream')
      BY <1>0, <2>5
    <3> QED BY <2>1, <3>1, <3>2 DEF Single, Unpublished
  <2> QED BY <2>6, <2>7, <2>8, <2>9 DEF Single
<1>6. ASSUME NEW c \in Callers, DispatchEvent(c) PROVE Single'
  <2> DEFINE h == Head(todo[c])
             t == Tail(todo[c])
  <2>1. /\ pc[c] = "dispatch" /\ UNCHANGED <<stream, applied>>
        /\ \A d \in Callers \ {c} : pc'[d] = pc[d] /\ todo'[d] = todo[d] /\ agg'[d] = agg[d]
        /\ published' \in {published, Append(published, h)}
    BY <1>6 DEF DispatchEvent, Finish, Shape, TypeOK
  <2>2. \/ pc'[c] = "dispatch" /\ todo'[c] = t /\ agg'[c] = agg[c]
        \/ pc'[c] = "idle" /\ agg'[c] \in {agg[c], Committed(agg[c])}
    BY <1>6 DEF DispatchEvent, Finish, Shape, TypeOK
  <2>3. /\ todo[c] # <<>> /\ h \in Event(Id) /\ h.id \in Ids(todo[c])
        /\ Ids(todo[c]) = Ids(t) \cup {h.id}
    BY <1>0, <2>1, HeadType, IdsTail DEF Shape
  <2>4. /\ Distinct(t) /\ h.id \notin Ids(t)
        /\ Distinct(todo[c]) /\ Ids(todo[c]) \subseteq Ids(agg[c].events)
        /\ h.id \notin Ids(published)
    BY <1>0, <2>1, <2>3, DistinctTail DEF Single, Separate, Unpublished
  <2>5. /\ Ids(Committed(agg[c]).events) = {}
        /\ Distinct(Committed(agg[c]).events)
    BY DEF Committed, New, Ids, Distinct
  <2>6. agg[c].initialVersion < Len(stream)
    <3>1. /\ Len(stream) = agg[c].version /\ agg[c].events # <<>>
          /\ agg[c].version = agg[c].initialVersion + Len(agg[c].events)
      BY <2>1 DEF Ordered, Continues, Shape, Pending, CopiesConsistent, Accounted
    <3>2. Len(agg[c].events) \in Nat \ {0}
      BY <1>0, <3>1
    <3> QED BY <1>0, <3>1, <3>2
  <2>7. published \in Seq(Event(Id)) /\ Distinct(published)
    BY DEF Shape, TypeOK, Single, PublishedOnce, Distinct
  <2> HIDE DEF h, t
  <2>8. /\ Distinct(published')
        /\ Ids(published') \subseteq Ids(published) \cup {h.id}
    <3>1. Distinct(Append(published, h))
      BY <2>3, <2>4, <2>7, DistinctAppend
    <3>2. Ids(Append(published, h)) = Ids(published) \cup {h.id}
      BY <2>3, <2>7, IdsAppend
    <3> QED BY <2>1, <2>7, <3>1, <3>2
  <2>9. PublishedOnce' /\ Ids(published') \subseteq 1 .. applied'
    BY <2>1, <2>3, <2>4, <2>8 DEF Single, Separate, PublishedOnce, Distinct
  <2>10. Separate(c)'
    BY <2>1, <2>2, <2>3, <2>4, <2>5 DEF Single, Separate
  <2>11. Unpublished(c)'
    BY <2>1, <2>2, <2>3, <2>4, <2>5, <2>6, <2>8 DEF Single, Unpublished
  <2>12. ASSUME NEW d \in Callers \ {c} PROVE Separate(d)' /\ Unpublished(d)'
    <3>1. Ids(agg'[c].events) \subseteq Ids(agg[c].events)
      BY <2>2, <2>5
    <3>2. Separate(d)'
      BY <2>1, <3>1 DEF Single, Separate
    <3>3. h.id \notin Ids(agg[d].events)
      BY <2>3, <2>4 DEF Single, Separate
    <3>4. pc[d] = "idle"
      BY <2>1 DEF Ordered, Alone
    <3>5. Unpublished(d)'
      BY <2>1, <2>8, <3>3, <3>4 DEF Single, Unpublished
    <3> QED BY <3>2, <3>5
  <2> QED BY <2>9, <2>10, <2>11, <2>12 DEF Single
<1>7. CASE UNCHANGED vars
  BY <1>7 DEF vars, Single, PublishedOnce, Separate, Unpublished
<1> QED
  BY <1>1, <1>2, <1>3, <1>4, <1>5, <1>6, <1>7 DEF Next, SaveStep

(* When saves exclude each other, the stream has neither gap nor           *)
(* repetition, no event is published twice, and a successful save leaves   *)
(* its copy at the persisted version, through conflicts and rejected calls *)
(* at every await.                                                         *)
THEOREM ExclusiveSavesHold ==
  ASSUME Exclusive = TRUE, ApplyDuringSave = FALSE
  PROVE  MCSpec => ExclusiveSaves
<1> DEFINE Inv == part = "exclusive" => Shape /\ Ordered /\ Single
<1>1. MCInit => Inv
  BY ShapeInit, OrderedInit, SingleInit DEF MCInit
<1>2. [MCNext]_mcvars => part' = part /\ (part = "exclusive" => [Next]_vars)
  BY DEF MCNext, mcvars
<1>3. Inv /\ [MCNext]_mcvars => Inv'
  BY <1>2, ShapeStep, OrderedStep, SingleStep
<1>4. Inv => (part = "exclusive" => StreamNumbered /\ PublishedOnce)
  BY DEF Ordered, Single
<1>5. Inv /\ [MCNext]_mcvars => [part = "exclusive" => SavesCurrent]_vars
  <2> SUFFICES ASSUME Inv, [MCNext]_mcvars, part = "exclusive"
               PROVE  [SavesCurrent]_vars
    OBVIOUS
  <2> QED BY <1>2, SaveLeavesCurrent
<1> HIDE DEF Inv
<1> QED
  BY <1>1, <1>3, <1>4, <1>5, PTL DEF MCSpec, ExclusiveSaves

-----------------------------------------------------------------------------
(* The breaker *)

(* A half open circuit has seen fewer calls end well than would close it,  *)
(* and every one it counts ended well since it became half open.           *)
BreakerInv ==
  /\ AnyTraffic!TypeOK
  /\ AnyTraffic!ClosedBelowThreshold
  /\ circuit = "HALF_OPEN" =>
       halfOpenAttempts < HalfOpenMaxAttempts /\ probed >= halfOpenAttempts

(* Traffic that pauses is traffic of some kind.                            *)
LEMMA PausingIsTraffic == Pausing!Next => AnyTraffic!Next
<1> USE DEF Pausing!Goto, AnyTraffic!Goto, Pausing!Bump, AnyTraffic!Bump,
     Pausing!Never, AnyTraffic!Never, Pausing!ShouldAttemptReset,
     AnyTraffic!ShouldAttemptReset
<1>1. Pausing!Tick => AnyTraffic!Tick
  BY DEF Pausing!Tick, AnyTraffic!Tick
<1>2. Pausing!Heal => AnyTraffic!Heal
  BY DEF Pausing!Heal, AnyTraffic!Heal
<1>3. \A w : Pausing!OnBeforeApply(w) => AnyTraffic!OnBeforeApply(w)
  BY DEF Pausing!OnBeforeApply, AnyTraffic!OnBeforeApply, Pausing!Admit, AnyTraffic!Admit
<1>4. \A w : Pausing!OnAfterApply(w) => AnyTraffic!OnAfterApply(w)
  BY DEF Pausing!OnAfterApply, AnyTraffic!OnAfterApply
<1>5. \A w : Pausing!Fail(w) => AnyTraffic!Fail(w)
  BY DEF Pausing!Fail, AnyTraffic!Fail
<1>6. \A w : Pausing!OnError(w) => AnyTraffic!OnError(w)
  BY DEF Pausing!OnError, AnyTraffic!OnError
<1> QED
  BY <1>1, <1>2, <1>3, <1>4, <1>5, <1>6 DEF Pausing!Next, AnyTraffic!Next

LEMMA BreakerConstants ==
  /\ FailureThreshold \in Nat \ {0} /\ HalfOpenMaxAttempts \in Nat \ {0}
  /\ RecoveryTimeout \in Nat /\ MaxCount \in Nat
  /\ MaxCount >= FailureThreshold /\ MaxCount >= HalfOpenMaxAttempts
BY PartsAssumption DEF AnyTraffic!BreakerAssumption

LEMMA BreakerInit ==
  ASSUME AnyTraffic!Init
  PROVE  BreakerInv
<1>1. /\ circuit = "CLOSED" /\ failureCount = 0 /\ halfOpenAttempts = 0
      /\ age = RecoveryTimeout + 2 /\ calls = [w \in Calls |-> "idle"] /\ probed = 0
  BY DEF AnyTraffic!Init, AnyTraffic!Never
<1>2. healthy \in BOOLEAN /\ due \in BOOLEAN
  BY DEF AnyTraffic!Init
<1>3. /\ 0 \in 0 .. MaxCount /\ 0 \in 0 .. HalfOpenMaxAttempts /\ 0 < FailureThreshold
      /\ RecoveryTimeout + 2 \in 0 .. RecoveryTimeout + 2
  BY BreakerConstants
<1> QED
  BY <1>1, <1>2, <1>3 DEF BreakerInv, AnyTraffic!TypeOK,
     AnyTraffic!ClosedBelowThreshold, AnyTraffic!Circuits, AnyTraffic!Steps, AnyTraffic!Never

(* What a step may do: a circuit closes after enough calls that ended      *)
(* well, and no call gets through an open one before the timeout.          *)
BreakerRules ==
  /\ circuit = "HALF_OPEN" /\ circuit' = "CLOSED" => probed' >= HalfOpenMaxAttempts
  /\ \A w \in Calls :
       circuit = "OPEN" /\ calls[w] = "idle" /\ calls'[w] = "running"
         => age > RecoveryTimeout /\ circuit' = "HALF_OPEN"

LEMMA BreakerStep ==
  ASSUME BreakerInv, AnyTraffic!Next
  PROVE  BreakerInv' /\ BreakerRules
<1> USE BreakerConstants
<1>a. /\ circuit \in {"CLOSED", "OPEN", "HALF_OPEN"}
      /\ failureCount \in 0 .. MaxCount /\ halfOpenAttempts \in 0 .. HalfOpenMaxAttempts
      /\ age \in 0 .. RecoveryTimeout + 2 /\ probed \in 0 .. MaxCount
      /\ healthy \in BOOLEAN /\ due \in BOOLEAN
      /\ calls \in [Calls -> {"idle", "running", "failing"}]
      /\ circuit = "CLOSED" => failureCount < FailureThreshold
      /\ circuit = "HALF_OPEN" =>
           halfOpenAttempts < HalfOpenMaxAttempts /\ probed >= halfOpenAttempts
  BY DEF BreakerInv, AnyTraffic!TypeOK, AnyTraffic!Circuits, AnyTraffic!Steps,
         AnyTraffic!Never, AnyTraffic!ClosedBelowThreshold
<1> DEFINE Good ==
      /\ circuit' \in {"CLOSED", "OPEN", "HALF_OPEN"}
      /\ failureCount' \in 0 .. MaxCount /\ halfOpenAttempts' \in 0 .. HalfOpenMaxAttempts
      /\ age' \in 0 .. RecoveryTimeout + 2 /\ probed' \in 0 .. MaxCount
      /\ healthy' \in BOOLEAN /\ due' \in BOOLEAN
      /\ calls' \in [Calls -> {"idle", "running", "failing"}]
      /\ circuit' = "CLOSED" => failureCount' < FailureThreshold
      /\ circuit' = "HALF_OPEN" =>
           halfOpenAttempts' < HalfOpenMaxAttempts /\ probed' >= halfOpenAttempts'
      /\ BreakerRules
<1>b. SUFFICES Good
  BY DEF BreakerInv, AnyTraffic!TypeOK, AnyTraffic!Circuits, AnyTraffic!Steps,
         AnyTraffic!Never, AnyTraffic!ClosedBelowThreshold
<1> USE DEF BreakerRules
<1>1. CASE AnyTraffic!Tick
  BY <1>a, <1>1 DEF AnyTraffic!Tick
<1>2. CASE AnyTraffic!Heal
  BY <1>a, <1>2 DEF AnyTraffic!Heal
<1>3. ASSUME NEW w \in Calls,
             calls' = [calls EXCEPT ![w] = "idle"] \/ calls' = [calls EXCEPT ![w] = "failing"]
                \/ calls' = calls
      PROVE  /\ calls' \in [Calls -> {"idle", "running", "failing"}]
             /\ \A v \in Calls : calls[v] = "idle" => calls'[v] # "running"
  BY <1>a, <1>3
<1>4. ASSUME NEW w \in Calls, AnyTraffic!OnBeforeApply(w) PROVE Good
  <2>1. /\ UNCHANGED <<failureCount, age>>
        /\ \/ /\ UNCHANGED <<circuit, halfOpenAttempts, probed>>
              /\ circuit # "OPEN" /\ calls' = [calls EXCEPT ![w] = "running"]
           \/ /\ UNCHANGED <<circuit, halfOpenAttempts, probed>>
              /\ circuit = "OPEN" /\ calls' = [calls EXCEPT ![w] = "failing"]
           \/ /\ circuit = "OPEN" /\ calls' = [calls EXCEPT ![w] = "running"]
              /\ age > RecoveryTimeout
              /\ circuit' = "HALF_OPEN" /\ halfOpenAttempts' = 0 /\ probed' = 0
    BY <1>4 DEF AnyTraffic!OnBeforeApply, AnyTraffic!Goto, AnyTraffic!Admit,
       AnyTraffic!ShouldAttemptReset
  <2>3. healthy' \in BOOLEAN /\ due' \in BOOLEAN
    BY <1>a, <1>4 DEF AnyTraffic!OnBeforeApply
  <2>2. calls' \in [Calls -> {"idle", "running", "failing"}]
    BY <1>a, <2>1
  <2> QED
    BY <1>a, <1>3, <2>1, <2>2, <2>3
<1>5. ASSUME NEW w \in Calls, AnyTraffic!OnAfterApply(w) PROVE Good
  <2>1. /\ calls' = [calls EXCEPT ![w] = "idle"] /\ UNCHANGED <<age, healthy, due>>
        /\ \/ /\ circuit = "HALF_OPEN" /\ halfOpenAttempts' = halfOpenAttempts + 1
              /\ probed' = AnyTraffic!Bump(probed)
              /\ IF halfOpenAttempts + 1 >= HalfOpenMaxAttempts
                 THEN circuit' = "CLOSED" /\ failureCount' = 0
                 ELSE circuit' = circuit /\ failureCount' = failureCount
           \/ /\ circuit = "CLOSED" /\ failureCount' = 0
              /\ UNCHANGED <<circuit, halfOpenAttempts, probed>>
           \/ /\ circuit = "OPEN"
              /\ UNCHANGED <<circuit, failureCount, halfOpenAttempts, probed>>
    BY <1>a, <1>5 DEF AnyTraffic!OnAfterApply, AnyTraffic!Goto
  <2>2. /\ AnyTraffic!Bump(probed) \in 0 .. MaxCount
        /\ circuit = "HALF_OPEN" => AnyTraffic!Bump(probed) >= halfOpenAttempts + 1
    BY <1>a DEF AnyTraffic!Bump
  <2> QED
    BY <1>a, <1>3, <2>1, <2>2
<1>6. ASSUME NEW w \in Calls, AnyTraffic!Fail(w) PROVE Good
  BY <1>a, <1>3, <1>6 DEF AnyTraffic!Fail, AnyTraffic!Goto
<1>7. ASSUME NEW w \in Calls, AnyTraffic!OnError(w) PROVE Good
  <2>1. /\ calls' = [calls EXCEPT ![w] = "idle"] /\ age' = 0
        /\ failureCount' = AnyTraffic!Bump(failureCount)
        /\ UNCHANGED <<halfOpenAttempts, probed, healthy, due>>
        /\ circuit' = IF circuit = "HALF_OPEN" \/ failureCount + 1 >= FailureThreshold
                      THEN "OPEN" ELSE circuit
    BY <1>7 DEF AnyTraffic!OnError, AnyTraffic!Goto
  <2>2. /\ AnyTraffic!Bump(failureCount) \in 0 .. MaxCount
        /\ AnyTraffic!Bump(failureCount) <= failureCount + 1
    BY <1>a DEF AnyTraffic!Bump
  <2> QED
    BY <1>a, <1>3, <2>1, <2>2
<1> QED
  BY <1>1, <1>2, <1>4, <1>5, <1>6, <1>7 DEF AnyTraffic!Next

-----------------------------------------------------------------------------
(* The hub *)

EngineRecord == [projection : Projections, snapshots : BOOLEAN, counter : Nat, version : Nat]
Snapshot == [state : Seq(Nat), position : Nat, version : Nat]

Of(e) == engines[e].projection

HubTypes ==
  /\ engines \in Seq(EngineRecord)
  /\ builders \in [Projections -> 0 .. Len(engines)]
  /\ registered \in [Projections -> 0 .. Len(engines)]
  /\ \A p \in Projections : registered[p] # 0 => Of(registered[p]) = p
  /\ events \in Nat
  /\ DOMAIN at \subseteq 1 .. Len(engines)
  /\ \A e \in DOMAIN at : at[e] \in {"apply", "snapshot"} /\ events # 0
  /\ \A e, f \in DOMAIN at : Of(e) = Of(f) => e = f
  /\ models \in [Projections -> Seq(Nat)]
  /\ \A p \in Projections : \A i \in 1 .. Len(models[p]) : models[p][i] \in 1 .. events
  /\ snapshots \in [Projections -> Seq(Snapshot)]
  /\ \A d \in owed : d[2] \in Projections

(* An engine at work that is about to take a snapshot has stored its event *)
(* last, and one that is about to apply it has taken no snapshot of it.    *)
AtWork ==
  \A e \in DOMAIN at :
    /\ at[e] = "snapshot" =>
         models[Of(e)] # <<>> /\ models[Of(e)][Len(models[Of(e)])] = events
    /\ at[e] = "apply" =>
         \A i \in 1 .. Len(snapshots[Of(e)]) : snapshots[Of(e)][i].position < events

(* A snapshot is what the read model began with, up to its position.       *)
SnapshotOf(s, model) ==
  /\ s.state # <<>> /\ Len(s.state) <= Len(model)
  /\ \A k \in 1 .. Len(s.state) : s.state[k] = model[k]
  /\ s.position = s.state[Len(s.state)]
  /\ \A k \in Len(s.state) + 1 .. Len(model) : model[k] > s.position

ModelsKept ==
  \A p \in Projections : \A i \in 1 .. Len(snapshots[p]) :
    SnapshotOf(snapshots[p][i], models[p])

(* The versions taken so far are not above that of an engine that takes    *)
(* snapshots in service or at work, and below the one it is about to take; *)
(* while it is at work no other engine of its projection that takes        *)
(* snapshots is put into service.                                          *)
UpTo(v, p) == \A i \in 1 .. Len(snapshots[p]) : snapshots[p][i].version <= v

Above(v, p) == \A i \in 1 .. Len(snapshots[p]) : snapshots[p][i].version < v

VersionsGrow ==
  /\ \A p \in Projections : \A i, j \in 1 .. Len(snapshots[p]) :
       j < i => snapshots[p][j].version < snapshots[p][i].version
  /\ \A p \in Projections :
       registered[p] # 0 /\ engines[registered[p]].snapshots
         => UpTo(engines[registered[p]].version, p)
  /\ \A e \in DOMAIN at :
       /\ engines[e].snapshots => UpTo(engines[e].version, Of(e))
       /\ at[e] = "snapshot" => engines[e].snapshots /\ Above(engines[e].version, Of(e))
       /\ engines[e].snapshots /\ registered[Of(e)] \notin {0, e}
            => ~engines[registered[Of(e)]].snapshots

HubInv == HubTypes /\ AtWork /\ ModelsKept /\ VersionsGrow /\ Hub!EveryEngineServed

(* An engine of the sequence is replaced by another.                       *)
LEMMA EngineReplaced ==
  ASSUME NEW S, NEW s \in Seq(S), NEW t, NEW e \in 1 .. Len(s), NEW r \in S,
         t = [s EXCEPT ![e] = r]
  PROVE  /\ t \in Seq(S) /\ Len(t) = Len(s) /\ t[e] = r
         /\ \A f \in 1 .. Len(s) : f # e => t[f] = s[f]
<1> DEFINE n == Len(s)
<1>1. n \in Nat /\ s \in [1 .. n -> S]
  BY LenProperties
<1>2. t \in [1 .. n -> S] /\ t[e] = r /\ \A f \in 1 .. n : f # e => t[f] = s[f]
  BY <1>1
<1>3. t \in Seq(S) /\ Len(t) = n
  BY <1>1, <1>2, SeqDef, LenProperties
<1> QED
  BY <1>2, <1>3

LEMMA HubIndices ==
  ASSUME HubTypes
  PROVE  /\ Len(engines) \in Nat /\ DOMAIN engines = 1 .. Len(engines)
         /\ \A e \in 1 .. Len(engines) : engines[e] \in EngineRecord /\ Of(e) \in Projections
         /\ \A p \in Projections : /\ models[p] \in Seq(Nat) /\ Len(models[p]) \in Nat
                                   /\ DOMAIN models[p] = 1 .. Len(models[p])
                                   /\ snapshots[p] \in Seq(Snapshot)
                                   /\ Len(snapshots[p]) \in Nat
                                   /\ DOMAIN snapshots[p] = 1 .. Len(snapshots[p])
                                   /\ \A i \in 1 .. Len(snapshots[p]) :
                                        snapshots[p][i] \in Snapshot
         /\ \A p \in Projections : registered[p] # 0 => registered[p] \in 1 .. Len(engines)
<1>1. engines \in Seq(EngineRecord)
  BY DEF HubTypes
<1>2. Len(engines) \in Nat /\ DOMAIN engines = 1 .. Len(engines)
      /\ \A e \in 1 .. Len(engines) : engines[e] \in EngineRecord
  BY <1>1, LenProperties, ElementOfSeq
<1>3. \A e \in 1 .. Len(engines) : Of(e) \in Projections
  BY <1>2 DEF EngineRecord, Of
<1>4. ASSUME NEW p \in Projections
      PROVE  /\ models[p] \in Seq(Nat) /\ Len(models[p]) \in Nat
             /\ DOMAIN models[p] = 1 .. Len(models[p])
             /\ snapshots[p] \in Seq(Snapshot)
             /\ Len(snapshots[p]) \in Nat
             /\ DOMAIN snapshots[p] = 1 .. Len(snapshots[p])
             /\ \A i \in 1 .. Len(snapshots[p]) : snapshots[p][i] \in Snapshot
  <2>1. models[p] \in Seq(Nat) /\ snapshots[p] \in Seq(Snapshot)
    BY DEF HubTypes
  <2> QED
    BY <2>1, LenProperties, ElementOfSeq
<1>5. ASSUME NEW p \in Projections, registered[p] # 0
      PROVE  registered[p] \in 1 .. Len(engines)
  <2>1. registered[p] \in 0 .. Len(engines)
    BY DEF HubTypes
  <2> QED
    BY <1>2, <1>5, <2>1
<1> QED
  BY <1>2, <1>3, <1>4, <1>5

(* The position of a snapshot is an event that was dispatched.             *)
LEMMA PositionIs ==
  ASSUME HubTypes, ModelsKept, NEW p \in Projections, NEW i \in 1 .. Len(snapshots[p])
  PROVE  snapshots[p][i].position \in 1 .. events
<1> DEFINE s == snapshots[p][i]
<1>1. /\ s \in Snapshot /\ Len(models[p]) \in Nat
  BY HubIndices
<1>2. SnapshotOf(s, models[p])
  BY DEF ModelsKept
<1>3. s.state \in Seq(Nat) /\ s.state # <<>>
  BY <1>1, <1>2 DEF Snapshot, SnapshotOf
<1> HIDE DEF s
<1>4. Len(s.state) \in Nat \ {0}
  BY <1>3, EmptySeq, LenProperties
<1>5. /\ Len(s.state) \in 1 .. Len(s.state) /\ Len(s.state) \in 1 .. Len(models[p])
  BY <1>1, <1>2, <1>4 DEF SnapshotOf
<1>6. s.position = models[p][Len(s.state)]
  BY <1>2, <1>5 DEF SnapshotOf
<1>7. models[p][Len(s.state)] \in 1 .. events
  BY <1>5 DEF HubTypes
<1> QED
  BY <1>6, <1>7 DEF s

(* What a new engine is resumed from has the highest version.              *)
LEMMA NewestIs ==
  ASSUME HubTypes, VersionsGrow, NEW p \in Projections
  PROVE  UpTo(Hub!Newest(p), p)
<1> DEFINE s == snapshots[p]  n == Len(s)
<1>1. /\ s \in Seq(Snapshot) /\ n \in Nat /\ \A i \in 1 .. n : s[i] \in Snapshot
  BY HubIndices
<1>2. \A i \in 1 .. n : s[i].version \in Nat
  BY <1>1 DEF Snapshot
<1>3. \A i, j \in 1 .. n : j < i => s[j].version < s[i].version
  BY DEF VersionsGrow
<1>4. n # 0 => Hub!Newest(p) = s[n].version
  BY <1>1, EmptySeq DEF Hub!Newest, Hub!Last
<1>5. SUFFICES ASSUME NEW i \in 1 .. n PROVE s[i].version <= Hub!Newest(p)
  BY DEF UpTo
<1> HIDE DEF s, n
<1>6. n \in 1 .. n /\ n # 0 /\ (i = n \/ i < n)
  BY <1>1
<1>7. CASE i = n
  BY <1>2, <1>4, <1>6, <1>7
<1>8. CASE i < n
  BY <1>2, <1>3, <1>4, <1>6, <1>8
<1> QED
  BY <1>6, <1>7, <1>8

LEMMA HubStart ==
  ASSUME Hub!Init
  PROVE  HubInv
<1>1. /\ engines = <<>> /\ events = 0 /\ at = <<>> /\ Hub!Init
      /\ \A p \in Projections : /\ builders[p] = 0 /\ registered[p] = 0
                                /\ models[p] = <<>> /\ snapshots[p] = <<>>
  BY DEF Hub!Init
<1>2. Len(<<>>) = 0 /\ DOMAIN <<>> = {} /\ 1 .. 0 = {}
  OBVIOUS
<1>3. HubTypes
  <2>1. /\ <<>> \in Seq(EngineRecord) /\ <<>> \in Seq(Nat) /\ <<>> \in Seq(Snapshot)
    OBVIOUS
  <2>2. /\ builders = [p \in Projections |-> 0] /\ registered = [p \in Projections |-> 0]
        /\ models = [p \in Projections |-> <<>>] /\ snapshots = [p \in Projections |-> <<>>]
    BY DEF Hub!Init
  <2>3. 0 \in 0 .. 0 /\ 0 \in Nat
    OBVIOUS
  <2>4. owed = {}
    BY DEF Hub!Init
  <2> QED
    BY <1>1, <1>2, <2>1, <2>2, <2>3, <2>4 DEF HubTypes
<1>4. AtWork /\ ModelsKept /\ VersionsGrow
  BY <1>1, <1>2 DEF AtWork, ModelsKept, VersionsGrow
<1>5. Hub!EveryEngineServed
  BY <1>1 DEF Hub!Init, Hub!EveryEngineServed
<1> QED
  BY <1>3, <1>4, <1>5 DEF HubInv

(* Building and registering: engines at work stay what they are, and one   *)
(* that is in service is not below the versions taken.                     *)
LEMMA ManagedStep ==
  ASSUME HubInv, UNCHANGED <<events, at, reported, owed, models, snapshots>>,
         engines' \in Seq(EngineRecord), Len(engines) <= Len(engines'),
         \A e \in 1 .. Len(engines) : engines'[e].projection = engines[e].projection,
         \A e \in DOMAIN at : engines'[e] = engines[e],
         builders' \in [Projections -> 0 .. Len(engines')],
         registered' \in [Projections -> 0 .. Len(engines')],
         \A p \in Projections : registered'[p] # 0 => engines'[registered'[p]].projection = p,
         \A p \in Projections :
           registered'[p] # 0 /\ engines'[registered'[p]].snapshots
             => /\ UpTo(engines'[registered'[p]].version, p)
                /\ \/ DOMAIN at = {}
                   \/ registered'[p] = registered[p] /\ engines[registered[p]].snapshots
  PROVE  HubInv'
<1> USE DEF HubInv
<1>1. /\ Len(engines) \in Nat /\ Len(engines') \in Nat /\ DOMAIN at \subseteq 1 .. Len(engines)
  BY HubIndices, LenProperties DEF HubTypes
<1>2. \A e \in DOMAIN at : Of(e)' = Of(e) /\ e \in 1 .. Len(engines')
  BY <1>1 DEF Of
<1>3. HubTypes'
  BY <1>1, <1>2 DEF HubTypes, Of
<1>4. AtWork'
  BY <1>2 DEF AtWork
<1>5. ModelsKept'
  BY DEF ModelsKept
<1>6. \A v : \A p : (UpTo(v, p) => UpTo(v, p)') /\ (Above(v, p) => Above(v, p)')
  BY DEF UpTo, Above
<1>7. VersionsGrow'
  <2>1. \A p \in Projections : \A i, j \in 1 .. Len(snapshots[p]) :
          j < i => snapshots[p][j].version < snapshots[p][i].version
    BY DEF VersionsGrow
  <2>2. \A p \in Projections :
          registered'[p] # 0 /\ engines'[registered'[p]].snapshots
            => UpTo(engines'[registered'[p]].version, p)
    OBVIOUS
  <2>3. ASSUME NEW e \in DOMAIN at
        PROVE  /\ engines[e].snapshots => UpTo(engines[e].version, Of(e))
               /\ at[e] = "snapshot" => engines[e].snapshots /\ Above(engines[e].version, Of(e))
               /\ engines[e].snapshots /\ registered'[Of(e)] \notin {0, e}
                    => ~engines'[registered'[Of(e)]].snapshots
    <3>1. Of(e) \in Projections /\ DOMAIN at # {}
      BY <1>1, HubIndices
    <3> QED
      BY <3>1 DEF VersionsGrow
  <2> QED
    BY <1>2, <1>6, <2>1, <2>2, <2>3 DEF VersionsGrow
<1>8. Hub!EveryEngineServed'
  <2>1. \A n, p : Hub!Delivered(n, p)' <=> Hub!Delivered(n, p)
    BY DEF Hub!Delivered, Hub!Range
  <2>2. \A e \in DOMAIN at : engines'[e].projection = engines[e].projection
    BY <1>2 DEF Of
  <2> QED
    BY <2>1, <2>2 DEF Hub!EveryEngineServed
<1> QED
  BY <1>3, <1>4, <1>5, <1>7, <1>8

LEMMA NewEngineLeads ==
  ASSUME HubInv, NEW p \in Projections, Hub!NewEngine(p)
  PROVE  HubInv'
<1> USE DEF HubInv
<1> DEFINE n == Len(engines)  new == [projection |-> p, snapshots |-> FALSE, counter |-> 0, version |-> 0]
<1>1. /\ engines \in Seq(EngineRecord) /\ n \in Nat /\ new \in EngineRecord
      /\ DOMAIN at \subseteq 1 .. n
  BY HubIndices DEF HubTypes, EngineRecord
<1>2. /\ engines' = Append(engines, new)
      /\ builders' = [builders EXCEPT ![p] = n + 1]
      /\ UNCHANGED <<registered, events, at, reported, owed, models, snapshots>>
  BY DEF Hub!NewEngine
<1> HIDE DEF new
<1>3. /\ engines' \in Seq(EngineRecord) /\ Len(engines') = n + 1
      /\ \A e \in 1 .. n : engines'[e] = engines[e]
  BY <1>1, <1>2, AppendProperties
<1>4. /\ builders' \in [Projections -> 0 .. n + 1] /\ registered' \in [Projections -> 0 .. n + 1]
  <2>1. \A k \in 0 .. n : k \in 0 .. n + 1
    BY <1>1
  <2>2. n + 1 \in 0 .. n + 1
    BY <1>1
  <2> QED
    BY <1>2, <2>1, <2>2 DEF HubTypes
<1>5. \A q \in Projections : registered[q] # 0 =>
        registered[q] \in 1 .. n /\ engines'[registered[q]] = engines[registered[q]]
  BY <1>3, HubIndices
<1>6. \A q \in Projections : registered'[q] # 0 => engines'[registered'[q]].projection = q
  BY <1>2, <1>5 DEF HubTypes, Of
<1>7. \A q \in Projections :
        registered'[q] # 0 /\ engines'[registered'[q]].snapshots
          => /\ UpTo(engines'[registered'[q]].version, q)
             /\ registered'[q] = registered[q] /\ engines[registered[q]].snapshots
  BY <1>2, <1>5 DEF VersionsGrow
<1> HIDE DEF HubInv
<1>8. n <= n + 1
  BY <1>1
<1> QED
  BY <1>1, <1>2, <1>3, <1>4, <1>6, <1>7, <1>8, ManagedStep

(* An engine that is not at work is given a capability or resumed.         *)
LEMMA EngineChanges ==
  ASSUME HubInv, NEW e \in 1 .. Len(engines), NEW r \in EngineRecord,
         engines' = [engines EXCEPT ![e] = r], r.projection = Of(e),
         e \notin DOMAIN at,
         UNCHANGED <<builders, registered, events, at, reported, owed, models, snapshots>>,
         \A p \in Projections : registered[p] = e /\ r.snapshots
                                  => UpTo(r.version, p) /\ DOMAIN at = {}
  PROVE  HubInv'
<1> USE DEF HubInv
<1>1. /\ engines \in Seq(EngineRecord) /\ DOMAIN at \subseteq 1 .. Len(engines)
  BY DEF HubTypes
<1>2. /\ engines' \in Seq(EngineRecord) /\ Len(engines') = Len(engines) /\ engines'[e] = r
      /\ \A f \in 1 .. Len(engines) : f # e => engines'[f] = engines[f]
  BY <1>1, EngineReplaced
<1>3. \A f \in 1 .. Len(engines) : engines'[f].projection = engines[f].projection
  BY <1>2 DEF Of
<1>4. \A f \in DOMAIN at : engines'[f] = engines[f]
  BY <1>1, <1>2
<1>5. \A p \in Projections : registered'[p] # 0 => engines'[registered'[p]].projection = p
  BY <1>3, HubIndices DEF HubTypes, Of
<1>6. \A p \in Projections :
        registered'[p] # 0 /\ engines'[registered'[p]].snapshots
          => /\ UpTo(engines'[registered'[p]].version, p)
             /\ \/ DOMAIN at = {}
                \/ registered'[p] = registered[p] /\ engines[registered[p]].snapshots
  <2>1. SUFFICES ASSUME NEW p \in Projections,
                        registered[p] # 0, engines'[registered[p]].snapshots
                 PROVE  /\ UpTo(engines'[registered[p]].version, p)
                        /\ DOMAIN at = {} \/ engines[registered[p]].snapshots
    OBVIOUS
  <2>2. registered[p] \in 1 .. Len(engines)
    BY <2>1, HubIndices
  <2>3. CASE registered[p] = e
    BY <1>2, <2>1, <2>3
  <2>4. CASE registered[p] # e
    BY <1>2, <2>1, <2>2, <2>4 DEF VersionsGrow
  <2> QED
    BY <2>3, <2>4
<1>7. /\ builders' \in [Projections -> 0 .. Len(engines')]
      /\ registered' \in [Projections -> 0 .. Len(engines')]
      /\ Len(engines) <= Len(engines')
  BY <1>2, HubIndices DEF HubTypes
<1> HIDE DEF HubInv
<1> QED
  BY <1>2, <1>3, <1>4, <1>5, <1>6, <1>7, ManagedStep

LEMMA WithSnapshotsLeads ==
  ASSUME HubInv, NEW p \in Projections, Hub!WithSnapshots(p)
  PROVE  HubInv'
<1> DEFINE e == builders[p]
           r == [engines[e] EXCEPT !.snapshots = TRUE, !.counter = 0, !.version = 0]
<1>1. /\ e # 0 /\ e \notin DOMAIN at /\ e \notin Hub!Serving
      /\ engines' = [engines EXCEPT ![e].snapshots = TRUE, ![e].counter = 0, ![e].version = 0]
      /\ UNCHANGED <<builders, registered, events, at, reported, owed, models, snapshots>>
  BY DEF Hub!WithSnapshots
<1>2. e \in 1 .. Len(engines) /\ engines[e] \in EngineRecord
  <2>1. e \in 0 .. Len(engines) /\ Len(engines) \in Nat
    BY HubIndices DEF HubInv, HubTypes
  <2>2. e \in 1 .. Len(engines)
    BY <1>1, <2>1
  <2> QED
    BY <2>2, HubIndices DEF HubInv
<1>3. r \in EngineRecord /\ r.projection = Of(e)
  BY <1>2 DEF EngineRecord, Of
<1>4. engines' = [engines EXCEPT ![e] = r]
  BY <1>1, <1>2 DEF EngineRecord
<1>5. \A q \in Projections : registered[q] # e
  BY <1>1 DEF Hub!Serving
<1> HIDE DEF e, r
<1> QED
  BY <1>1, <1>2, <1>3, <1>4, <1>5, EngineChanges

LEMMA LoadLatestLeads ==
  ASSUME HubInv, NEW e \in DOMAIN engines, Hub!LoadLatestSnapshot(e)
  PROVE  HubInv'
<1> DEFINE r == [engines[e] EXCEPT !.version = Hub!Newest(Of(e))]
<1>1. e \in 1 .. Len(engines) /\ engines[e] \in EngineRecord /\ Of(e) \in Projections
  BY HubIndices DEF HubInv
<1>2. /\ DOMAIN at = {} /\ snapshots[Of(e)] # <<>>
      /\ engines' = [engines EXCEPT ![e].version = Hub!Newest(engines[e].projection)]
      /\ UNCHANGED <<builders, registered, events, at, reported, owed, models, snapshots>>
  BY DEF Hub!LoadLatestSnapshot, Of
<1>3. Hub!Newest(Of(e)) \in Nat
  <2> DEFINE s == snapshots[Of(e)]
  <2>1. s \in Seq(Snapshot) /\ s # <<>> /\ \A i \in 1 .. Len(s) : s[i] \in Snapshot
    BY <1>1, <1>2, HubIndices DEF HubInv
  <2>2. Hub!Newest(Of(e)) = s[Len(s)].version
    BY <2>1 DEF Hub!Newest, Hub!Last
  <2> HIDE DEF s
  <2>3. Len(s) \in 1 .. Len(s)
    BY <2>1, EmptySeq, LenProperties
  <2> QED
    BY <2>1, <2>2, <2>3 DEF Snapshot
<1>4. r \in EngineRecord /\ r.projection = Of(e) /\ r.version = Hub!Newest(Of(e))
  BY <1>1, <1>3 DEF EngineRecord, Of
<1>5. engines' = [engines EXCEPT ![e] = r]
  BY <1>1, <1>2 DEF EngineRecord, Of
<1>6. \A p \in Projections : registered[p] = e => UpTo(r.version, p)
  <2>1. SUFFICES ASSUME NEW p \in Projections, registered[p] = e PROVE UpTo(r.version, p)
    OBVIOUS
  <2>2. e # 0
    BY <1>1, HubIndices DEF HubInv
  <2>3. Of(e) = p
    BY <2>1, <2>2 DEF HubInv, HubTypes
  <2> QED
    BY <1>4, <2>3, NewestIs DEF HubInv
<1> HIDE DEF r
<1> QED
  BY <1>1, <1>2, <1>4, <1>5, <1>6, EngineChanges

LEMMA RegisterLeads ==
  ASSUME HubInv, NEW e \in DOMAIN engines, Hub!Register(e)
  PROVE  HubInv'
<1>1. /\ e \in 1 .. Len(engines) /\ Of(e) \in Projections /\ Len(engines) \in Nat
      /\ engines \in Seq(EngineRecord) /\ DOMAIN at \subseteq 1 .. Len(engines)
      /\ registered \in [Projections -> 0 .. Len(engines)]
      /\ builders \in [Projections -> 0 .. Len(engines)]
  BY HubIndices DEF HubInv, HubTypes
<1>2. /\ engines[e].snapshots => engines[e].version = Hub!Newest(Of(e)) /\ DOMAIN at = {}
      /\ registered' = [registered EXCEPT ![Of(e)] = e]
      /\ UNCHANGED <<engines, builders, events, at, reported, owed, models, snapshots>>
  BY DEF Hub!Register, Of
<1>3. e \in 0 .. Len(engines) /\ Len(engines) <= Len(engines)
  BY <1>1
<1>4. registered' \in [Projections -> 0 .. Len(engines)]
  BY <1>1, <1>2, <1>3
<1>5. \A p \in Projections : \/ p = Of(e) /\ registered'[p] = e
                             \/ p # Of(e) /\ registered'[p] = registered[p]
  BY <1>1, <1>2
<1>6. \A p \in Projections : registered'[p] # 0 => engines[registered'[p]].projection = p
  BY <1>5 DEF HubInv, HubTypes, Of
<1>7. \A p \in Projections :
        registered'[p] # 0 /\ engines[registered'[p]].snapshots
          => /\ UpTo(engines[registered'[p]].version, p)
             /\ \/ DOMAIN at = {}
                \/ registered'[p] = registered[p] /\ engines[registered[p]].snapshots
  <2>1. engines[e].snapshots => UpTo(engines[e].version, Of(e)) /\ DOMAIN at = {}
    BY <1>1, <1>2, NewestIs DEF HubInv
  <2>2. \A p \in Projections : registered[p] # 0 /\ engines[registered[p]].snapshots
          => UpTo(engines[registered[p]].version, p)
    BY DEF HubInv, VersionsGrow
  <2> QED
    BY <1>5, <2>1, <2>2
<1> QED
  BY <1>1, <1>2, <1>3, <1>4, <1>6, <1>7, ManagedStep

LEMMA UnregisterLeads ==
  ASSUME HubInv, NEW names \in SUBSET Projections, Hub!Unregister(names)
  PROVE  HubInv'
<1>1. /\ Len(engines) \in Nat
      /\ engines \in Seq(EngineRecord) /\ DOMAIN at \subseteq 1 .. Len(engines)
      /\ registered \in [Projections -> 0 .. Len(engines)]
      /\ builders \in [Projections -> 0 .. Len(engines)]
  BY HubIndices DEF HubInv, HubTypes
<1>2. /\ registered' = [p \in Projections |-> IF p \in names THEN 0 ELSE registered[p]]
      /\ UNCHANGED <<engines, builders, events, at, reported, owed, models, snapshots>>
  BY DEF Hub!Unregister
<1>3. 0 \in 0 .. Len(engines) /\ Len(engines) <= Len(engines)
  BY <1>1
<1>4. registered' \in [Projections -> 0 .. Len(engines)]
      /\ \A p \in Projections : registered'[p] # 0 => registered'[p] = registered[p]
  BY <1>1, <1>2, <1>3
<1>5. \A p \in Projections : registered'[p] # 0 => engines[registered'[p]].projection = p
  BY <1>4 DEF HubInv, HubTypes, Of
<1>6. \A p \in Projections :
        registered'[p] # 0 /\ engines[registered'[p]].snapshots
          => /\ UpTo(engines[registered'[p]].version, p)
             /\ registered'[p] = registered[p] /\ engines[registered[p]].snapshots
  BY <1>4 DEF HubInv, VersionsGrow
<1> QED
  BY <1>1, <1>2, <1>3, <1>4, <1>5, <1>6, ManagedStep

LEMMA ProcessLeads ==
  ASSUME HubInv, Hub!Process
  PROVE  HubInv'
<1> USE DEF HubInv
<1> DEFINE Served == Hub!Interested(events')
<1>1. /\ DOMAIN at = {} /\ events' = events + 1 /\ events \in Nat
      /\ at' = [e \in Served |-> "apply"]
      /\ owed' = owed \cup {<<events', engines[e].projection>> : e \in Served}
      /\ UNCHANGED <<engines, builders, registered, reported, models, snapshots>>
  BY DEF Hub!Process, HubTypes
<1>2. \A e \in Served : \E p \in Projections : e = registered[p] /\ e # 0
  BY DEF Hub!Interested, Hub!Serving
<1> HIDE DEF Served
<1>3. DOMAIN at' = Served /\ \A e \in Served : at'[e] = "apply"
  BY <1>1
<1>4. \A e \in Served : /\ e \in 1 .. Len(engines) /\ Of(e) \in Projections
                        /\ registered[Of(e)] = e
  BY <1>2, HubIndices DEF HubTypes
<1>5. HubTypes'
  <2>1. events' \in Nat /\ events' # 0
    BY <1>1
  <2>2. \A e, f \in DOMAIN at' : Of(e)' = Of(f)' => e = f
    BY <1>1, <1>3, <1>4 DEF Of
  <2>3. \A e \in DOMAIN at' : at'[e] \in {"apply", "snapshot"} /\ events' # 0
    BY <1>3, <2>1
  <2>4. DOMAIN at' \subseteq 1 .. Len(engines)
    BY <1>3, <1>4
  <2>5. \A p \in Projections : \A i \in 1 .. Len(models[p]) : models[p][i] \in 1 .. events'
    <3>1. \A n \in 1 .. events : n \in 1 .. events'
      BY <1>1
    <3> QED
      BY <3>1 DEF HubTypes
  <2>6. /\ engines \in Seq(EngineRecord)
        /\ builders \in [Projections -> 0 .. Len(engines)]
        /\ registered \in [Projections -> 0 .. Len(engines)]
        /\ \A p \in Projections : registered[p] # 0 => Of(registered[p]) = p
        /\ models \in [Projections -> Seq(Nat)]
        /\ snapshots \in [Projections -> Seq(Snapshot)]
    BY DEF HubTypes
  <2>7. \A e : Of(e)' = Of(e)
    BY <1>1 DEF Of
  <2>8. \A d \in owed' : d[2] \in Projections
    <3>1. SUFFICES ASSUME NEW d \in owed', d \notin owed PROVE d[2] \in Projections
      BY DEF HubTypes
    <3>2. PICK e \in Served : d = <<events', engines[e].projection>>
      BY <1>1, <3>1
    <3> QED
      BY <1>4, <3>2 DEF Of
  <2> QED
    BY <1>1, <2>1, <2>2, <2>3, <2>4, <2>5, <2>6, <2>7, <2>8 DEF HubTypes
<1>6. AtWork'
  <2>1. \A p \in Projections : \A i \in 1 .. Len(snapshots[p]) :
          snapshots[p][i].position < events'
    <3>1. SUFFICES ASSUME NEW p \in Projections, NEW i \in 1 .. Len(snapshots[p])
                   PROVE  snapshots[p][i].position < events'
      OBVIOUS
    <3>2. snapshots[p][i].position \in 1 .. events
      BY PositionIs
    <3> QED
      BY <1>1, <3>2
  <2>2. SUFFICES ASSUME NEW e \in Served
                 PROVE  \A i \in 1 .. Len(snapshots[Of(e)]) :
                          snapshots[Of(e)][i].position < events'
    BY <1>1, <1>3 DEF AtWork, Of
  <2> QED
    BY <1>4, <2>1
<1>7. ModelsKept'
  BY <1>1 DEF ModelsKept
<1>8. VersionsGrow'
  <2>1. \A v, p : (UpTo(v, p)' <=> UpTo(v, p)) /\ (Above(v, p)' <=> Above(v, p))
    BY <1>1 DEF UpTo, Above
  <2>2. ASSUME NEW e \in Served
        PROVE  /\ engines[e].snapshots => UpTo(engines[e].version, Of(e))
               /\ registered[Of(e)] = e
    BY <1>4 DEF VersionsGrow, EngineRecord
  <2>3. \A e : Of(e)' = Of(e)
    BY <1>1 DEF Of
  <2> QED
    BY <1>1, <1>3, <2>1, <2>2, <2>3 DEF VersionsGrow
<1>9. Hub!EveryEngineServed'
  <2>1. \A n, p : Hub!Delivered(n, p)' <=> Hub!Delivered(n, p)
    BY <1>1 DEF Hub!Delivered, Hub!Range
  <2>2. \A d \in owed : Hub!Delivered(d[1], d[2])
    BY <1>1 DEF Hub!EveryEngineServed
  <2>3. ASSUME NEW d \in owed' \ owed
        PROVE  d[1] = events' /\ \E e \in DOMAIN at' : engines'[e].projection = d[2]
    <3>1. PICK e \in Served : d = <<events', engines[e].projection>>
      BY <1>1, <2>3
    <3> QED
      BY <1>1, <1>3, <3>1
  <2> QED
    BY <2>1, <2>2, <2>3 DEF Hub!EveryEngineServed
<1> QED
  BY <1>5, <1>6, <1>7, <1>8, <1>9

(* An engine that ends its work leaves the others at theirs.               *)
LEMMA EndsIs ==
  ASSUME NEW e, Hub!Ends(e)
  PROVE  DOMAIN at' = DOMAIN at \ {e} /\ \A f \in DOMAIN at' : at'[f] = at[f]
BY DEF Hub!Ends

(* The error of an engine is swallowed.                                    *)
LEMMA RejectedLeads ==
  ASSUME HubInv, NEW e \in DOMAIN at, Hub!Rejected(e),
         UNCHANGED <<engines, builders, registered, events, owed, models, snapshots>>
  PROVE  HubInv'
<1> USE DEF HubInv
<1>1. /\ DOMAIN at' = DOMAIN at \ {e} /\ \A f \in DOMAIN at' : at'[f] = at[f]
      /\ reported' = reported \cup {<<events, engines[e].projection>>}
  BY EndsIs DEF Hub!Rejected
<1>2. \A f : Of(f)' = Of(f)
  BY DEF Of
<1>3. HubTypes'
  BY <1>1, <1>2 DEF HubTypes
<1>4. AtWork'
  BY <1>1, <1>2 DEF AtWork
<1>5. ModelsKept'
  BY DEF ModelsKept
<1>6. VersionsGrow'
  <2>1. \A v, p : (UpTo(v, p)' <=> UpTo(v, p)) /\ (Above(v, p)' <=> Above(v, p))
    BY DEF UpTo, Above
  <2> QED
    BY <1>1, <1>2, <2>1 DEF VersionsGrow
<1>7. Hub!EveryEngineServed'
  <2>1. \A n, p : Hub!Delivered(n, p) => Hub!Delivered(n, p)'
    BY <1>1 DEF Hub!Delivered, Hub!Range
  <2>2. Hub!Delivered(events, engines[e].projection)'
    BY <1>1 DEF Hub!Delivered
  <2> QED
    BY <1>1, <2>1, <2>2 DEF Hub!EveryEngineServed
<1> QED
  BY <1>3, <1>4, <1>5, <1>6, <1>7

LEMMA RestartLeads ==
  ASSUME HubInv, Hub!Restart
  PROVE  HubInv'
<1> USE DEF HubInv
<1>1. /\ engines' = <<>> /\ at' = <<>>
      /\ builders' = [p \in Projections |-> 0] /\ registered' = [p \in Projections |-> 0]
      /\ reported' = reported \cup {<<events, engines[e].projection>> : e \in DOMAIN at}
      /\ UNCHANGED <<events, owed, models, snapshots>>
  BY DEF Hub!Restart
<1>2. Len(<<>>) = 0 /\ DOMAIN <<>> = {} /\ <<>> \in Seq(EngineRecord) /\ 0 \in 0 .. 0
  OBVIOUS
<1>3. HubTypes'
  BY <1>1, <1>2 DEF HubTypes
<1>4. AtWork' /\ ModelsKept'
  BY <1>1, <1>2 DEF AtWork, ModelsKept
<1>5. VersionsGrow'
  BY <1>1, <1>2 DEF VersionsGrow
<1>6. Hub!EveryEngineServed'
  <2>1. \A n, p : Hub!Delivered(n, p) => Hub!Delivered(n, p)'
    BY <1>1 DEF Hub!Delivered, Hub!Range
  <2>2. \A p : (\E e \in DOMAIN at : engines[e].projection = p)
                 => Hub!Delivered(events, p)'
    BY <1>1 DEF Hub!Delivered
  <2> QED
    BY <1>1, <2>1, <2>2 DEF Hub!EveryEngineServed
<1> QED
  BY <1>3, <1>4, <1>5, <1>6

(* A read model that grows still begins with its snapshots.                *)
LEMMA GrownModel ==
  ASSUME NEW s, NEW model \in Seq(Nat), NEW n \in Nat,
         s.state \in Seq(Nat), SnapshotOf(s, model), s.position < n
  PROVE  SnapshotOf(s, Append(model, n))
<1> DEFINE t == Append(model, n)  k == Len(s.state)
<1>1. /\ Len(t) = Len(model) + 1 /\ Len(model) \in Nat /\ k \in Nat
      /\ \A i \in 1 .. Len(model) : t[i] = model[i]
      /\ t[Len(model) + 1] = n
  BY LenProperties, AppendProperties
<1>2. /\ s.state # <<>> /\ k <= Len(model)
      /\ \A i \in 1 .. k : s.state[i] = model[i]
      /\ s.position = s.state[k]
      /\ \A i \in k + 1 .. Len(model) : model[i] > s.position
  BY DEF SnapshotOf
<1>3. s.position \in Nat
  <2>1. k \in 1 .. k
    BY <1>1, <1>2, EmptySeq
  <2> QED
    BY <1>2, <2>1, ElementOfSeq
<1>4. SUFFICES /\ k <= Len(t) /\ \A i \in 1 .. k : s.state[i] = t[i]
               /\ \A i \in k + 1 .. Len(t) : t[i] > s.position
  BY <1>2 DEF SnapshotOf
<1> HIDE DEF t, k
<1>5. k <= Len(t)
  BY <1>1, <1>2
<1>6. ASSUME NEW i \in 1 .. k PROVE s.state[i] = t[i]
  <2>1. i \in 1 .. Len(model)
    BY <1>1, <1>2
  <2> QED
    BY <1>1, <1>2, <2>1
<1>7. ASSUME NEW i \in k + 1 .. Len(t) PROVE t[i] > s.position
  <2>1. \/ i \in k + 1 .. Len(model) /\ i \in 1 .. Len(model)
        \/ i = Len(model) + 1
    BY <1>1, <1>2
  <2>2. CASE i \in k + 1 .. Len(model) /\ i \in 1 .. Len(model)
    BY <1>1, <1>2, <2>2
  <2>3. CASE i = Len(model) + 1
    BY <1>1, <1>3, <2>3
  <2> QED
    BY <2>1, <2>2, <2>3
<1> QED
  BY <1>5, <1>6, <1>7

(* An engine applies the event: its read model and its version change.     *)
LEMMA AppliedLeads ==
  ASSUME HubInv, NEW e \in DOMAIN at, at[e] = "apply", NEW full \in BOOLEAN,
         full => engines[e].snapshots,
         models' = [models EXCEPT ![Of(e)] = Append(@, events)],
         NEW r \in EngineRecord,
         engines' = [engines EXCEPT ![e] = r],
         r.projection = Of(e), r.snapshots = engines[e].snapshots,
         r.snapshots => r.version = engines[e].version + (IF full THEN 1 ELSE 0),
         \/ full /\ at' = [at EXCEPT ![e] = "snapshot"]
         \/ ~full /\ Hub!Ends(e),
         UNCHANGED <<builders, registered, events, reported, owed, snapshots>>
  PROVE  HubInv'
<1> USE DEF HubInv
<1>1. /\ engines \in Seq(EngineRecord) /\ DOMAIN at \subseteq 1 .. Len(engines)
      /\ e \in 1 .. Len(engines) /\ Of(e) \in Projections /\ engines[e] \in EngineRecord
      /\ events \in Nat /\ events # 0
      /\ \A f \in DOMAIN at : at[f] \in {"apply", "snapshot"} /\ Of(f) \in Projections
      /\ \A f \in DOMAIN at : Of(f) = Of(e) => f = e
  BY HubIndices DEF HubTypes
<1>2. /\ engines' \in Seq(EngineRecord) /\ Len(engines') = Len(engines) /\ engines'[e] = r
      /\ \A f \in 1 .. Len(engines) : f # e => engines'[f] = engines[f]
  BY <1>1, EngineReplaced
<1>3. \A f \in 1 .. Len(engines) : /\ Of(f)' = Of(f)
                                   /\ engines'[f].snapshots = engines[f].snapshots
  BY <1>2 DEF Of
<1>4. /\ DOMAIN at' \subseteq DOMAIN at
      /\ \A f \in DOMAIN at' : f # e => at'[f] = at[f]
      /\ \A f \in DOMAIN at : f # e => f \in DOMAIN at'
      /\ e \in DOMAIN at' => full /\ at'[e] = "snapshot"
      /\ full => e \in DOMAIN at'
  BY EndsIs
<1>5. /\ \A p \in Projections : p # Of(e) => models'[p] = models[p]
      /\ models'[Of(e)] = Append(models[Of(e)], events)
      /\ models' \in [Projections -> Seq(Nat)]
  <2>1. Append(models[Of(e)], events) \in Seq(Nat)
    BY <1>1, HubIndices
  <2> QED
    BY <1>1, <2>1 DEF HubTypes
<1>6. /\ models[Of(e)] \in Seq(Nat) /\ models'[Of(e)] # <<>>
      /\ Len(models'[Of(e)]) = Len(models[Of(e)]) + 1 /\ Len(models[Of(e)]) \in Nat
      /\ \A i \in 1 .. Len(models[Of(e)]) : models'[Of(e)][i] = models[Of(e)][i]
      /\ models'[Of(e)][Len(models[Of(e)]) + 1] = events
  <2>1. models[Of(e)] \in Seq(Nat) /\ Len(models[Of(e)]) \in Nat
    BY <1>1, HubIndices
  <2> QED
    BY <1>1, <1>5, <2>1, AppendProperties
<1>7. HubTypes'
  <2>1. \A p \in Projections : registered[p] # 0 => Of(registered[p])' = p
    BY <1>3, HubIndices DEF HubTypes
  <2>2. \A f \in DOMAIN at' : at'[f] \in {"apply", "snapshot"}
    BY <1>1, <1>4
  <2>3. \A f, g \in DOMAIN at' : Of(f)' = Of(g)' => f = g
    <3>1. \A f \in DOMAIN at' : Of(f)' = Of(f) /\ f \in DOMAIN at
      BY <1>1, <1>3, <1>4
    <3> QED
      BY <3>1 DEF HubTypes
  <2>4. ASSUME NEW p \in Projections, NEW i \in 1 .. Len(models'[p])
        PROVE  models'[p][i] \in 1 .. events
    <3>1. \A j \in 1 .. Len(models[p]) : models[p][j] \in 1 .. events
      BY DEF HubTypes
    <3>2. CASE p # Of(e)
      BY <1>5, <2>4, <3>1, <3>2
    <3>3. CASE p = Of(e)
      <4>1. i \in 1 .. Len(models[Of(e)]) \/ i = Len(models[Of(e)]) + 1
        BY <1>6, <2>4, <3>3
      <4>2. events \in 1 .. events
        BY <1>1
      <4> QED
        BY <1>6, <3>1, <3>3, <4>1, <4>2
    <3> QED
      BY <3>2, <3>3
  <2>5. /\ builders' \in [Projections -> 0 .. Len(engines')]
        /\ registered' \in [Projections -> 0 .. Len(engines')]
        /\ snapshots' \in [Projections -> Seq(Snapshot)]
        /\ events' \in Nat /\ events' # 0 /\ DOMAIN at' \subseteq 1 .. Len(engines')
    BY <1>1, <1>2, <1>4 DEF HubTypes
  <2> QED
    BY <1>2, <1>5, <2>1, <2>2, <2>3, <2>4, <2>5 DEF HubTypes
<1>8. AtWork'
  <2>1. SUFFICES ASSUME NEW f \in DOMAIN at'
                 PROVE  /\ at'[f] = "snapshot" =>
                             /\ models'[Of(f)] # <<>>
                             /\ models'[Of(f)][Len(models'[Of(f)])] = events
                        /\ at'[f] = "apply" =>
                             \A i \in 1 .. Len(snapshots[Of(f)]) :
                               snapshots[Of(f)][i].position < events
    BY <1>1, <1>3, <1>4 DEF AtWork
  <2>2. CASE f = e
    BY <1>4, <1>6, <2>2
  <2>3. CASE f # e
    <3>1. Of(f) # Of(e) /\ f \in DOMAIN at /\ at'[f] = at[f] /\ Of(f) \in Projections
      BY <1>1, <1>4, <2>3
    <3>2. models'[Of(f)] = models[Of(f)]
      BY <1>5, <3>1
    <3> QED
      BY <3>1, <3>2 DEF AtWork
  <2> QED
    BY <2>2, <2>3
<1>9. ModelsKept'
  <2>1. SUFFICES ASSUME NEW p \in Projections, NEW i \in 1 .. Len(snapshots[p])
                 PROVE  SnapshotOf(snapshots[p][i], models'[p])
    BY DEF ModelsKept, SnapshotOf
  <2>2. SnapshotOf(snapshots[p][i], models[p])
    BY DEF ModelsKept
  <2>3. CASE p # Of(e)
    BY <1>5, <2>2, <2>3
  <2>4. CASE p = Of(e)
    <3> DEFINE s == snapshots[p][i]
    <3>1. s.position < events
      BY <2>4 DEF AtWork
    <3>2. s.state \in Seq(Nat)
      BY HubIndices DEF Snapshot
    <3>3. SnapshotOf(s, models[Of(e)])
      BY <2>2, <2>4
    <3> HIDE DEF s
    <3>4. SnapshotOf(s, Append(models[Of(e)], events))
      BY <1>1, <1>6, <3>1, <3>2, <3>3, GrownModel
    <3> QED
      BY <1>5, <2>4, <3>4 DEF s
  <2> QED
    BY <2>3, <2>4
<1>10. VersionsGrow'
  <2>1. \A v : \A p : (UpTo(v, p) => UpTo(v, p)') /\ (Above(v, p) => Above(v, p)')
    BY DEF UpTo, Above
  <2>2. \A p \in Projections : \A i, j \in 1 .. Len(snapshots[p]) :
          j < i => snapshots[p][j].version < snapshots[p][i].version
    BY DEF VersionsGrow
  <2>3. engines[e].snapshots =>
          /\ UpTo(engines'[e].version, Of(e))
          /\ full => Above(engines'[e].version, Of(e))
    <3>1. SUFFICES ASSUME engines[e].snapshots
                   PROVE  /\ UpTo(engines'[e].version, Of(e))
                          /\ full => Above(engines'[e].version, Of(e))
      OBVIOUS
    <3>2. /\ UpTo(engines[e].version, Of(e)) /\ engines[e].version \in Nat
          /\ engines'[e].version = engines[e].version + (IF full THEN 1 ELSE 0)
      BY <1>1, <1>2, <3>1 DEF VersionsGrow, EngineRecord
    <3>3. \A i \in 1 .. Len(snapshots[Of(e)]) : snapshots[Of(e)][i].version \in Nat
      BY <1>1, HubIndices DEF Snapshot
    <3> QED
      BY <3>2, <3>3 DEF UpTo, Above
  <2>4. ASSUME NEW p \in Projections, registered[p] # 0, engines'[registered[p]].snapshots
        PROVE  UpTo(engines'[registered[p]].version, p)
    <3>1. registered[p] \in 1 .. Len(engines) /\ Of(registered[p]) = p
      BY <2>4, HubIndices DEF HubTypes
    <3>2. CASE registered[p] = e
      BY <1>3, <2>3, <2>4, <3>1, <3>2
    <3>3. CASE registered[p] # e
      BY <1>2, <2>4, <3>1, <3>3 DEF VersionsGrow
    <3> QED
      BY <3>2, <3>3
  <2>5. ASSUME NEW f \in DOMAIN at'
        PROVE  /\ engines'[f].snapshots => UpTo(engines'[f].version, Of(f))
               /\ at'[f] = "snapshot" =>
                    engines'[f].snapshots /\ Above(engines'[f].version, Of(f))
               /\ engines'[f].snapshots /\ registered[Of(f)] \notin {0, f}
                    => ~engines'[registered[Of(f)]].snapshots
    <3>1. f \in DOMAIN at /\ f \in 1 .. Len(engines) /\ Of(f) \in Projections
      BY <1>1, <1>4, <2>5
    <3>2. registered[Of(f)] # 0 => registered[Of(f)] \in 1 .. Len(engines)
      BY <3>1, HubIndices
    <3>3. engines'[f].snapshots /\ registered[Of(f)] \notin {0, f}
            => ~engines'[registered[Of(f)]].snapshots
      BY <1>3, <3>1, <3>2 DEF VersionsGrow
    <3>4. CASE f = e
      BY <1>3, <1>4, <2>3, <2>5, <3>1, <3>3, <3>4
    <3>5. CASE f # e
      BY <1>2, <1>4, <2>5, <3>1, <3>3, <3>5 DEF VersionsGrow
    <3> QED
      BY <3>4, <3>5
  <2>6. \A f \in DOMAIN at' : Of(f)' = Of(f)
    BY <1>1, <1>3, <1>4
  <2> QED
    BY <2>1, <2>2, <2>4, <2>5, <2>6 DEF VersionsGrow
<1>11. Hub!EveryEngineServed'
  <2>1. ASSUME NEW n, NEW p \in Projections, Hub!Delivered(n, p)
        PROVE  Hub!Delivered(n, p)'
    <3>1. CASE p # Of(e)
      BY <1>5, <2>1, <3>1 DEF Hub!Delivered, Hub!Range
    <3>2. CASE p = Of(e) /\ n \in Hub!Range(models[p])
      <4>1. PICK i \in 1 .. Len(models[p]) : models[p][i] = n
        BY <3>2, HubIndices DEF Hub!Range
      <4>2. /\ i \in 1 .. Len(models'[p]) /\ models'[p][i] = n
            /\ DOMAIN models'[p] = 1 .. Len(models'[p])
        <5>1. models'[p] \in Seq(Nat)
          BY <1>5, <2>1
        <5> QED
          BY <1>6, <3>2, <4>1, <5>1, LenProperties
      <4> QED
        BY <4>2 DEF Hub!Delivered, Hub!Range
    <3>3. CASE <<n, p>> \in reported
      BY <3>3 DEF Hub!Delivered
    <3> QED
      BY <2>1, <3>1, <3>2, <3>3 DEF Hub!Delivered
  <2>2. \A p : p = Of(e) => Hub!Delivered(events, p)'
    <3>1. events \in Hub!Range(models'[Of(e)])
      <4>1. models'[Of(e)] \in Seq(Nat)
        BY <1>1, <1>5
      <4>2. Len(models[Of(e)]) + 1 \in DOMAIN models'[Of(e)]
        BY <1>6, <4>1, LenProperties
      <4> QED
        BY <1>6, <4>2 DEF Hub!Range
    <3> QED
      BY <3>1 DEF Hub!Delivered, Hub!Range
  <2>3. ASSUME NEW d \in owed, d[1] = events, NEW f \in DOMAIN at, Of(f) = d[2], f # e
        PROVE  \E g \in DOMAIN at' : engines'[g].projection = d[2]
    <3>1. f \in DOMAIN at' /\ Of(f)' = d[2]
      BY <1>1, <1>3, <1>4, <2>3
    <3> QED
      BY <3>1 DEF Of
  <2>4. \A d \in owed : d[2] \in Projections
    BY DEF HubTypes
  <2> QED
    BY <2>1, <2>2, <2>3, <2>4 DEF Hub!EveryEngineServed, Of
<1> QED
  BY <1>7, <1>8, <1>9, <1>10, <1>11

LEMMA ApplyLeads ==
  ASSUME HubInv, NEW e \in DOMAIN engines, Hub!Apply(e)
  PROVE  HubInv'
<1> DEFINE full == engines[e].snapshots /\ engines[e].counter + 1 >= SnapshotEvery
<1>1. /\ e \in DOMAIN at /\ at[e] = "apply"
      /\ UNCHANGED <<builders, registered, events, owed, snapshots>>
  BY DEF Hub!Apply
<1>2. CASE Hub!Rejected(e) /\ UNCHANGED <<models, engines>>
  BY <1>1, <1>2, RejectedLeads
<1>3. CASE /\ models' = [models EXCEPT ![Of(e)] = Append(@, events)]
           /\ engines' = IF engines[e].snapshots
                         THEN [engines EXCEPT ![e].counter = @ + 1,
                                              ![e].version = IF full THEN @ + 1 ELSE @]
                         ELSE engines
           /\ IF full THEN at' = [at EXCEPT ![e] = "snapshot"] ELSE Hub!Ends(e)
           /\ UNCHANGED reported
  <2> DEFINE r == IF engines[e].snapshots
                  THEN [engines[e] EXCEPT !.counter = @ + 1,
                                          !.version = IF full THEN @ + 1 ELSE @]
                  ELSE engines[e]
  <2>1. engines[e] \in EngineRecord /\ engines \in Seq(EngineRecord)
        /\ e \in 1 .. Len(engines)
    BY HubIndices DEF HubInv, HubTypes
  <2>2. full \in BOOLEAN /\ (full => engines[e].snapshots)
    BY <2>1 DEF EngineRecord
  <2> HIDE DEF full
  <2>3. engines[e].counter + 1 \in Nat
        /\ (IF full THEN engines[e].version + 1 ELSE engines[e].version) \in Nat
    BY <2>1 DEF EngineRecord
  <2>4. /\ r \in EngineRecord /\ r.projection = Of(e) /\ r.snapshots = engines[e].snapshots
    BY <2>1, <2>3 DEF EngineRecord, Of
  <2>5. r.snapshots => r.version = engines[e].version + (IF full THEN 1 ELSE 0)
    BY <2>1 DEF EngineRecord
  <2>6. engines' = [engines EXCEPT ![e] = r]
    <3>1. CASE engines[e].snapshots
      BY <1>3, <2>1, <3>1 DEF EngineRecord
    <3>2. CASE ~engines[e].snapshots
      BY <1>3, <2>1, <3>2
    <3> QED
      BY <3>1, <3>2
  <2>7. \/ full /\ at' = [at EXCEPT ![e] = "snapshot"]
        \/ ~full /\ Hub!Ends(e)
    BY <1>3
  <2> HIDE DEF r
  <2> QED
    BY <1>1, <1>3, <2>2, <2>4, <2>5, <2>6, <2>7, AppliedLeads
<1> QED
  BY <1>2, <1>3 DEF Hub!Apply, Of

(* A snapshot of the read model as it is.                                  *)
LEMMA OwnSnapshot ==
  ASSUME NEW model \in Seq(Nat), NEW s, s.state = model, model # <<>>,
         s.position = model[Len(model)]
  PROVE  SnapshotOf(s, model)
<1>1. Len(model) \in Nat
  BY LenProperties
<1> QED
  BY <1>1 DEF SnapshotOf

LEMMA SavedLeads ==
  ASSUME HubInv, NEW e \in DOMAIN at, at[e] = "snapshot", Hub!Ends(e),
         snapshots' = [snapshots EXCEPT ![Of(e)] =
              Append(@, [state |-> models[Of(e)], position |-> events,
                         version |-> engines[e].version])],
         engines' = [engines EXCEPT ![e].counter = 0],
         UNCHANGED <<builders, registered, events, reported, owed, models>>
  PROVE  HubInv'
<1> USE DEF HubInv
<1> DEFINE p == Of(e)
           s == [state |-> models[p], position |-> events, version |-> engines[e].version]
           r == [engines[e] EXCEPT !.counter = 0]
           n == Len(snapshots[p])
<1>1. /\ engines \in Seq(EngineRecord) /\ DOMAIN at \subseteq 1 .. Len(engines)
      /\ e \in 1 .. Len(engines) /\ p \in Projections /\ engines[e] \in EngineRecord
      /\ events \in Nat /\ models[p] \in Seq(Nat) /\ snapshots[p] \in Seq(Snapshot) /\ n \in Nat
      /\ \A f \in DOMAIN at : Of(f) \in Projections
      /\ \A f \in DOMAIN at : Of(f) = p => f = e
  BY HubIndices DEF HubTypes
<1>2. s \in Snapshot /\ r \in EngineRecord
      /\ r.projection = p /\ r.snapshots = engines[e].snapshots
      /\ r.version = engines[e].version
  BY <1>1 DEF EngineRecord, Snapshot, Of
<1>3. engines' = [engines EXCEPT ![e] = r]
  BY <1>1 DEF EngineRecord
<1>4. /\ engines' \in Seq(EngineRecord) /\ Len(engines') = Len(engines) /\ engines'[e] = r
      /\ \A f \in 1 .. Len(engines) : f # e => engines'[f] = engines[f]
  BY <1>1, <1>2, <1>3, EngineReplaced
<1>5. \A f \in 1 .. Len(engines) : /\ Of(f)' = Of(f)
                                   /\ engines'[f].snapshots = engines[f].snapshots
                                   /\ engines'[f].version = engines[f].version
  BY <1>2, <1>4 DEF Of
<1>6. /\ DOMAIN at' = DOMAIN at \ {e} /\ \A f \in DOMAIN at' : at'[f] = at[f]
  BY EndsIs
<1>7. /\ snapshots' \in [Projections -> Seq(Snapshot)]
      /\ \A q \in Projections : q # p => snapshots'[q] = snapshots[q]
      /\ snapshots'[p] = Append(snapshots[p], s)
  <2>1. Append(snapshots[p], s) \in Seq(Snapshot)
    BY <1>1, <1>2
  <2> QED
    BY <1>1, <2>1 DEF HubTypes
<1>8. /\ Len(snapshots'[p]) = n + 1 /\ snapshots'[p][n + 1] = s
      /\ \A i \in 1 .. n : snapshots'[p][i] = snapshots[p][i]
  BY <1>1, <1>2, <1>7, AppendProperties
<1>9. s.state = models[p] /\ s.position = events /\ s.version = engines[e].version
  OBVIOUS
<1> HIDE DEF p, s, r, n
<1>10. \A i \in 1 .. n + 1 : i \in 1 .. n \/ i = n + 1
  BY <1>1
<1>11. HubTypes'
  <2>1. \A q \in Projections : registered[q] # 0 => Of(registered[q])' = q
    BY <1>5, HubIndices DEF HubTypes
  <2>2. \A f, g \in DOMAIN at' : Of(f)' = Of(g)' => f = g
    <3>1. \A f \in DOMAIN at' : Of(f)' = Of(f) /\ f \in DOMAIN at
      BY <1>1, <1>5, <1>6
    <3> QED
      BY <3>1 DEF HubTypes
  <2>3. /\ builders' \in [Projections -> 0 .. Len(engines')]
        /\ registered' \in [Projections -> 0 .. Len(engines')]
        /\ DOMAIN at' \subseteq 1 .. Len(engines')
        /\ \A f \in DOMAIN at' : at'[f] \in {"apply", "snapshot"} /\ events' # 0
    BY <1>1, <1>4, <1>6 DEF HubTypes
  <2>4. /\ events' \in Nat /\ models' \in [Projections -> Seq(Nat)]
        /\ \A q \in Projections : \A i \in 1 .. Len(models'[q]) : models'[q][i] \in 1 .. events'
        /\ \A d \in owed' : d[2] \in Projections
    BY DEF HubTypes
  <2> QED
    BY <1>4, <1>7, <2>1, <2>2, <2>3, <2>4 DEF HubTypes
<1>12. \A f \in DOMAIN at' : /\ Of(f) # p /\ Of(f) \in Projections /\ f \in DOMAIN at
                             /\ Of(f)' = Of(f) /\ f \in 1 .. Len(engines)
                             /\ snapshots'[Of(f)] = snapshots[Of(f)]
  BY <1>1, <1>5, <1>6, <1>7
<1>13. AtWork'
  <2>1. SUFFICES ASSUME NEW f \in DOMAIN at'
                 PROVE  /\ at'[f] = "snapshot" =>
                             /\ models[Of(f)'] # <<>>
                             /\ models[Of(f)'][Len(models[Of(f)'])] = events
                        /\ at'[f] = "apply" =>
                             \A i \in 1 .. Len(snapshots'[Of(f)']) :
                               snapshots'[Of(f)'][i].position < events
    BY DEF AtWork
  <2>2. /\ f \in DOMAIN at /\ Of(f)' = Of(f) /\ at'[f] = at[f]
        /\ snapshots'[Of(f)'] = snapshots[Of(f)]
    BY <1>6, <1>12
  <2> QED
    BY <2>2 DEF AtWork
<1>14. ModelsKept'
  <2>1. SUFFICES ASSUME NEW q \in Projections, NEW i \in 1 .. Len(snapshots'[q])
                 PROVE  SnapshotOf(snapshots'[q][i], models[q])
    BY DEF ModelsKept
  <2>2. \A j \in 1 .. Len(snapshots[q]) : SnapshotOf(snapshots[q][j], models[q])
    BY DEF ModelsKept
  <2>3. CASE q # p
    BY <1>7, <2>1, <2>2, <2>3
  <2>4. SnapshotOf(s, models[p])
    <3>1. models[p] # <<>> /\ models[p][Len(models[p])] = events
      BY DEF AtWork, p
    <3> QED
      BY <1>1, <1>9, <3>1, OwnSnapshot
  <2>5. CASE q = p
    BY <1>8, <1>10, <2>1, <2>2, <2>4, <2>5 DEF n
  <2> QED
    BY <2>3, <2>5
<1>15. VersionsGrow'
  <2>1. \A i \in 1 .. n : snapshots[p][i].version < s.version
    BY <1>9 DEF VersionsGrow, Above, p, n
  <2>2. s.version \in Nat /\ \A q \in Projections : \A i \in 1 .. Len(snapshots[q]) :
          snapshots[q][i].version \in Nat
    BY <1>2, HubIndices DEF Snapshot
  <2>3. ASSUME NEW q \in Projections, NEW i \in 1 .. Len(snapshots'[q]),
               NEW j \in 1 .. Len(snapshots'[q]), j < i
        PROVE  snapshots'[q][j].version < snapshots'[q][i].version
    <3>1. CASE q # p
      BY <1>7, <2>3, <3>1 DEF VersionsGrow
    <3>2. CASE q = p
      <4>1. j \in 1 .. n /\ (i \in 1 .. n \/ i = n + 1)
        BY <1>1, <1>8, <2>3, <3>2
      <4>2. CASE i \in 1 .. n
        BY <1>8, <2>3, <3>2, <4>1, <4>2 DEF VersionsGrow, n
      <4>3. CASE i = n + 1
        BY <1>8, <2>1, <3>2, <4>1, <4>3
      <4> QED
        BY <4>1, <4>2, <4>3
    <3> QED
      BY <3>1, <3>2
  <2>4. ASSUME NEW q \in Projections, registered[q] # 0, engines'[registered[q]].snapshots
        PROVE  \A i \in 1 .. Len(snapshots'[q]) :
                 snapshots'[q][i].version <= engines'[registered[q]].version
    <3> DEFINE v == engines[registered[q]].version
    <3>1. /\ registered[q] \in 1 .. Len(engines) /\ Of(registered[q]) = q
      BY <2>4, HubIndices DEF HubTypes
    <3>2. /\ engines[registered[q]].snapshots /\ engines'[registered[q]].version = v
          /\ UpTo(v, q)
      BY <1>5, <2>4, <3>1 DEF VersionsGrow
    <3>3. \A i \in 1 .. Len(snapshots'[q]) : snapshots'[q][i].version <= v
      <4>1. CASE q # p
        BY <1>7, <3>2, <4>1 DEF UpTo
      <4>2. CASE q = p
        <5>1. engines[e].snapshots
          BY DEF VersionsGrow
        <5>2. registered[q] = e
          BY <3>2, <4>2, <5>1, <2>4 DEF VersionsGrow, p
        <5>3. v = s.version
          BY <1>9, <5>2
        <5> HIDE DEF v
        <5>4. s.version <= v /\ \A i \in 1 .. n : snapshots[p][i].version <= v
          BY <2>1, <2>2, <3>2, <4>2, <5>3 DEF UpTo, n
        <5> QED
          BY <1>8, <1>10, <4>2, <5>4
      <4> QED
        BY <4>1, <4>2
    <3> HIDE DEF v
    <3> QED
      BY <3>2, <3>3
  <2>5. ASSUME NEW f \in DOMAIN at'
        PROVE  /\ engines'[f].snapshots =>
                    \A i \in 1 .. Len(snapshots'[Of(f)]) :
                      snapshots'[Of(f)][i].version <= engines'[f].version
               /\ at'[f] = "snapshot" =>
                    /\ engines'[f].snapshots
                    /\ \A i \in 1 .. Len(snapshots'[Of(f)]) :
                         snapshots'[Of(f)][i].version < engines'[f].version
               /\ engines'[f].snapshots /\ registered[Of(f)] \notin {0, f}
                    => ~engines'[registered[Of(f)]].snapshots
    <3>1. /\ Of(f) \in Projections /\ f \in DOMAIN at /\ at'[f] = at[f]
          /\ f \in 1 .. Len(engines) /\ Of(f)' = Of(f)
          /\ snapshots'[Of(f)] = snapshots[Of(f)]
      BY <1>6, <1>12
    <3>2. registered[Of(f)] # 0 => registered[Of(f)] \in 1 .. Len(engines)
      BY <3>1, HubIndices
    <3>3. /\ engines[f].snapshots => UpTo(engines[f].version, Of(f))
          /\ at[f] = "snapshot" => engines[f].snapshots /\ Above(engines[f].version, Of(f))
          /\ engines[f].snapshots /\ registered[Of(f)] \notin {0, f}
               => ~engines[registered[Of(f)]].snapshots
      BY <3>1 DEF VersionsGrow
    <3> QED
      BY <1>5, <3>1, <3>2, <3>3 DEF UpTo, Above
  <2> QED
    <3>1. \A q \in Projections : \A i, j \in 1 .. Len(snapshots'[q]) :
            j < i => snapshots'[q][j].version < snapshots'[q][i].version
      BY <2>3
    <3>2. \A f \in DOMAIN at' : Of(f)' = Of(f)
      BY <1>12
    <3> QED
      BY <2>4, <2>5, <3>1, <3>2 DEF VersionsGrow, UpTo, Above
<1>16. Hub!EveryEngineServed'
  <2>1. \A m, q : Hub!Delivered(m, q)' <=> Hub!Delivered(m, q)
    BY DEF Hub!Delivered, Hub!Range
  <2>2. Hub!Delivered(events, p)
    <3>1. models[p] # <<>> /\ models[p][Len(models[p])] = events
      BY DEF AtWork, p
    <3>2. Len(models[p]) \in DOMAIN models[p]
      BY <1>1, <3>1, EmptySeq, LenProperties
    <3> QED
      BY <3>1, <3>2 DEF Hub!Delivered, Hub!Range
  <2>3. ASSUME NEW d \in owed, NEW f \in DOMAIN at, Of(f) = d[2], f # e
        PROVE  \E g \in DOMAIN at' : engines'[g].projection = d[2]
    <3>1. f \in DOMAIN at' /\ Of(f)' = d[2]
      BY <1>1, <1>5, <1>6, <2>3
    <3> QED
      BY <3>1 DEF Of
  <2> QED
    BY <2>1, <2>2, <2>3 DEF Hub!EveryEngineServed, Of, p
<1> QED
  BY <1>11, <1>13, <1>14, <1>15, <1>16

LEMMA SaveSnapshotLeads ==
  ASSUME HubInv, NEW e \in DOMAIN engines, Hub!SaveSnapshot(e)
  PROVE  HubInv'
<1>1. /\ e \in DOMAIN at /\ at[e] = "snapshot"
      /\ UNCHANGED <<builders, registered, events, owed, models>>
  BY DEF Hub!SaveSnapshot
<1>2. CASE Hub!Rejected(e) /\ UNCHANGED <<snapshots, engines>>
  BY <1>1, <1>2, RejectedLeads
<1>3. CASE ~(Hub!Rejected(e) /\ UNCHANGED <<snapshots, engines>>)
  <2>1. /\ snapshots' = [snapshots EXCEPT ![Of(e)] =
                Append(@, [state |-> models[Of(e)], position |-> events,
                           version |-> engines[e].version])]
        /\ engines' = [engines EXCEPT ![e].counter = 0]
        /\ Hub!Ends(e) /\ UNCHANGED reported
    BY <1>3 DEF Hub!SaveSnapshot, Of
  <2> QED
    BY <1>1, <2>1, SavedLeads
<1> QED
  BY <1>2, <1>3

LEMMA HubStep ==
  ASSUME HubInv, Hub!Next
  PROVE  HubInv'
BY NewEngineLeads, WithSnapshotsLeads, LoadLatestLeads, RegisterLeads, UnregisterLeads,
   ProcessLeads, ApplyLeads, SaveSnapshotLeads, RestartLeads DEF Hub!Next

LEMMA HubProperties ==
  ASSUME HubInv
  PROVE  Hub!TypeOK /\ Hub!EveryEngineServed /\ Hub!SnapshotsResume
<1> USE DEF HubInv
<1>1. Hub!TypeOK
  <2>1. \A e \in DOMAIN engines : engines[e].projection \in Projections
    BY HubIndices DEF Of
  <2>2. \A p \in Projections : registered[p] # 0 => engines[registered[p]].projection = p
    BY DEF HubTypes, Of
  <2>3. /\ DOMAIN at \subseteq DOMAIN engines /\ Hub!Range(at) \subseteq {"apply", "snapshot"}
        /\ \A e, f \in DOMAIN at : engines[e].projection = engines[f].projection => e = f
    BY HubIndices DEF HubTypes, Of, Hub!Range
  <2>4. \A p \in Projections : Hub!Range(models[p]) \subseteq 1 .. events
    BY HubIndices DEF HubTypes, Hub!Range
  <2>5. \A p \in Projections : \A s \in Hub!Range(snapshots[p]) : s.position \in 1 .. events
    <3>1. SUFFICES ASSUME NEW p \in Projections, NEW i \in 1 .. Len(snapshots[p])
                   PROVE  snapshots[p][i].position \in 1 .. events
      BY HubIndices DEF Hub!Range
    <3> QED
      BY PositionIs
  <2> QED
    BY <2>1, <2>2, <2>3, <2>4, <2>5 DEF Hub!TypeOK
<1>2. Hub!SnapshotsResume
  <2>1. SUFFICES ASSUME NEW p \in Projections, NEW i \in 1 .. Len(snapshots[p])
                 PROVE  LET s == snapshots[p][i]
                        IN  /\ Hub!IsPrefix(s.state, models[p])
                            /\ s.position = Hub!Last(s.state)
                            /\ \A k \in Len(s.state) + 1 .. Len(models[p]) :
                                 models[p][k] > s.position
                            /\ \A j \in 1 .. i - 1 : snapshots[p][j].version < s.version
    BY HubIndices DEF Hub!SnapshotsResume
  <2> DEFINE s == snapshots[p][i]
  <2>2. SnapshotOf(s, models[p]) /\ s.state \in Seq(Nat) /\ models[p] \in Seq(Nat)
    BY HubIndices DEF ModelsKept, Snapshot
  <2>3. \A j \in 1 .. i - 1 : snapshots[p][j].version < s.version
    <3>1. SUFFICES ASSUME NEW j \in 1 .. i - 1 PROVE snapshots[p][j].version < s.version
      OBVIOUS
    <3>2. j \in 1 .. Len(snapshots[p]) /\ j < i
      BY HubIndices
    <3> QED
      BY <3>2 DEF VersionsGrow
  <2>4. Hub!IsPrefix(s.state, models[p])
    <3> HIDE DEF s
    <3> DEFINE m == models[p]  k == Len(s.state)
    <3>1. k \in Nat /\ k <= Len(m) /\ Len(m) \in Nat /\ \A x \in 1 .. k : s.state[x] = m[x]
      BY <2>2, LenProperties DEF SnapshotOf
    <3>2. SubSeq(s.state, 1, k) = SubSeq(m, 1, k)
      BY <2>2, <3>1
    <3> QED
      BY <3>1, <3>2 DEF Hub!IsPrefix
  <2> QED
    BY <2>2, <2>3, <2>4 DEF SnapshotOf, Hub!Last
<1> QED
  BY <1>1, <1>2

-----------------------------------------------------------------------------
(* The engines of the projections *)

PlainP == INSTANCE ProjectionEngineProofs
  WITH Overlapping <- FALSE, Enhanced <- FALSE, RetryableErrors <- {},
       MaxAttempts <- 1, Interval <- CheckpointEvery, DeadLetterFrom <- LettersFrom,
       MaxEvents <- Arrivals, MaxRebuilds <- Rebuilds, MaxFailures <- Rejections,
       published <- arrived, pc <- step, failures <- rejected

RetryingP == INSTANCE ProjectionEngineProofs
  WITH Overlapping <- FALSE, Enhanced <- TRUE, RetryableErrors <- {"ProjectionError"},
       MaxAttempts <- Attempts, Interval <- CheckpointEvery, DeadLetterFrom <- LettersFrom,
       MaxEvents <- RetriedArrivals, MaxRebuilds <- Rebuilds, MaxFailures <- RetriedRejections,
       published <- arrived, pc <- step, failures <- rejected

LettersP == INSTANCE ProjectionEngineProofs
  WITH Overlapping <- FALSE, Enhanced <- TRUE, RetryableErrors <- {"ProjectionError"},
       MaxAttempts <- Attempts, Interval <- 0, DeadLetterFrom <- LettersFrom,
       MaxEvents <- RetriedArrivals, MaxRebuilds <- 0, MaxFailures <- RetriedRejections,
       published <- arrived, pc <- step, failures <- rejected

OverlapP == INSTANCE ProjectionEngineProofs
  WITH Workers <- Calls, Overlapping <- TRUE, Enhanced <- FALSE, RetryableErrors <- {},
       MaxAttempts <- 1, Interval <- 0, DeadLetterFrom <- LettersFrom,
       MaxEvents <- RetriedArrivals, MaxRebuilds <- Rebuilds, MaxFailures <- OverlapRejections,
       published <- arrived, pc <- step, failures <- rejected

(* Each engine takes the steps the theorems about ProjectionEngine are of, *)
(* and its properties are theirs.                                          *)

LEMMA PlainSteps ==
  /\ PlainP!ProjectionAssumption
  /\ Plain!Init => PlainP!Init
  /\ Plain!Next => PlainP!Next
<1> USE DEF PlainP!Goto, Plain!Goto, PlainP!Fail, Plain!Fail, PlainP!Quiet,
     Plain!Quiet, PlainP!Advance, Plain!Advance, PlainP!Current,
     Plain!Current, PlainP!ShouldRetry, Plain!ShouldRetry, PlainP!Nothing,
     Plain!Nothing, PlainP!Steps, Plain!Steps, PlainP!Position,
     Plain!Position, PlainP!ToSet, Plain!ToSet
<1>1. PlainP!ProjectionAssumption
  BY EnginesAssumption DEF PlainP!ProjectionAssumption, Plain!ProjectionAssumption
<1>2. Plain!Init => PlainP!Init
  BY DEF Plain!Init, PlainP!Init
<1>3. \A w : Plain!ProcessEvent(w) => PlainP!ProcessEvent(w)
  BY DEF Plain!ProcessEvent, PlainP!ProcessEvent
<1>4. \A w : Plain!Rebuild(w) => PlainP!Rebuild(w)
  BY DEF Plain!Rebuild, PlainP!Rebuild
<1>5. \A w : Plain!Reset(w) => PlainP!Reset(w)
  BY DEF Plain!Reset, PlainP!Reset
<1>6. \A w : Plain!Load(w) => PlainP!Load(w)
  BY DEF Plain!Load, PlainP!Load
<1>7. \A w : Plain!InitState(w) => PlainP!InitState(w)
  BY DEF Plain!InitState, PlainP!InitState
<1>8. \A w : Plain!ApplyAndSave(w) => PlainP!ApplyAndSave(w)
  BY DEF Plain!ApplyAndSave, PlainP!ApplyAndSave
<1>9. \A w : Plain!AfterApply(w) => PlainP!AfterApply(w)
  BY DEF Plain!AfterApply, PlainP!AfterApply
<1>10. \A w : Plain!SaveCheckpoint(w) => PlainP!SaveCheckpoint(w)
  BY DEF Plain!SaveCheckpoint, PlainP!SaveCheckpoint
<1>11. \A w : Plain!Retry(w) => PlainP!Retry(w)
  BY DEF Plain!Retry, PlainP!Retry
<1>12. \A w : Plain!GiveUp(w) => PlainP!GiveUp(w)
  BY DEF Plain!GiveUp, PlainP!GiveUp
<1>13. Plain!Next => PlainP!Next
  BY <1>3, <1>4, <1>5, <1>6, <1>7, <1>8, <1>9, <1>10, <1>11, <1>12
     DEF Plain!Next, PlainP!Next, Plain!Step, PlainP!Step
<1> QED
  BY <1>1, <1>2, <1>13

LEMMA PlainProperties ==
  /\ PlainP!TypeOK => Plain!TypeOK
  /\ PlainP!NoUpdateLost => Plain!NoUpdateLost
  /\ PlainP!AppliedInOrder => Plain!AppliedInOrder
BY DEF PlainP!TypeOK, Plain!TypeOK, PlainP!NoUpdateLost, Plain!NoUpdateLost,
       PlainP!AppliedInOrder, Plain!AppliedInOrder, PlainP!Position,
       Plain!Position, PlainP!Nothing, Plain!Nothing, PlainP!Steps,
       Plain!Steps, PlainP!InModel, Plain!InModel, PlainP!Settled,
       Plain!Settled, PlainP!Pending, Plain!Pending, PlainP!ToSet, Plain!ToSet

LEMMA RetryingSteps ==
  /\ RetryingP!ProjectionAssumption
  /\ Plain!Init => RetryingP!Init
  /\ Retrying!Next => RetryingP!Next
<1> USE DEF RetryingP!Goto, Retrying!Goto, RetryingP!Fail, Retrying!Fail,
     RetryingP!Quiet, Retrying!Quiet, RetryingP!Advance, Retrying!Advance,
     RetryingP!Current, Retrying!Current, RetryingP!ShouldRetry,
     Retrying!ShouldRetry, RetryingP!Nothing, Retrying!Nothing,
     RetryingP!Steps, Retrying!Steps, RetryingP!Position, Retrying!Position,
     RetryingP!ToSet, Retrying!ToSet
<1>1. RetryingP!ProjectionAssumption
  BY EnginesAssumption DEF RetryingP!ProjectionAssumption, Retrying!ProjectionAssumption
<1>2. Plain!Init => RetryingP!Init
  BY DEF Plain!Init, RetryingP!Init, Plain!Nothing
<1>3. \A w : Retrying!ProcessEvent(w) => RetryingP!ProcessEvent(w)
  BY DEF Retrying!ProcessEvent, RetryingP!ProcessEvent
<1>4. \A w : Retrying!Rebuild(w) => RetryingP!Rebuild(w)
  BY DEF Retrying!Rebuild, RetryingP!Rebuild
<1>5. \A w : Retrying!Reset(w) => RetryingP!Reset(w)
  BY DEF Retrying!Reset, RetryingP!Reset
<1>6. \A w : Retrying!Load(w) => RetryingP!Load(w)
  BY DEF Retrying!Load, RetryingP!Load
<1>7. \A w : Retrying!InitState(w) => RetryingP!InitState(w)
  BY DEF Retrying!InitState, RetryingP!InitState
<1>8. \A w : Retrying!ApplyAndSave(w) => RetryingP!ApplyAndSave(w)
  BY DEF Retrying!ApplyAndSave, RetryingP!ApplyAndSave
<1>9. \A w : Retrying!AfterApply(w) => RetryingP!AfterApply(w)
  BY DEF Retrying!AfterApply, RetryingP!AfterApply
<1>10. \A w : Retrying!SaveCheckpoint(w) => RetryingP!SaveCheckpoint(w)
  BY DEF Retrying!SaveCheckpoint, RetryingP!SaveCheckpoint
<1>11. \A w : Retrying!Retry(w) => RetryingP!Retry(w)
  BY DEF Retrying!Retry, RetryingP!Retry
<1>12. \A w : Retrying!GiveUp(w) => RetryingP!GiveUp(w)
  BY DEF Retrying!GiveUp, RetryingP!GiveUp
<1>13. Retrying!Next => RetryingP!Next
  BY <1>3, <1>4, <1>5, <1>6, <1>7, <1>8, <1>9, <1>10, <1>11, <1>12
     DEF Retrying!Next, RetryingP!Next, Retrying!Step, RetryingP!Step
<1> QED
  BY <1>1, <1>2, <1>13

LEMMA RetryingProperties ==
  /\ RetryingP!TypeOK => Retrying!TypeOK
  /\ RetryingP!AppliedOnce => Retrying!AppliedOnce
BY DEF RetryingP!TypeOK, Retrying!TypeOK, RetryingP!AppliedOnce,
       Retrying!AppliedOnce, RetryingP!Position, Retrying!Position,
       RetryingP!Nothing, Retrying!Nothing, RetryingP!Steps, Retrying!Steps,
       RetryingP!InModel, Retrying!InModel, RetryingP!Settled,
       Retrying!Settled, RetryingP!Pending, Retrying!Pending, RetryingP!ToSet,
       Retrying!ToSet, RetryingP!Occurrences, Retrying!Occurrences,
       RetryingP!Cardinality, Retrying!Cardinality

LEMMA LettersSteps ==
  /\ LettersP!ProjectionAssumption
  /\ Plain!Init => LettersP!Init
  /\ Letters!Next => LettersP!Next
<1> USE DEF LettersP!Goto, Letters!Goto, LettersP!Fail, Letters!Fail,
     LettersP!Quiet, Letters!Quiet, LettersP!Advance, Letters!Advance,
     LettersP!Current, Letters!Current, LettersP!ShouldRetry,
     Letters!ShouldRetry, LettersP!Nothing, Letters!Nothing, LettersP!Steps,
     Letters!Steps, LettersP!Position, Letters!Position, LettersP!ToSet,
     Letters!ToSet
<1>1. LettersP!ProjectionAssumption
  BY EnginesAssumption DEF LettersP!ProjectionAssumption, Letters!ProjectionAssumption
<1>2. Plain!Init => LettersP!Init
  BY DEF Plain!Init, LettersP!Init, Plain!Nothing
<1>3. \A w : Letters!ProcessEvent(w) => LettersP!ProcessEvent(w)
  BY DEF Letters!ProcessEvent, LettersP!ProcessEvent
<1>4. \A w : Letters!Rebuild(w) => LettersP!Rebuild(w)
  BY DEF Letters!Rebuild, LettersP!Rebuild
<1>5. \A w : Letters!Reset(w) => LettersP!Reset(w)
  BY DEF Letters!Reset, LettersP!Reset
<1>6. \A w : Letters!Load(w) => LettersP!Load(w)
  BY DEF Letters!Load, LettersP!Load
<1>7. \A w : Letters!InitState(w) => LettersP!InitState(w)
  BY DEF Letters!InitState, LettersP!InitState
<1>8. \A w : Letters!ApplyAndSave(w) => LettersP!ApplyAndSave(w)
  BY DEF Letters!ApplyAndSave, LettersP!ApplyAndSave
<1>9. \A w : Letters!AfterApply(w) => LettersP!AfterApply(w)
  BY DEF Letters!AfterApply, LettersP!AfterApply
<1>10. \A w : Letters!SaveCheckpoint(w) => LettersP!SaveCheckpoint(w)
  BY DEF Letters!SaveCheckpoint, LettersP!SaveCheckpoint
<1>11. \A w : Letters!Retry(w) => LettersP!Retry(w)
  BY DEF Letters!Retry, LettersP!Retry
<1>12. \A w : Letters!GiveUp(w) => LettersP!GiveUp(w)
  BY DEF Letters!GiveUp, LettersP!GiveUp
<1>13. Letters!Next => LettersP!Next
  BY <1>3, <1>4, <1>5, <1>6, <1>7, <1>8, <1>9, <1>10, <1>11, <1>12
     DEF Letters!Next, LettersP!Next, Letters!Step, LettersP!Step
<1> QED
  BY <1>1, <1>2, <1>13

LEMMA LettersProperties ==
  /\ LettersP!TypeOK => Letters!TypeOK
  /\ LettersP!DeadLettersUnapplied => Letters!DeadLettersUnapplied
BY DEF LettersP!TypeOK, Letters!TypeOK, LettersP!DeadLettersUnapplied,
       Letters!DeadLettersUnapplied, LettersP!Position, Letters!Position,
       LettersP!Nothing, Letters!Nothing, LettersP!Steps, Letters!Steps,
       LettersP!InModel, Letters!InModel, LettersP!Settled, Letters!Settled,
       LettersP!Pending, Letters!Pending, LettersP!ToSet, Letters!ToSet

LEMMA OverlapSteps ==
  /\ OverlapP!ProjectionAssumption
  /\ Overlap!Init => OverlapP!Init
  /\ Overlap!Next => OverlapP!Next
<1> USE DEF OverlapP!Goto, Overlap!Goto, OverlapP!Fail, Overlap!Fail,
     OverlapP!Quiet, Overlap!Quiet, OverlapP!Advance, Overlap!Advance,
     OverlapP!Current, Overlap!Current, OverlapP!ShouldRetry,
     Overlap!ShouldRetry, OverlapP!Nothing, Overlap!Nothing, OverlapP!Steps,
     Overlap!Steps, OverlapP!Position, Overlap!Position, OverlapP!ToSet,
     Overlap!ToSet
<1>1. OverlapP!ProjectionAssumption
  BY EnginesAssumption DEF OverlapP!ProjectionAssumption, Overlap!ProjectionAssumption
<1>2. Overlap!Init => OverlapP!Init
  BY DEF Overlap!Init, OverlapP!Init
<1>3. \A w : Overlap!ProcessEvent(w) => OverlapP!ProcessEvent(w)
  BY DEF Overlap!ProcessEvent, OverlapP!ProcessEvent
<1>4. \A w : Overlap!Rebuild(w) => OverlapP!Rebuild(w)
  BY DEF Overlap!Rebuild, OverlapP!Rebuild
<1>5. \A w : Overlap!Reset(w) => OverlapP!Reset(w)
  BY DEF Overlap!Reset, OverlapP!Reset
<1>6. \A w : Overlap!Load(w) => OverlapP!Load(w)
  BY DEF Overlap!Load, OverlapP!Load
<1>7. \A w : Overlap!InitState(w) => OverlapP!InitState(w)
  BY DEF Overlap!InitState, OverlapP!InitState
<1>8. \A w : Overlap!ApplyAndSave(w) => OverlapP!ApplyAndSave(w)
  BY DEF Overlap!ApplyAndSave, OverlapP!ApplyAndSave
<1>9. \A w : Overlap!AfterApply(w) => OverlapP!AfterApply(w)
  BY DEF Overlap!AfterApply, OverlapP!AfterApply
<1>10. \A w : Overlap!SaveCheckpoint(w) => OverlapP!SaveCheckpoint(w)
  BY DEF Overlap!SaveCheckpoint, OverlapP!SaveCheckpoint
<1>11. \A w : Overlap!Retry(w) => OverlapP!Retry(w)
  BY DEF Overlap!Retry, OverlapP!Retry
<1>12. \A w : Overlap!GiveUp(w) => OverlapP!GiveUp(w)
  BY DEF Overlap!GiveUp, OverlapP!GiveUp
<1>13. Overlap!Next => OverlapP!Next
  BY <1>3, <1>4, <1>5, <1>6, <1>7, <1>8, <1>9, <1>10, <1>11, <1>12
     DEF Overlap!Next, OverlapP!Next, Overlap!Step, OverlapP!Step
<1> QED
  BY <1>1, <1>2, <1>13

LEMMA OverlapProperties ==
  /\ OverlapP!TypeOK => Overlap!TypeOK
  /\ OverlapP!Settled = Overlap!Settled /\ OverlapP!InModel = Overlap!InModel
BY DEF OverlapP!TypeOK, Overlap!TypeOK, OverlapP!Position, Overlap!Position,
       OverlapP!Nothing, Overlap!Nothing, OverlapP!Steps, Overlap!Steps,
       OverlapP!InModel, Overlap!InModel, OverlapP!Settled, Overlap!Settled,
       OverlapP!Pending, Overlap!Pending, OverlapP!ToSet, Overlap!ToSet

-----------------------------------------------------------------------------
(* The parts together *)

(* What holds of the engine that moves, and of the breaker and the hub.    *)
ProjectionsInv ==
  /\ moving \in OneCallAtATime \cup {"overlap", "any", "pausing", "hub"}
  /\ moving = "plain" => PlainP!SerialSpecInv
  /\ moving = "retrying" => RetryingP!SerialSpecInv
  /\ moving = "letters" => LettersP!SerialSpecInv /\ LettersP!LettersInv
  /\ moving = "overlap" =>
       OverlapP!TypeOK /\ OverlapP!NoCheckpoints /\ OverlapP!OverlapInv(together)
  /\ BreakerInv
  /\ HubInv

LEMMA ProjectionsStart ==
  ASSUME ProjectionsInit
  PROVE  ProjectionsInv
<1>1. /\ moving \in OneCallAtATime \cup {"overlap", "any", "pausing", "hub"}
      /\ moving # "overlap" => Plain!Init
      /\ moving = "overlap" => Overlap!Init
      /\ AnyTraffic!Init /\ Hub!Init /\ together = {}
  BY DEF ProjectionsInit
<1>2. moving = "plain" => PlainP!SerialSpecInv
  BY <1>1, PlainSteps, PlainP!TypeInit, PlainP!SerialInit, PlainP!ReadInit
     DEF PlainP!SerialSpecInv
<1>3. moving = "retrying" => RetryingP!SerialSpecInv
  BY <1>1, RetryingSteps, RetryingP!TypeInit, RetryingP!SerialInit, RetryingP!ReadInit
     DEF RetryingP!SerialSpecInv
<1>4. moving = "letters" => LettersP!SerialSpecInv /\ LettersP!LettersInv
  BY <1>1, LettersSteps, LettersP!TypeInit, LettersP!SerialInit, LettersP!ReadInit,
     LettersP!LettersInit DEF LettersP!SerialSpecInv
<1>5. moving = "overlap" =>
        OverlapP!TypeOK /\ OverlapP!NoCheckpoints /\ OverlapP!OverlapInv(together)
  <2>1. SUFFICES ASSUME moving = "overlap"
                 PROVE  /\ OverlapP!TypeOK /\ OverlapP!NoCheckpoints
                        /\ OverlapP!OverlapInv(together)
    OBVIOUS
  <2>2. OverlapP!Init /\ OverlapP!ProjectionAssumption
    BY <1>1, <2>1, OverlapSteps
  <2>3. OverlapP!TypeOK
    BY <2>2, OverlapP!TypeInit
  <2>4. OverlapP!NoCheckpoints
    BY <2>2 DEF OverlapP!Init, OverlapP!NoCheckpoints
  <2>5. OverlapP!OverlapInv({})
    BY <2>2, OverlapP!OverlapInit
  <2> QED
    BY <1>1, <2>3, <2>4, <2>5
<1>6. BreakerInv /\ HubInv
  BY <1>1, BreakerInit, HubStart
<1> QED
  BY <1>1, <1>2, <1>3, <1>4, <1>5, <1>6 DEF ProjectionsInv

(* One part moves, as its specification says.                              *)
LEMMA OneMoves ==
  ASSUME [ProjectionsNext]_projections
  PROVE  /\ moving' = moving
         /\ moving = "plain" => [PlainP!Next]_PlainP!vars
         /\ moving = "retrying" => [RetryingP!Next]_RetryingP!vars
         /\ moving = "letters" => [LettersP!Next]_LettersP!vars
         /\ moving = "overlap" =>
              /\ [OverlapP!Next]_OverlapP!vars /\ together \subseteq together'
              /\ OverlapP!AreTogether(together) => OverlapP!AreTogether(together)'
         /\ moving \notin OneCallAtATime \cup {"overlap"} => checkpoint' = checkpoint
         /\ AnyTraffic!Next \/ UNCHANGED breaker
         /\ Hub!Next \/ UNCHANGED hub
<1>1. CASE UNCHANGED projections
  <2>1. UNCHANGED <<moving, engine, together, breaker, hub>>
    BY <1>1 DEF projections
  <2>2. UNCHANGED <<stored, checkpoint, counter, deadLetters, arrived, step, rest, local,
                    attempt, failed, torn, rebuilds, rejected>>
    BY <2>1 DEF engine
  <2>3. OverlapP!AreTogether(together) => OverlapP!AreTogether(together)'
    BY <2>1, <2>2 DEF OverlapP!AreTogether
  <2> QED
    BY <2>1, <2>2, <2>3 DEF PlainP!vars, RetryingP!vars, LettersP!vars, OverlapP!vars
<1>2. CASE ProjectionsNext
  <2>1. /\ moving' = moving
        /\ \/ /\ \/ moving = "plain" /\ Plain!Next
                 \/ moving = "retrying" /\ Retrying!Next
                 \/ moving = "letters" /\ Letters!Next
              /\ UNCHANGED <<together, breaker, hub>>
           \/ moving = "overlap" /\ OverlapNext /\ UNCHANGED <<breaker, hub>>
           \/ /\ \/ moving = "any" /\ AnyTraffic!Next
                 \/ moving = "pausing" /\ Pausing!Next
              /\ UNCHANGED <<engine, together, hub>>
           \/ moving = "hub" /\ Hub!Next /\ UNCHANGED <<engine, together, breaker>>
    BY <1>2 DEF ProjectionsNext
  <2>2. moving \in OneCallAtATime => /\ UNCHANGED <<breaker, hub>>
                                     /\ moving = "plain" => PlainP!Next
                                     /\ moving = "retrying" => RetryingP!Next
                                     /\ moving = "letters" => LettersP!Next
    BY <2>1, PlainSteps, RetryingSteps, LettersSteps DEF OneCallAtATime
  <2>3. ASSUME moving = "overlap"
        PROVE  /\ OverlapP!Next /\ UNCHANGED <<breaker, hub>> /\ together \subseteq together'
               /\ OverlapP!AreTogether(together)'
    <3>1. /\ OverlapP!Next /\ UNCHANGED <<breaker, hub>>
          /\ together' = together \cup InFlightTogether
      BY <2>1, <2>3, OverlapSteps DEF OverlapNext, OneCallAtATime
    <3>2. ASSUME NEW v \in Calls, NEW w \in Calls, v # w, step'[v] # "idle", step'[w] # "idle"
          PROVE  ToSet(rest'[w]) \subseteq together'
      <4>1. ToSet(rest'[w]) \subseteq InFlightTogether
        BY <3>2 DEF InFlightTogether
      <4> QED
        BY <3>1, <4>1
    <3> QED
      BY <3>1, <3>2 DEF OverlapP!AreTogether, OverlapP!ToSet, ToSet
  <2>4. moving \in {"any", "pausing"} => AnyTraffic!Next /\ UNCHANGED <<engine, hub>>
    BY <2>1, PausingIsTraffic DEF OneCallAtATime
  <2>5. moving = "hub" => Hub!Next /\ UNCHANGED <<engine, breaker>>
    BY <2>1 DEF OneCallAtATime
  <2>6. UNCHANGED engine => checkpoint' = checkpoint
    BY DEF engine
  <2>7. \/ moving \in OneCallAtATime \/ moving = "overlap"
        \/ moving \in {"any", "pausing"} \/ moving = "hub"
    BY <2>1 DEF OneCallAtATime
  <2> QED
    BY <2>1, <2>2, <2>3, <2>4, <2>5, <2>6, <2>7 DEF OneCallAtATime
<1> QED
  BY <1>1, <1>2

(* The breaker rests, or steps by its rules.                               *)
LEMMA BreakerGoesOn ==
  ASSUME BreakerInv, AnyTraffic!Next \/ UNCHANGED breaker
  PROVE  BreakerInv' /\ [BreakerRules]_(AnyTraffic!vars)
<1>1. CASE AnyTraffic!Next
  BY <1>1, BreakerStep
<1>2. CASE UNCHANGED breaker
  BY <1>2 DEF breaker, AnyTraffic!vars, BreakerInv, AnyTraffic!TypeOK,
     AnyTraffic!ClosedBelowThreshold
<1> QED
  BY <1>1, <1>2

LEMMA HubGoesOn ==
  ASSUME HubInv, Hub!Next \/ UNCHANGED hub
  PROVE  HubInv'
<1>1. CASE Hub!Next
  BY <1>1, HubStep
<1>2. CASE UNCHANGED hub
  <2>1. UNCHANGED <<engines, builders, registered, events, at, reported, owed, models,
                    snapshots>>
    BY <1>2 DEF hub
  <2> USE DEF HubInv
  <2>2. \A e : Of(e)' = Of(e)
    BY <2>1 DEF Of
  <2>3. \A v, p : (UpTo(v, p)' <=> UpTo(v, p)) /\ (Above(v, p)' <=> Above(v, p))
    BY <2>1 DEF UpTo, Above
  <2>4. HubTypes'
    BY <2>1, <2>2 DEF HubTypes
  <2>5. AtWork'
    BY <2>1, <2>2 DEF AtWork
  <2>6. ModelsKept'
    BY <2>1 DEF ModelsKept
  <2>7. VersionsGrow'
    BY <2>1, <2>2, <2>3 DEF VersionsGrow
  <2>8. Hub!EveryEngineServed'
    BY <2>1 DEF Hub!EveryEngineServed, Hub!Delivered, Hub!Range
  <2> QED
    BY <2>4, <2>5, <2>6, <2>7, <2>8
<1> QED
  BY <1>1, <1>2

(* The checkpoints of the engine that moves lead on.                       *)
CheckpointRule ==
  checkpoint' # checkpoint =>
    \A e \in 1 .. checkpoint'.position : e \in ToSet(checkpoint'.state) \/ e \in failed

LEMMA ProjectionsStep ==
  ASSUME ProjectionsInv, [ProjectionsNext]_projections
  PROVE  /\ ProjectionsInv'
         /\ [CheckpointRule]_(Plain!vars)
         /\ [BreakerRules]_(AnyTraffic!vars)
<1>1. BreakerInv' /\ [BreakerRules]_(AnyTraffic!vars) /\ HubInv'
  BY OneMoves, BreakerGoesOn, HubGoesOn DEF ProjectionsInv
<1>2. ASSUME moving = "plain" PROVE PlainP!SerialSpecInv' /\ CheckpointRule
  <2>1. PlainP!SerialSpecInv /\ [PlainP!Next]_PlainP!vars /\ PlainP!ProjectionAssumption
    BY <1>2, OneMoves, PlainSteps DEF ProjectionsInv
  <2>2. PlainP!TypeOK /\ PlainP!SerialInv /\ PlainP!ReadInv
    BY <2>1 DEF PlainP!SerialSpecInv
  <2>3. PlainP!TypeOK'
    BY <2>1, <2>2, PlainP!TypeStep
  <2>4. PlainP!SerialInv'
    BY <2>1, <2>2, <2>3, PlainP!SerialStep
  <2>5. PlainP!ReadInv'
    BY <2>1, <2>2, <2>3, PlainP!ReadStep
  <2>6. PlainP!CheckpointStep
    BY <2>1, PlainP!CheckpointLeadsOn
  <2> QED
    BY <2>3, <2>4, <2>5, <2>6 DEF PlainP!SerialSpecInv, PlainP!CheckpointStep, PlainP!ToSet,
       CheckpointRule, ToSet
<1>3. ASSUME moving = "retrying" PROVE RetryingP!SerialSpecInv' /\ CheckpointRule
  <2>1. /\ RetryingP!SerialSpecInv /\ [RetryingP!Next]_RetryingP!vars
        /\ RetryingP!ProjectionAssumption
    BY <1>3, OneMoves, RetryingSteps DEF ProjectionsInv
  <2>2. RetryingP!TypeOK /\ RetryingP!SerialInv /\ RetryingP!ReadInv
    BY <2>1 DEF RetryingP!SerialSpecInv
  <2>3. RetryingP!TypeOK'
    BY <2>1, <2>2, RetryingP!TypeStep
  <2>4. RetryingP!SerialInv'
    BY <2>1, <2>2, <2>3, RetryingP!SerialStep
  <2>5. RetryingP!ReadInv'
    BY <2>1, <2>2, <2>3, RetryingP!ReadStep
  <2>6. RetryingP!CheckpointStep
    BY <2>1, RetryingP!CheckpointLeadsOn
  <2> QED
    BY <2>3, <2>4, <2>5, <2>6 DEF RetryingP!SerialSpecInv, RetryingP!CheckpointStep,
       RetryingP!ToSet, CheckpointRule, ToSet
<1>4. ASSUME moving = "letters"
      PROVE  LettersP!SerialSpecInv' /\ LettersP!LettersInv' /\ CheckpointRule
  <2>1. /\ LettersP!SerialSpecInv /\ LettersP!LettersInv /\ [LettersP!Next]_LettersP!vars
        /\ LettersP!ProjectionAssumption
    BY <1>4, OneMoves, LettersSteps DEF ProjectionsInv
  <2>2. LettersP!TypeOK /\ LettersP!SerialInv /\ LettersP!ReadInv
    BY <2>1 DEF LettersP!SerialSpecInv
  <2>3. LettersP!TypeOK'
    BY <2>1, <2>2, LettersP!TypeStep
  <2>4. LettersP!SerialInv'
    BY <2>1, <2>2, <2>3, LettersP!SerialStep
  <2>5. LettersP!ReadInv'
    BY <2>1, <2>2, <2>3, LettersP!ReadStep
  <2>6. LettersP!SerialSpecInv'
    BY <2>3, <2>4, <2>5 DEF LettersP!SerialSpecInv
  <2>7. LettersP!LettersInv'
    BY <2>1, <2>6, LettersP!LettersStep
  <2>8. LettersP!CheckpointStep
    BY <2>1, LettersP!CheckpointLeadsOn
  <2> QED
    BY <2>6, <2>7, <2>8 DEF LettersP!CheckpointStep, LettersP!ToSet, CheckpointRule, ToSet
<1>5. ASSUME moving = "overlap"
      PROVE  /\ OverlapP!TypeOK' /\ OverlapP!NoCheckpoints'
             /\ OverlapP!OverlapInv(together)' /\ CheckpointRule
  <2>1. /\ OverlapP!TypeOK /\ OverlapP!NoCheckpoints /\ OverlapP!OverlapInv(together)
        /\ [OverlapP!Next]_OverlapP!vars /\ OverlapP!ProjectionAssumption
        /\ together \subseteq together'
        /\ OverlapP!AreTogether(together) => OverlapP!AreTogether(together)'
    BY <1>5, OneMoves, OverlapSteps DEF ProjectionsInv
  <2>2. OverlapP!TypeOK'
    BY <2>1, OverlapP!TypeStep
  <2>3. OverlapP!NoCheckpoints' /\ checkpoint' = checkpoint
    BY <2>1, OverlapP!NoneIsSaved
  <2>4. PICK t : t = together
    OBVIOUS
  <2>5. PICK later : later = together'
    OBVIOUS
  <2>6. OverlapP!OverlapInv(t) /\ t \subseteq later
    BY <2>1, <2>4, <2>5
  <2>7. OverlapP!AreTogether(later)'
    BY <2>1, <2>5 DEF OverlapP!AreTogether, OverlapP!OverlapInv
  <2>8. OverlapP!OverlapInv(later)'
    BY <2>1, <2>6, <2>7, OverlapP!OverlapStep
  <2>9. OverlapP!OverlapInv(together)'
    BY <2>5, <2>8 DEF OverlapP!OverlapInv, OverlapP!AreTogether, OverlapP!CallOverlaps
  <2> QED
    BY <2>2, <2>3, <2>9 DEF CheckpointRule
<1>6. CheckpointRule
  BY <1>2, <1>3, <1>4, <1>5, OneMoves DEF CheckpointRule, OneCallAtATime
<1> QED
  BY <1>1, <1>2, <1>3, <1>4, <1>5, <1>6, OneMoves DEF ProjectionsInv

LEMMA ProjectionsShow ==
  ASSUME ProjectionsInv
  PROVE  /\ ReadModelRight
         /\ moving = "any" => AnyTraffic!ClosedBelowThreshold
         /\ moving = "hub" => Hub!SnapshotsResume
<1>1. moving = "plain" => Plain!TypeOK /\ Plain!NoUpdateLost /\ Plain!AppliedInOrder
  BY PlainProperties DEF ProjectionsInv, PlainP!SerialSpecInv, PlainP!SerialInv, PlainP!ReadInv
<1>2. moving = "retrying" => Retrying!TypeOK /\ Retrying!AppliedOnce
  BY RetryingProperties, RetryingP!AtMostOnce DEF ProjectionsInv, RetryingP!SerialSpecInv
<1>3. moving = "letters" => Letters!TypeOK /\ Letters!DeadLettersUnapplied
  <2>1. LettersP!LettersInv => LettersP!DeadLettersUnapplied
    BY DEF LettersP!LettersInv, LettersP!DeadLettersUnapplied
  <2> QED
    BY <2>1, LettersProperties DEF ProjectionsInv, LettersP!SerialSpecInv
<1>4. moving = "overlap" =>
        Overlap!TypeOK /\ Overlap!Settled \ together \subseteq Overlap!InModel
  BY OverlapProperties DEF ProjectionsInv, OverlapP!OverlapInv
<1>5. Hub!TypeOK /\ Hub!EveryEngineServed /\ Hub!SnapshotsResume
  BY HubProperties DEF ProjectionsInv
<1>6. AnyTraffic!TypeOK /\ AnyTraffic!ClosedBelowThreshold
  BY DEF ProjectionsInv, BreakerInv
<1> QED
  BY <1>1, <1>2, <1>3, <1>4, <1>5, <1>6 DEF ReadModelRight

LEMMA ProjectionsAlways ==
  ProjectionsSpec => /\ []ProjectionsInv
                     /\ [][CheckpointRule]_(Plain!vars)
                     /\ [][BreakerRules]_(AnyTraffic!vars)
<1>1. ProjectionsInit => ProjectionsInv
  BY ProjectionsStart
<1>2. ProjectionsInv /\ [ProjectionsNext]_projections => ProjectionsInv'
  BY ProjectionsStep
<1>3. ProjectionsInv /\ [ProjectionsNext]_projections => [CheckpointRule]_(Plain!vars)
  BY ProjectionsStep
<1>4. ProjectionsInv /\ [ProjectionsNext]_projections => [BreakerRules]_(AnyTraffic!vars)
  BY ProjectionsStep
<1> QED
  BY <1>1, <1>2, <1>3, <1>4, PTL DEF ProjectionsSpec

(* What an engine's read model shows of an event agrees with what became   *)
(* of it, for any number of calls, events, failures and engines: with one  *)
(* call at a time nothing settled is missing, nothing is applied twice or  *)
(* out of order, and no dead letter is applied; with several only events   *)
(* in flight together may be missing; and every engine registered for an   *)
(* event applies it or has its error swallowed (projection-engine.ts,      *)
(* dead-letter-capability.ts, projection-processor.ts).                    *)
THEOREM ReadModelsAreRight == ProjectionsSpec => []ReadModelRight
<1>1. ProjectionsInv => ReadModelRight
  BY ProjectionsShow
<1> QED
  BY <1>1, ProjectionsAlways, PTL

(* The breaker closes after the configured number of calls ended well,     *)
(* stays closed only below the threshold and lets no call through before   *)
(* its timeout, whatever calls are under way                               *)
(* (circuit-breaker-capability.ts).                                        *)
THEOREM CircuitKeepsItsRules == ProjectionsSpec => CircuitByTheRules
<1>1. ProjectionsInv => (moving = "any" => AnyTraffic!ClosedBelowThreshold)
  BY ProjectionsShow
<1>2. [BreakerRules]_(AnyTraffic!vars) =>
        [circuit = "HALF_OPEN" /\ circuit' = "CLOSED"
           => probed' >= HalfOpenMaxAttempts]_(AnyTraffic!vars)
  BY DEF BreakerRules
<1>3. [BreakerRules]_(AnyTraffic!vars) =>
        [\A w \in Calls :
           circuit = "OPEN" /\ calls[w] = "idle" /\ calls'[w] = "running"
             => age > RecoveryTimeout /\ circuit' = "HALF_OPEN"]_(AnyTraffic!vars)
  BY DEF BreakerRules
<1> QED
  BY <1>1, <1>2, <1>3, ProjectionsAlways, PTL
     DEF CircuitByTheRules, AnyTraffic!ClosesAfterProbes, AnyTraffic!OpenRejects

(* What an engine resumes from misses no event up to its position, and the *)
(* snapshots of a projection are its read model at their positions, with   *)
(* versions that grow, over failures, restarts and replaced engines        *)
(* (checkpoint-capability.ts, snapshot-capability.ts).                     *)
THEOREM EnginesResume == ProjectionsSpec => StoredResumes
<1>1. ProjectionsInv => (moving = "hub" => Hub!SnapshotsResume)
  BY ProjectionsShow
<1>2. [CheckpointRule]_(Plain!vars) =>
        [checkpoint' # checkpoint =>
           \A e \in 1 .. checkpoint'.position :
             e \in Plain!ToSet(checkpoint'.state) \/ e \in failed]_(Plain!vars)
  BY DEF CheckpointRule, Plain!ToSet, ToSet
<1> QED
  BY <1>1, <1>2, ProjectionsAlways, PTL DEF StoredResumes, Plain!CheckpointResumes

=============================================================================
