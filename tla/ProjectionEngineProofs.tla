------------------------ MODULE ProjectionEngineProofs ------------------------
(***************************************************************************)
(* Theorems about ProjectionEngine, for any engine, capabilities and       *)
(* bounds.  With one call at a time, SerialInv says what a call has done   *)
(* when it stands at each step.                                            *)
(***************************************************************************)
EXTENDS ProjectionEngine, SequenceTheorems, FiniteSetTheorems, TLAPS

-----------------------------------------------------------------------------
(* Types *)

LEMMA StoredIs ==
  ASSUME ProjectionAssumption, TypeOK
  PROVE  /\ <<>> \in Seq(Position) /\ <<>> # Nothing
         /\ Nothing \notin Seq(Position)
         /\ MaxAttempts \in Nat /\ MaxAttempts # 0
         /\ MaxEvents \in Nat /\ MaxFailures \in Nat /\ MaxRebuilds \in Nat
<1>1. \A s \in Seq(Position) : \A i \in 1 .. Len(s) : s[i] \in Position
  BY ElementOfSeq
<1>2. Len(Nothing) = 1 /\ Nothing[1] = 0 /\ 0 \notin Position
  BY DEF Nothing, Position
<1>3. Nothing \notin Seq(Position)
  BY <1>1, <1>2
<1>4. <<>> \in Seq(Position) /\ <<>> # Nothing
  BY DEF Nothing
<1> QED
  BY <1>3, <1>4 DEF ProjectionAssumption

LEMMA RestIs ==
  ASSUME TypeOK, NEW w \in Workers, rest[w] # <<>>
  PROVE  /\ rest[w] \in Seq(Position) /\ Len(rest[w]) \in Nat \ {0}
         /\ DOMAIN rest[w] = 1 .. Len(rest[w])
         /\ Current(w) = rest[w][1] /\ Current(w) \in Position
         /\ Current(w) \in ToSet(rest[w])
         /\ Tail(rest[w]) \in Seq(Position) /\ Len(Tail(rest[w])) = Len(rest[w]) - 1
         /\ DOMAIN Tail(rest[w]) = 1 .. Len(rest[w]) - 1
         /\ \A i \in 1 .. Len(rest[w]) - 1 : Tail(rest[w])[i] = rest[w][i + 1]
         /\ Tail(rest[w]) = <<>> <=> Len(rest[w]) = 1
<1>1. rest[w] \in Seq(Position)
  BY DEF TypeOK
<1>2. /\ Len(rest[w]) \in Nat \ {0}
      /\ Tail(rest[w]) \in Seq(Position) /\ Len(Tail(rest[w])) = Len(rest[w]) - 1
      /\ \A i \in 1 .. Len(rest[w]) - 1 : Tail(rest[w])[i] = rest[w][i + 1]
      /\ DOMAIN rest[w] = 1 .. Len(rest[w])
      /\ Head(rest[w]) = rest[w][1]
  BY <1>1, HeadTailProperties, LenProperties, EmptySeq
<1>3. DOMAIN Tail(rest[w]) = 1 .. Len(rest[w]) - 1
  BY <1>2, LenProperties
<1>4. rest[w][1] \in Position /\ rest[w][1] \in ToSet(rest[w])
  BY <1>1, <1>2, ElementOfSeq DEF ToSet
<1>5. Tail(rest[w]) = <<>> <=> Len(rest[w]) = 1
  <2> DEFINE t == Tail(rest[w])
  <2>1. t \in Seq(Position) /\ Len(t) = Len(rest[w]) - 1 /\ Len(rest[w]) \in Nat
    BY <1>2
  <2> HIDE DEF t
  <2>2. t = <<>> <=> Len(t) = 0
    BY <2>1, EmptySeq
  <2> QED
    BY <2>1, <2>2 DEF t
<1> QED
  BY <1>1, <1>2, <1>3, <1>4, <1>5 DEF Current

(* The parts of TypeOK a step of one call disturbs.                        *)
CallTypes ==
  /\ pc \in [Workers -> Steps]
  /\ rest \in [Workers -> Seq(Position)]
  /\ \A w \in Workers : rest[w] = <<>> => pc[w] \in {"idle", "reset"}
  /\ attempt \in [Workers -> 0 .. MaxAttempts]

LEMMA GotoType ==
  ASSUME TypeOK, NEW w \in Workers, NEW step \in Steps, Goto(w, step),
         UNCHANGED rest, rest[w] # <<>> \/ step = "idle" 
  PROVE  /\ pc' \in [Workers -> Steps]
         /\ \A v \in Workers : rest'[v] = <<>> => pc'[v] \in {"idle", "reset"}
BY DEF TypeOK, Goto

LEMMA AdvanceType ==
  ASSUME ProjectionAssumption, TypeOK, NEW w \in Workers, rest[w] # <<>>, Advance(w)
  PROVE  CallTypes'
<1>1. /\ Tail(rest[w]) \in Seq(Position)
      /\ Tail(rest[w]) = <<>> <=> Len(rest[w]) = 1
  BY RestIs
<1>2. 1 \in 0 .. MaxAttempts
  BY StoredIs
<1>3. rest' \in [Workers -> Seq(Position)] /\ attempt' \in [Workers -> 0 .. MaxAttempts]
  BY <1>1, <1>2 DEF TypeOK, Advance
<1>4. /\ pc' \in [Workers -> Steps]
      /\ \A v \in Workers : rest'[v] = <<>> => pc'[v] \in {"idle", "reset"}
  BY <1>1 DEF TypeOK, Advance, Goto, Steps
<1> QED
  BY <1>3, <1>4 DEF CallTypes

LEMMA FailType ==
  ASSUME ProjectionAssumption, TypeOK, NEW w \in Workers, rest[w] # <<>>, Fail(w),
         UNCHANGED <<rest, attempt>>
  PROVE  CallTypes' /\ failures' \in 0 .. MaxFailures
<1>1. failures' \in 0 .. MaxFailures
  BY StoredIs DEF TypeOK, Fail
<1>2. pc' = [pc EXCEPT ![w] = "error"] /\ "error" \in Steps
  BY DEF Fail, Goto, Steps
<1> QED
  BY <1>1, <1>2 DEF CallTypes, TypeOK

LEMMA TypeInit ==
  ASSUME ProjectionAssumption, Init
  PROVE  TypeOK
<1>1. <<>> \in Seq(Position)
  OBVIOUS
<1> QED
  BY <1>1 DEF ProjectionAssumption, Init, TypeOK, Steps

LEMMA TypeStep ==
  ASSUME ProjectionAssumption, TypeOK, [Next]_vars
  PROVE  TypeOK'
<1>1. CASE UNCHANGED vars
  BY <1>1 DEF vars, TypeOK
<1>2. CASE Next
  <2>0. PICK w \in Workers : ProcessEvent(w) \/ Rebuild(w) \/ Step(w)
    BY <1>2 DEF Next
  <2>z. /\ <<>> \in Seq(Position) /\ <<>> # Nothing /\ Nothing \notin Seq(Position)
        /\ MaxAttempts \in Nat /\ MaxAttempts # 0
        /\ MaxEvents \in Nat /\ MaxFailures \in Nat /\ MaxRebuilds \in Nat
    BY StoredIs
  <2> USE <2>z
  <2>a. \A e \in Position : <<e>> \in Seq(Position)
    OBVIOUS
  <2>b. pc[w] \notin {"idle", "reset"} => rest[w] # <<>>
    BY DEF TypeOK
  <2>1. CASE ProcessEvent(w)
    <3>1. published + 1 \in Position /\ <<published + 1>> \in Seq(Position)
          /\ <<published + 1>> # <<>>
      BY <2>1, <2>a DEF TypeOK, ProcessEvent, Position
    <3>2. CallTypes'
      BY <2>1, <3>1 DEF TypeOK, ProcessEvent, Goto, Steps, CallTypes
    <3>3. published' \in 0 .. MaxEvents
      BY <2>1 DEF TypeOK, ProcessEvent
    <3> QED
      BY <2>1, <3>2, <3>3 DEF TypeOK, ProcessEvent, CallTypes
  <2>2. CASE Rebuild(w)
    <3>1. [i \in 1 .. published |-> i] \in Seq(Position)
      <4>1. published \in Nat /\ \A i \in 1 .. published : i \in Position
        BY DEF TypeOK, Position
      <4> QED
        BY <4>1, IsASeq
    <3>2. CallTypes'
      BY <2>2, <3>1 DEF TypeOK, Rebuild, Goto, Steps, CallTypes
    <3>3. rebuilds' \in 0 .. MaxRebuilds
      BY <2>2 DEF TypeOK, Rebuild
    <3> QED
      BY <2>2, <3>2, <3>3 DEF TypeOK, Rebuild, CallTypes
  <2>3. CASE Step(w)
    <3>1. CASE Reset(w)
      <4>1. CallTypes'
        BY <3>1 DEF TypeOK, Reset, Goto, Steps, CallTypes
      <4> QED
        BY <3>1, <4>1 DEF TypeOK, Reset, CallTypes
    <3>2. CASE Load(w)
      <4>1. CallTypes' /\ failures' \in 0 .. MaxFailures
        <5>1. CASE Fail(w)
          BY <5>1, <3>2, <2>b, FailType DEF Load
        <5>2. CASE ~Fail(w)
          BY <5>2, <3>2, <2>b DEF TypeOK, Load, Goto, Steps, CallTypes
        <5> QED
          BY <5>1, <5>2
      <4>2. local' \in [Workers -> Seq(Position)]
        BY <3>2 DEF TypeOK, Load
      <4> QED
        BY <3>2, <4>1, <4>2 DEF TypeOK, Load, CallTypes
    <3>3. CASE InitState(w)
      <4>1. CallTypes' /\ failures' \in 0 .. MaxFailures
        <5>1. CASE Fail(w)
          BY <5>1, <3>3, <2>b, FailType DEF InitState
        <5>2. CASE ~Fail(w)
          BY <5>2, <3>3, <2>b DEF TypeOK, InitState, Goto, Steps, CallTypes
        <5> QED
          BY <5>1, <5>2
      <4>2. local' \in [Workers -> Seq(Position)] /\ (stored' = <<>> \/ stored' = stored)
        BY <3>3 DEF TypeOK, InitState
      <4> QED
        BY <3>3, <4>1, <4>2 DEF TypeOK, InitState, CallTypes
    <3>4. CASE ApplyAndSave(w)
      <4>1. CallTypes' /\ failures' \in 0 .. MaxFailures
        <5>1. CASE Fail(w)
          BY <5>1, <3>4, <2>b, FailType DEF ApplyAndSave
        <5>2. CASE ~Fail(w)
          BY <5>2, <3>4, <2>b DEF TypeOK, ApplyAndSave, Goto, Steps, CallTypes
        <5> QED
          BY <5>1, <5>2
      <4>2. Append(local[w], Current(w)) \in Seq(Position)
        <5>1. rest[w] # <<>> /\ local[w] \in Seq(Position)
          BY <3>4, <2>b DEF ApplyAndSave, TypeOK
        <5>2. Current(w) \in Position
          BY <5>1, RestIs
        <5> QED
          BY <5>1, <5>2, AppendProperties
      <4>3. /\ local' \in [Workers -> Seq(Position)]
            /\ stored' = stored \/ stored' \in Seq(Position)
        BY <3>4, <4>2 DEF TypeOK, ApplyAndSave
      <4> QED
        BY <3>4, <4>1, <4>3 DEF TypeOK, ApplyAndSave, CallTypes
    <3>5. CASE AfterApply(w)
      <4>1. CallTypes'
        <5>1. CASE Advance(w)
          BY <5>1, <3>5, <2>b, AdvanceType DEF AfterApply
        <5>2. CASE ~Advance(w)
          BY <5>2, <3>5, <2>b DEF TypeOK, AfterApply, Goto, Steps, CallTypes
        <5> QED
          BY <5>1, <5>2
      <4>2. counter' \in Nat
        BY <3>5 DEF TypeOK, AfterApply
      <4> QED
        BY <3>5, <4>1, <4>2 DEF TypeOK, AfterApply, CallTypes
    <3>6. CASE SaveCheckpoint(w)
      <4>0. rest[w] # <<>> /\ Current(w) \in Position
        BY <3>6, <2>b, RestIs DEF SaveCheckpoint
      <4>1. CallTypes' /\ failures' \in 0 .. MaxFailures
        <5>1. CASE Fail(w) /\ UNCHANGED <<rest, attempt>>
          BY <5>1, <4>0, FailType
        <5>2. CASE Advance(w) /\ UNCHANGED failures
          BY <5>2, <4>0, AdvanceType DEF TypeOK
        <5> QED
          BY <3>6, <5>1, <5>2 DEF SaveCheckpoint
      <4>2. /\ checkpoint'.state = Nothing \/ checkpoint'.state \in Seq(Position)
            /\ checkpoint'.position \in 0 .. MaxEvents
            /\ counter' \in Nat
        BY <3>6, <4>0 DEF TypeOK, SaveCheckpoint, Position
      <4> QED
        BY <3>6, <4>0, <4>1, <4>2 DEF TypeOK, SaveCheckpoint, CallTypes
    <3>7. CASE Retry(w)
      <4>1. CallTypes'
        BY <3>7, <2>b DEF TypeOK, Retry, ShouldRetry, Goto, Steps, CallTypes
      <4> QED
        BY <3>7, <4>1 DEF TypeOK, Retry, CallTypes
    <3>8. CASE GiveUp(w)
      <4>0. Current(w) \in Position
        BY <3>8, <2>b, RestIs DEF GiveUp
      <4>1. CallTypes'
        BY <3>8 DEF TypeOK, GiveUp, Goto, Steps, CallTypes
      <4>2. ToSet(rest[w]) \subseteq Position
        <5>1. \A i \in DOMAIN rest[w] : rest[w][i] \in Position
          BY ElementOfSeq DEF TypeOK
        <5> QED
          BY <5>1 DEF ToSet
      <4> QED
        BY <3>8, <4>0, <4>1, <4>2 DEF TypeOK, GiveUp, CallTypes
    <3> QED
      BY <2>3, <3>1, <3>2, <3>3, <3>4, <3>5, <3>6, <3>7, <3>8 DEF Step
  <2> QED
    BY <2>0, <2>1, <2>2, <2>3
<1> QED
  BY <1>1, <1>2

(* Every variable has its type, whatever calls overlap.                    *)
THEOREM TypeCorrect ==
  ASSUME ProjectionAssumption
  PROVE  Spec => []TypeOK
<1>1. Init => TypeOK
  BY TypeInit
<1>2. TypeOK /\ [Next]_vars => TypeOK'
  BY TypeStep
<1> QED
  BY <1>1, <1>2, PTL DEF Spec

-----------------------------------------------------------------------------
(* One call at a time *)

OneAtATime == \A v, w \in Workers : pc[v] # "idle" /\ pc[w] # "idle" => v = w

(* A call goes through the events up to the last one published.            *)
Consecutive(w) ==
  \A i \in 1 .. Len(rest[w]) : rest[w][i] = published - Len(rest[w]) + i

(* What a call has, and has done, when it stands at a step.                *)
Stands(w) ==
  /\ pc[w] = "idle" => rest[w] = <<>>
  /\ pc[w] = "reset" => Len(rest[w]) = published
  /\ pc[w] = "init" => stored = Nothing
  /\ pc[w] \in {"save", "after", "checkpoint"} => local[w] = stored
  /\ pc[w] \in {"after", "checkpoint"} => Current(w) \in InModel

SerialInv ==
  /\ OneAtATime
  /\ \A w \in Workers : Consecutive(w) /\ Stands(w)
  /\ NoUpdateLost

(* Nothing of an event is lost, said of the call w.                        *)
Kept(w) == \A e \in 1 .. published : e \in failed \cup InModel \cup ToSet(rest[w])

LEMMA EmptyIs == ToSet(<<>>) = {}
BY DEF ToSet

LEMMA KeptIs ==
  ASSUME NEW w \in Workers, \A v \in Workers \ {w} : rest[v] = <<>>
  PROVE  NoUpdateLost <=> Kept(w)
<1>1. \A v \in Workers \ {w} : ToSet(rest[v]) = {}
  BY EmptyIs
<1>2. Pending = ToSet(rest[w])
  BY <1>1 DEF Pending
<1> QED
  BY <1>2 DEF NoUpdateLost, Settled, Kept

LEMMA SerialInit ==
  ASSUME Init
  PROVE  SerialInv
<1>1. \A w \in Workers : rest[w] = <<>> /\ pc[w] = "idle"
  BY DEF Init
<1>2. published = 0 /\ Len(<<>>) = 0
  BY DEF Init
<1>3. \A w \in Workers : Consecutive(w) /\ Stands(w)
  BY <1>1, <1>2 DEF Consecutive, Stands
<1> QED
  BY <1>1, <1>2, <1>3 DEF SerialInv, OneAtATime, NoUpdateLost, Settled

(* A step of the call w leaves the others idle, if it is the only one.     *)
LEMMA OnlyOne ==
  ASSUME SerialInv, NEW w \in Workers, pc[w] # "idle" \/ Quiet
  PROVE  /\ \A v \in Workers \ {w} : pc[v] = "idle" /\ rest[v] = <<>>
         /\ Kept(w) /\ Consecutive(w) /\ Stands(w)
<1>1. \A v \in Workers \ {w} : pc[v] = "idle" /\ rest[v] = <<>>
  BY DEF SerialInv, OneAtATime, Quiet, Stands
<1> QED
  BY <1>1, KeptIs DEF SerialInv

LEMMA OnlyOneNext ==
  ASSUME TypeOK, TypeOK', NEW w \in Workers,
         \A v \in Workers \ {w} : pc[v] = "idle" /\ rest[v] = <<>>,
         \A v \in Workers \ {w} : pc'[v] = pc[v] /\ rest'[v] = rest[v],
         Kept(w)', Consecutive(w)', Stands(w)'
  PROVE  SerialInv'
<1>1. \A v \in Workers \ {w} : pc'[v] = "idle" /\ rest'[v] = <<>>
  OBVIOUS
<1>2. OneAtATime'
  BY <1>1 DEF OneAtATime
<1>3. Len(<<>>) = 0
  OBVIOUS
<1>4. \A v \in Workers : Consecutive(v)' /\ Stands(v)'
  BY <1>1, <1>3 DEF Consecutive, Stands
<1>5. NoUpdateLost'
  <2>1. \A v \in Workers \ {w} : ToSet(rest'[v]) = {}
    BY <1>1, EmptyIs
  <2>2. Pending' = ToSet(rest'[w])
    BY <2>1 DEF Pending
  <2> QED
    BY <2>2 DEF NoUpdateLost, Settled, Kept
<1> QED
  BY <1>2, <1>4, <1>5 DEF SerialInv

(* Only the call w moves.                                                  *)
LEMMA OthersStay ==
  ASSUME TypeOK, NEW w \in Workers, ProcessEvent(w) \/ Rebuild(w) \/ Step(w)
  PROVE  \A v \in Workers \ {w} : pc'[v] = pc[v] /\ rest'[v] = rest[v] /\ local'[v] = local[v]
BY DEF TypeOK, ProcessEvent, Rebuild, Step, Reset, Load, InitState, ApplyAndSave,
       AfterApply, SaveCheckpoint, Retry, GiveUp, Advance, Fail, Goto

LEMMA ToSetIs ==
  ASSUME NEW s \in Seq(Position)
  PROVE  /\ ToSet(s) \subseteq Position
         /\ \A i \in 1 .. Len(s) : s[i] \in ToSet(s)
         /\ \A e \in ToSet(s) : \E i \in 1 .. Len(s) : s[i] = e
         /\ DOMAIN s = 1 .. Len(s) /\ Len(s) \in Nat
<1>1. DOMAIN s = 1 .. Len(s) /\ Len(s) \in Nat
  BY LenProperties
<1>2. \A i \in 1 .. Len(s) : s[i] \in Position
  BY ElementOfSeq
<1> QED
  BY <1>1, <1>2 DEF ToSet

LEMMA AppendedIs ==
  ASSUME NEW s \in Seq(Position), NEW e \in Position
  PROVE  /\ Append(s, e) \in Seq(Position)
         /\ Len(Append(s, e)) = Len(s) + 1
         /\ Append(s, e)[Len(s) + 1] = e
         /\ \A i \in 1 .. Len(s) : Append(s, e)[i] = s[i]
         /\ ToSet(Append(s, e)) = ToSet(s) \cup {e}
<1>1. /\ Append(s, e) \in Seq(Position)
      /\ Len(Append(s, e)) = Len(s) + 1
      /\ Append(s, e)[Len(s) + 1] = e
      /\ \A i \in 1 .. Len(s) : Append(s, e)[i] = s[i]
  BY AppendProperties
<1>2. /\ DOMAIN s = 1 .. Len(s) /\ Len(s) \in Nat
      /\ DOMAIN Append(s, e) = 1 .. Len(s) + 1
  BY <1>1, LenProperties
<1>3. ToSet(Append(s, e)) = ToSet(s) \cup {e}
  BY <1>1, <1>2 DEF ToSet
<1> QED
  BY <1>1, <1>3

LEMMA CurrentIs ==
  ASSUME ProjectionAssumption, TypeOK, NEW w \in Workers, rest[w] # <<>>, Consecutive(w)
  PROVE  /\ Current(w) = published - Len(rest[w]) + 1
         /\ Len(rest[w]) \in Nat \ {0} /\ published \in Nat
         /\ Current(w) \in Int /\ Current(w) <= published
<1>1. published \in Nat
  BY StoredIs DEF TypeOK
<1>2. Len(rest[w]) \in Nat \ {0} /\ Current(w) = rest[w][1]
  BY RestIs
<1>3. rest[w][1] = published - Len(rest[w]) + 1
  BY <1>2 DEF Consecutive
<1> QED
  BY <1>1, <1>2, <1>3

(* Going on to the next event.                                             *)
LEMMA AdvancedIs ==
  ASSUME ProjectionAssumption, TypeOK, NEW w \in Workers, rest[w] # <<>>, Advance(w),
         UNCHANGED published, Consecutive(w)
  PROVE  /\ Consecutive(w)'
         /\ ToSet(rest[w]) = ToSet(rest'[w]) \cup {Current(w)}
         /\ pc'[w] = "idle" => rest'[w] = <<>>
         /\ pc'[w] \in {"idle", "load"}
         /\ pc'[w] # "idle" => Current(w)' = Current(w) + 1
<1>a. /\ rest[w] \in Seq(Position) /\ Len(rest[w]) \in Nat \ {0}
      /\ DOMAIN rest[w] = 1 .. Len(rest[w])
      /\ Current(w) = rest[w][1] /\ Current(w) \in ToSet(rest[w])
      /\ Tail(rest[w]) \in Seq(Position) /\ Len(Tail(rest[w])) = Len(rest[w]) - 1
      /\ DOMAIN Tail(rest[w]) = 1 .. Len(rest[w]) - 1
      /\ \A i \in 1 .. Len(rest[w]) - 1 : Tail(rest[w])[i] = rest[w][i + 1]
      /\ Tail(rest[w]) = <<>> <=> Len(rest[w]) = 1
  BY RestIs
<1>1. rest'[w] = Tail(rest[w]) /\ pc'[w] = IF Len(rest[w]) = 1 THEN "idle" ELSE "load"
  BY DEF Advance, Goto, TypeOK
<1>2. published \in Nat /\ published' = published
  BY StoredIs DEF TypeOK
<1>3. Consecutive(w)'
  <2>1. Len(rest'[w]) = Len(rest[w]) - 1
    BY <1>a, <1>1
  <2>2. \A i \in 1 .. Len(rest[w]) - 1 :
          i + 1 \in 1 .. Len(rest[w]) /\ rest'[w][i] = rest[w][i + 1]
    BY <1>a, <1>1
  <2>3. SUFFICES ASSUME NEW i \in 1 .. Len(rest[w]) - 1
                 PROVE  rest'[w][i] = published - (Len(rest[w]) - 1) + i
    BY <1>2, <2>1 DEF Consecutive
  <2>4. rest[w][i + 1] = published - Len(rest[w]) + (i + 1)
    BY <2>2 DEF Consecutive
  <2> QED
    <3>1. rest'[w][i] = rest[w][i + 1]
      BY <2>2
    <3>2. Len(rest[w]) \in Int /\ published \in Int /\ i \in Int
      BY <1>a, <1>2
    <3> QED
      BY <2>4, <3>1, <3>2
<1>4. ToSet(rest[w]) \subseteq ToSet(rest'[w]) \cup {Current(w)}
  <2>1. SUFFICES ASSUME NEW i \in 1 .. Len(rest[w])
                 PROVE  rest[w][i] \in ToSet(rest'[w]) \cup {Current(w)}
    BY <1>a, ToSetIs
  <2>2. CASE i = 1
    BY <1>a, <2>2
  <2>3. CASE i # 1
    <3>1. i - 1 \in 1 .. Len(rest[w]) - 1 /\ rest'[w][i - 1] = rest[w][i]
      BY <1>a, <1>1, <2>3
    <3> QED
      BY <1>a, <1>1, <3>1 DEF ToSet
  <2> QED
    BY <2>2, <2>3
<1>5. ToSet(rest'[w]) \subseteq ToSet(rest[w])
  <2>1. SUFFICES ASSUME NEW i \in 1 .. Len(rest[w]) - 1
                 PROVE  Tail(rest[w])[i] \in ToSet(rest[w])
    BY <1>a, <1>1 DEF ToSet
  <2>2. i + 1 \in 1 .. Len(rest[w])
    BY <1>a
  <2> QED
    BY <1>a, <2>2 DEF ToSet
<1>6. pc'[w] # "idle" => Current(w)' = Current(w) + 1
  <2>1. SUFFICES ASSUME Len(rest[w]) # 1 PROVE Current(w)' = Current(w) + 1
    BY <1>1
  <2>2. Current(w)' = Head(Tail(rest[w])) /\ Tail(rest[w]) # <<>>
    BY <1>a, <1>1, <2>1 DEF Current
  <2>3. Head(Tail(rest[w])) = rest[w][2]
    BY <1>a, <2>1, <2>2, HeadTailProperties
  <2>4. rest[w][1] = published - Len(rest[w]) + 1 /\ rest[w][2] = published - Len(rest[w]) + 2
    BY <1>a, <2>1 DEF Consecutive
  <2>5. Current(w) = rest[w][1] /\ Current(w)' = rest[w][2]
    BY <1>a, <2>2, <2>3
  <2> QED
    BY <1>a, <1>2, <2>4, <2>5
<1> QED
  BY <1>a, <1>1, <1>3, <1>4, <1>5, <1>6

LEMMA SerialStep ==
  ASSUME ProjectionAssumption, TypeOK, TypeOK', SerialInv, ~Overlapping, [Next]_vars
  PROVE  SerialInv'
<1>1. CASE UNCHANGED vars
  BY <1>1 DEF vars, SerialInv, OneAtATime, Consecutive, Stands, NoUpdateLost,
              Settled, Pending, InModel, Current
<1>2. CASE Next
  <2>0. PICK w \in Workers : ProcessEvent(w) \/ Rebuild(w) \/ Step(w)
    BY <1>2 DEF Next
  <2>1. pc[w] # "idle" \/ Quiet
    BY <2>0 DEF ProcessEvent, Rebuild, Step, Reset, Load, InitState, ApplyAndSave,
                AfterApply, SaveCheckpoint, Retry, GiveUp
  <2>2. /\ \A v \in Workers \ {w} : pc[v] = "idle" /\ rest[v] = <<>>
        /\ Kept(w) /\ Consecutive(w) /\ Stands(w)
    BY <2>1, OnlyOne
  <2>3. \A v \in Workers \ {w} : pc'[v] = pc[v] /\ rest'[v] = rest[v]
    BY <2>0, OthersStay
  <2>a. /\ published \in Nat /\ rest[w] \in Seq(Position) /\ rest'[w] \in Seq(Position)
        /\ pc \in [Workers -> Steps] /\ rest \in [Workers -> Seq(Position)]
        /\ local \in [Workers -> Seq(Position)]
        /\ stored # Nothing => stored \in Seq(Position)
    <3>1. published \in Nat
      BY StoredIs DEF TypeOK
    <3>2. rest' \in [Workers -> Seq(Position)]
      BY DEF TypeOK
    <3> QED
      BY <3>1, <3>2 DEF TypeOK
  <2>b. pc[w] \notin {"idle", "reset"} => rest[w] # <<>>
    BY DEF TypeOK
  <2>c. Len(<<>>) = 0 /\ <<>> # Nothing
    BY StoredIs
  <2>4. Kept(w)' /\ Consecutive(w)' /\ Stands(w)'
    <3>1. CASE ProcessEvent(w)
      <4>1. /\ pc'[w] = "load" /\ rest'[w] = <<published + 1>> /\ rest[w] = <<>>
            /\ published' = published + 1 /\ UNCHANGED <<stored, failed>>
        BY <3>1, <2>a, <2>2 DEF ProcessEvent, Goto, Stands
      <4>2. ToSet(rest'[w]) = {published + 1}
        BY <4>1 DEF ToSet
      <4>3. Kept(w)'
        <5>1. \A e \in 1 .. published' : e \in 1 .. published \/ e = published + 1
          BY <2>a, <4>1
        <5>2. \A e \in 1 .. published : e \in failed' \cup InModel'
          BY <2>2, <4>1, EmptyIs DEF Kept, InModel
        <5> QED
          BY <4>2, <5>1, <5>2 DEF Kept
      <4>4. Consecutive(w)'
        BY <2>a, <4>1 DEF Consecutive
      <4> QED
        BY <4>1, <4>3, <4>4 DEF Stands
    <3>2. CASE Rebuild(w)
      <4>1. /\ pc'[w] = "reset" /\ rest'[w] = [i \in 1 .. published |-> i]
            /\ published' = published
        BY <3>2, <2>a DEF Rebuild, Goto
      <4>2. Len(rest'[w]) = published /\ \A i \in 1 .. published : rest'[w][i] = i
        BY <2>a, <4>1
      <4>3. Kept(w)'
        BY <4>1, <4>2 DEF Kept, ToSet
      <4>4. Consecutive(w)'
        BY <2>a, <4>1, <4>2 DEF Consecutive
      <4> QED
        BY <4>1, <4>2, <4>3, <4>4 DEF Stands
    <3>3. CASE Reset(w)
      <4>1. /\ UNCHANGED <<rest, published>> /\ pc[w] = "reset"
            /\ pc'[w] = IF rest[w] = <<>> THEN "idle" ELSE "load"
        BY <3>3, <2>a DEF Reset, Goto
      <4>2. Len(rest[w]) = published
        BY <2>2, <4>1 DEF Stands
      <4>3. \A i \in 1 .. published : rest[w][i] = i
        BY <2>2, <2>a, <4>2 DEF Consecutive
      <4>4. Kept(w)'
        <5>1. \A e \in 1 .. published : rest[w][e] \in ToSet(rest[w])
          BY <2>a, <4>2, ToSetIs
        <5>2. \A e \in 1 .. published : e \in ToSet(rest[w])
          BY <4>3, <5>1
        <5> QED
          BY <4>1, <5>2 DEF Kept
      <4>5. Consecutive(w)'
        BY <2>2, <4>1 DEF Consecutive
      <4> QED
        BY <4>1, <4>4, <4>5 DEF Stands
    <3>4. CASE Load(w)
      <4>1. /\ UNCHANGED <<rest, published, stored, failed>>
            /\ \/ pc'[w] = "error"
               \/ stored = Nothing /\ pc'[w] = "init"
               \/ pc'[w] = "save" /\ local'[w] = stored
        BY <3>4, <2>a DEF Load, Goto, Fail
      <4>2. Kept(w)' /\ Consecutive(w)'
        BY <2>2, <4>1 DEF Kept, Consecutive, InModel
      <4> QED
        BY <4>1, <4>2 DEF Stands
    <3>5. CASE InitState(w)
      <4>1. /\ UNCHANGED <<rest, published, failed>> /\ pc[w] = "init"
            /\ \/ pc'[w] = "error" /\ UNCHANGED stored
               \/ pc'[w] = "save" /\ local'[w] = stored' /\ stored' = <<>>
        BY <3>5, <2>a DEF InitState, Goto, Fail
      <4>2. InModel = {}
        BY <2>2, <4>1 DEF Stands, InModel
      <4>3. Kept(w)' /\ Consecutive(w)'
        BY <2>2, <4>1, <4>2 DEF Kept, Consecutive
      <4> QED
        BY <4>1, <4>3 DEF Stands
    <3>6. CASE ApplyAndSave(w)
      <4>1. /\ UNCHANGED <<rest, published, failed>> /\ pc[w] = "save"
            /\ \/ pc'[w] = "error" /\ UNCHANGED stored
               \/ /\ pc'[w] = "after" /\ local'[w] = stored'
                  /\ stored' = Append(local[w], Current(w))
        BY <3>6, <2>a DEF ApplyAndSave, Goto, Fail
      <4>2. local[w] = stored /\ stored \in Seq(Position) /\ Current(w) \in Position
            /\ InModel = ToSet(stored)
        BY <2>2, <2>a, <2>b, <4>1, RestIs, StoredIs DEF Stands, InModel
      <4>4. InModel \subseteq InModel' /\ (pc'[w] = "after" => Current(w) \in InModel')
        <5>1. CASE pc'[w] = "error"
          BY <4>1, <5>1 DEF InModel
        <5>2. CASE pc'[w] = "after"
          <6>1. stored' = Append(stored, Current(w))
            BY <4>1, <4>2, <5>2
          <6>2. /\ Append(stored, Current(w)) \in Seq(Position)
                /\ ToSet(Append(stored, Current(w))) = ToSet(stored) \cup {Current(w)}
            BY <4>2, AppendedIs
          <6>3. Nothing \notin Seq(Position)
            BY StoredIs
          <6>4. InModel' = ToSet(stored')
            BY <6>1, <6>2, <6>3 DEF InModel
          <6> QED
            BY <4>2, <6>1, <6>2, <6>4
        <5> QED
          BY <4>1, <5>1, <5>2
      <4>5. Kept(w)' /\ Consecutive(w)'
        BY <2>2, <4>1, <4>4 DEF Kept, Consecutive
      <4>6. Current(w)' = Current(w)
        BY <4>1 DEF Current
      <4> QED
        BY <4>1, <4>4, <4>5, <4>6 DEF Stands
    <3>7. CASE Advance(w) /\ pc[w] \in {"after", "checkpoint"} /\ UNCHANGED <<published, stored, failed>>
      <4>1. /\ Consecutive(w)' /\ ToSet(rest[w]) = ToSet(rest'[w]) \cup {Current(w)}
            /\ pc'[w] = "idle" => rest'[w] = <<>>
            /\ pc'[w] \in {"idle", "load"}
        BY <2>2, <2>b, <3>7, AdvancedIs
      <4>2. Current(w) \in InModel
        BY <2>2, <3>7 DEF Stands
      <4>3. Kept(w)'
        BY <2>2, <3>7, <4>1, <4>2 DEF Kept, InModel
      <4> QED
        BY <4>1, <4>3 DEF Stands
    <3>8. CASE pc[w] = "after" /\ pc'[w] = "checkpoint"
               /\ UNCHANGED <<published, stored, failed, rest, local>>
      BY <2>2, <3>8 DEF Kept, Consecutive, Stands, InModel, Current
    <3>9. CASE pc'[w] \in {"error", "load"} /\ pc[w] # "idle"
               /\ UNCHANGED <<published, stored, failed, rest>>
      BY <2>2, <3>9 DEF Kept, Consecutive, Stands, InModel
    <3>10. CASE GiveUp(w)
      <4>1. /\ pc'[w] = "idle" /\ rest'[w] = <<>> /\ UNCHANGED <<published, stored>>
            /\ failed' = failed \cup ToSet(rest[w])
        BY <3>10, <2>a DEF GiveUp, Goto
      <4> QED
        BY <2>2, <2>c, <4>1 DEF Kept, Consecutive, Stands, InModel
    <3>11. CASE AfterApply(w)
      <4>1. Advance(w) \/ (pc' = [pc EXCEPT ![w] = "checkpoint"] /\ UNCHANGED rest)
        BY <3>11 DEF AfterApply, Goto
      <4> QED
        BY <2>a, <3>7, <3>8, <3>11, <4>1 DEF AfterApply
    <3>12. CASE SaveCheckpoint(w)
      <4>1. Advance(w) \/ (pc' = [pc EXCEPT ![w] = "error"] /\ UNCHANGED rest)
        BY <3>12 DEF SaveCheckpoint, Goto, Fail
      <4> QED
        BY <2>a, <3>7, <3>9, <3>12, <4>1 DEF SaveCheckpoint
    <3>13. CASE Retry(w)
      BY <2>a, <3>9, <3>13 DEF Retry, Goto
    <3> QED
      BY <2>0, <3>1, <3>2, <3>3, <3>4, <3>5, <3>6, <3>10, <3>11, <3>12, <3>13 DEF Step
  <2> QED
    BY <2>2, <2>3, <2>4, OnlyOneNext
<1> QED
  BY <1>1, <1>2

-----------------------------------------------------------------------------
(* What the read model is made of *)

Below(s, n) == \A i \in DOMAIN s : s[i] <= n

OnceBut(s, some) == \A i, j \in DOMAIN s : i < j /\ s[i] = s[j] => s[i] \in some

(* The event of a call is the greatest so far; before it is saved it is in *)
(* the read model only if its checkpoint was rejected.                     *)
CallReads(w) ==
  /\ pc[w] \notin {"idle", "reset"} => Below(stored, Current(w))
  /\ pc[w] \in {"load", "init", "save", "error"} =>
       (Current(w) \in InModel => Current(w) \in torn)

ReadInv ==
  /\ AppliedInOrder
  /\ Below(stored, published)
  /\ OnceBut(stored, torn)
  /\ \A w \in Workers : CallReads(w)

LEMMA AppendReads ==
  ASSUME NEW s \in Seq(Position), NEW e \in Position, NEW some,
         \A i, j \in DOMAIN s : i < j => s[i] <= s[j],
         Below(s, e), OnceBut(s, some), e \in ToSet(s) => e \in some
  PROVE  /\ \A i, j \in DOMAIN Append(s, e) : i < j => Append(s, e)[i] <= Append(s, e)[j]
         /\ Below(Append(s, e), e) /\ OnceBut(Append(s, e), some)
<1> DEFINE t == Append(s, e)
<1>1. /\ DOMAIN s = 1 .. Len(s) /\ Len(s) \in Nat
      /\ \A i \in 1 .. Len(s) : s[i] \in ToSet(s)
  BY ToSetIs
<1>2. /\ DOMAIN t = 1 .. Len(s) + 1 /\ t[Len(s) + 1] = e
      /\ \A i \in 1 .. Len(s) : t[i] = s[i]
  BY AppendedIs, LenProperties
<1>3. e \in Int
  BY DEF Position
<1> HIDE DEF t
<1>4. \A i \in DOMAIN t : i \in 1 .. Len(s) \/ i = Len(s) + 1
  BY <1>1, <1>2
<1>5. Below(t, e)
  BY <1>1, <1>2, <1>3, <1>4 DEF Below
<1>6. \A i, j \in DOMAIN t : i < j => t[i] <= t[j]
  <2>1. SUFFICES ASSUME NEW i \in DOMAIN t, NEW j \in DOMAIN t, i < j PROVE t[i] <= t[j]
    OBVIOUS
  <2>2. i \in 1 .. Len(s)
    BY <1>1, <1>2, <1>4, <2>1
  <2>3. CASE j \in 1 .. Len(s)
    BY <1>1, <1>2, <2>1, <2>2, <2>3
  <2>4. CASE j = Len(s) + 1
    BY <1>2, <1>5, <2>4 DEF Below
  <2> QED
    BY <1>4, <2>3, <2>4
<1>7. OnceBut(t, some)
  <2>1. SUFFICES ASSUME NEW i \in DOMAIN t, NEW j \in DOMAIN t, i < j, t[i] = t[j]
                 PROVE  t[i] \in some
    BY DEF OnceBut
  <2>2. i \in 1 .. Len(s)
    BY <1>1, <1>2, <1>4, <2>1
  <2>3. CASE j \in 1 .. Len(s)
    BY <1>1, <1>2, <2>1, <2>2, <2>3 DEF OnceBut
  <2>4. CASE j = Len(s) + 1
    BY <1>1, <1>2, <2>1, <2>2, <2>4
  <2> QED
    BY <1>4, <2>3, <2>4
<1> QED
  BY <1>5, <1>6, <1>7 DEF t

LEMMA StoredHas ==
  ASSUME TypeOK
  PROVE  /\ \A i \in DOMAIN stored : stored[i] \in Int
         /\ \A n \in Int : Below(stored, n) => \A e \in InModel : e <= n
<1>1. CASE stored = Nothing
  BY <1>1 DEF Nothing, InModel
<1>2. CASE stored # Nothing
  <2>1. stored \in Seq(Position) /\ InModel = ToSet(stored)
    BY <1>2 DEF TypeOK, InModel
  <2>2. \A i \in DOMAIN stored : stored[i] \in Int
    <3>1. DOMAIN stored = 1 .. Len(stored) /\ \A i \in 1 .. Len(stored) : stored[i] \in Position
      BY <2>1, ElementOfSeq, LenProperties
    <3> QED
      BY <3>1 DEF Position
  <2> QED
    BY <2>1, <2>2 DEF Below, ToSet
<1> QED
  BY <1>1, <1>2

LEMMA ReadInit ==
  ASSUME Init
  PROVE  ReadInv
<1>1. stored = <<0>> /\ published = 0 /\ torn = {}
  BY DEF Init, Nothing
<1>2. \A w \in Workers : pc[w] = "idle"
  BY DEF Init
<1> QED
  BY <1>1, <1>2 DEF ReadInv, AppliedInOrder, Below, OnceBut, CallReads

LEMMA ReadStep ==
  ASSUME ProjectionAssumption, TypeOK, TypeOK', SerialInv, ReadInv, ~Overlapping, [Next]_vars
  PROVE  ReadInv'
<1>1. CASE UNCHANGED vars
  BY <1>1 DEF vars, ReadInv, AppliedInOrder, CallReads, InModel, Current
<1>2. CASE Next
  <2>0. PICK w \in Workers : ProcessEvent(w) \/ Rebuild(w) \/ Step(w)
    BY <1>2 DEF Next
  <2>1. pc[w] # "idle" \/ Quiet
    BY <2>0 DEF ProcessEvent, Rebuild, Step, Reset, Load, InitState, ApplyAndSave,
                AfterApply, SaveCheckpoint, Retry, GiveUp
  <2>2. /\ \A v \in Workers \ {w} : pc[v] = "idle" /\ rest[v] = <<>>
        /\ Consecutive(w) /\ Stands(w) /\ CallReads(w)
    BY <2>1, OnlyOne DEF ReadInv
  <2>3. \A v \in Workers \ {w} : pc'[v] = "idle"
    BY <2>0, <2>2, OthersStay
  <2>a. /\ pc \in [Workers -> Steps] /\ rest \in [Workers -> Seq(Position)]
        /\ local \in [Workers -> Seq(Position)]
        /\ stored # Nothing => stored \in Seq(Position)
    BY DEF TypeOK
  <2>b. pc[w] \notin {"idle", "reset"} => rest[w] # <<>>
    BY DEF TypeOK
  <2>c. published \in Nat
    BY StoredIs DEF TypeOK
  <2>d. \A i \in DOMAIN stored : stored[i] \in Int
    BY StoredHas
  <2>e. SUFFICES /\ AppliedInOrder' /\ Below(stored, published)' /\ OnceBut(stored, torn)'
                 /\ CallReads(w)'
    BY <2>3 DEF ReadInv, CallReads
  <2>4. CASE ProcessEvent(w)
    <3>1. /\ pc'[w] = "load" /\ rest'[w] = <<published + 1>>
          /\ published' = published + 1 /\ UNCHANGED <<stored, torn>>
      BY <2>4, <2>a DEF ProcessEvent, Goto
    <3>2. Current(w)' = published + 1
      BY <3>1 DEF Current
    <3>3. Below(stored, published + 1)
      BY <2>c, <2>d DEF ReadInv, Below
    <3>4. Current(w)' \notin InModel
      BY <2>c, <3>2, StoredHas DEF ReadInv
    <3> QED
      BY <3>1, <3>2, <3>3, <3>4 DEF ReadInv, AppliedInOrder, Below, CallReads, InModel
  <2>5. CASE Rebuild(w)
    <3>1. pc'[w] = "reset" /\ UNCHANGED <<stored, torn, published>>
      BY <2>5, <2>a DEF Rebuild, Goto
    <3> QED
      BY <3>1 DEF ReadInv, AppliedInOrder, Below, CallReads
  <2>6. CASE Reset(w)
    <3>1. stored' = <<>>
      BY <2>6 DEF Reset
    <3>2. InModel' = {}
      BY <3>1, EmptyIs DEF InModel
    <3> QED
      BY <3>1, <3>2 DEF AppliedInOrder, Below, OnceBut, CallReads
  <2>7. CASE Load(w)
    <3>1. /\ UNCHANGED <<stored, torn, published, rest>> /\ pc[w] = "load"
      BY <2>7 DEF Load
    <3> QED
      BY <2>2, <3>1 DEF ReadInv, AppliedInOrder, Below, CallReads, InModel, Current
  <2>8. CASE InitState(w)
    <3>1. /\ UNCHANGED <<torn, published, rest>> /\ pc[w] = "init"
          /\ stored' = <<>> \/ stored' = stored
      BY <2>8 DEF InitState
    <3>2. CASE stored' = stored
      BY <2>2, <3>1, <3>2 DEF ReadInv, AppliedInOrder, Below, CallReads, InModel, Current
    <3>3. CASE stored' = <<>>
      <4>1. InModel' = {}
        BY <3>3, EmptyIs DEF InModel
      <4> QED
        BY <3>3, <4>1 DEF AppliedInOrder, Below, OnceBut, CallReads
    <3> QED
      BY <3>1, <3>2, <3>3
  <2>9. CASE ApplyAndSave(w)
    <3>1. /\ UNCHANGED <<torn, published, rest>> /\ pc[w] = "save"
          /\ \/ stored' = stored
             \/ stored' = Append(local[w], Current(w)) /\ pc'[w] = "after"
      BY <2>9, <2>a DEF ApplyAndSave, Goto
    <3>2. CASE stored' = stored
      BY <2>2, <3>1, <3>2 DEF ReadInv, AppliedInOrder, Below, CallReads, InModel, Current
    <3>3. CASE stored' = Append(local[w], Current(w)) /\ pc'[w] = "after"
      <4>1. /\ local[w] = stored /\ stored \in Seq(Position) /\ Current(w) \in Position
            /\ InModel = ToSet(stored) /\ rest[w] # <<>>
        BY <2>2, <2>a, <2>b, <3>1, RestIs, StoredIs DEF Stands, InModel
      <4>2. /\ AppliedInOrder' /\ Below(stored', Current(w)) /\ OnceBut(stored', torn)
        <5>1. /\ \A i, j \in DOMAIN stored : i < j => stored[i] <= stored[j]
              /\ Below(stored, Current(w)) /\ OnceBut(stored, torn)
              /\ Current(w) \in ToSet(stored) => Current(w) \in torn
          BY <2>2, <3>1, <4>1 DEF ReadInv, AppliedInOrder, CallReads
        <5> HIDE <2>e
        <5>2. stored' = Append(stored, Current(w))
          BY <3>3, <4>1
        <5> QED
          BY <4>1, <5>1, <5>2, AppendReads DEF AppliedInOrder
      <4>3. Current(w) <= published /\ Current(w) \in Int
        <5>1. Len(rest[w]) \in Nat \ {0} /\ Current(w) = rest[w][1]
          BY <4>1, RestIs
        <5>2. rest[w][1] = published - Len(rest[w]) + 1
          BY <2>2, <5>1 DEF Consecutive
        <5> QED
          BY <2>c, <5>1, <5>2
      <4>4. Below(stored', published)
        <5>1. \A i \in DOMAIN stored' : stored'[i] \in Int
          <6>1. stored' \in Seq(Position)
            BY <3>3, <4>1, AppendedIs
          <6>2. \A i \in DOMAIN stored' : stored'[i] \in Position
            BY <6>1, ElementOfSeq, LenProperties
          <6> QED
            BY <6>2 DEF Position
        <5> QED
          BY <2>c, <4>2, <4>3, <5>1 DEF Below
      <4> QED
        BY <3>1, <3>3, <4>2, <4>4 DEF CallReads, Current, Below, OnceBut
    <3> QED
      BY <3>1, <3>2, <3>3
  <2>10. CASE Advance(w) /\ pc[w] \in {"after", "checkpoint"} /\ UNCHANGED <<published, stored, torn>>
    <3>1. /\ pc'[w] \in {"idle", "load"}
          /\ pc'[w] # "idle" => Current(w)' = Current(w) + 1
          /\ Current(w) \in Position
      BY <2>2, <2>b, <2>10, AdvancedIs, RestIs
    <3>2. Current(w) \in Int
      BY <3>1 DEF Position
    <3>3. Below(stored, Current(w)) /\ Below(stored, Current(w) + 1)
      BY <2>2, <2>10, <2>d, <3>2 DEF CallReads, Below
    <3>4. Current(w) + 1 \notin InModel
      BY <3>2, <3>3, StoredHas
    <3> QED
      BY <2>10, <3>1, <3>3, <3>4 DEF ReadInv, AppliedInOrder, Below, CallReads, InModel
  <2>11. CASE /\ UNCHANGED <<published, stored, rest, torn>>
              /\ \/ pc[w] = "after" /\ pc'[w] = "checkpoint"
                 \/ pc[w] = "error" /\ pc'[w] = "load"
    BY <2>2, <2>11 DEF ReadInv, AppliedInOrder, Below, CallReads, InModel, Current
  <2>12. CASE SaveCheckpoint(w) /\ ~Advance(w)
    <3>1. /\ UNCHANGED <<published, stored, rest>> /\ torn' = torn \cup {Current(w)}
          /\ pc[w] = "checkpoint"
      BY <2>12 DEF SaveCheckpoint
    <3> QED
      BY <2>2, <3>1 DEF ReadInv, AppliedInOrder, Below, OnceBut, CallReads, InModel, Current
  <2>13. CASE GiveUp(w)
    <3>1. pc'[w] = "idle" /\ UNCHANGED <<published, stored, torn>>
      BY <2>13, <2>a DEF GiveUp, Goto
    <3> QED
      BY <3>1 DEF ReadInv, AppliedInOrder, Below, CallReads
  <2>14. CASE AfterApply(w)
    BY <2>10, <2>11, <2>14, <2>a DEF AfterApply, Goto
  <2>15. CASE SaveCheckpoint(w) /\ Advance(w)
    <3>1. UNCHANGED <<published, stored, torn>> /\ pc[w] = "checkpoint"
      <4>1. pc'[w] # "error"
        BY <2>15, <2>2, <2>b, AdvancedIs DEF SaveCheckpoint
      <4> QED
        BY <2>15, <2>a, <4>1 DEF SaveCheckpoint, Fail, Goto
    <3> QED
      BY <2>10, <2>15, <3>1
  <2>16. CASE Retry(w)
    BY <2>11, <2>16, <2>a DEF Retry, Goto
  <2> QED
    BY <2>0, <2>4, <2>5, <2>6, <2>7, <2>8, <2>9, <2>12, <2>13, <2>14, <2>15, <2>16 DEF Step
<1> QED
  BY <1>1, <1>2

-----------------------------------------------------------------------------
(* The theorems *)

SerialSpecInv == TypeOK /\ SerialInv /\ ReadInv

LEMMA SerialCorrect ==
  ASSUME ProjectionAssumption, ~Overlapping
  PROVE  Spec => []SerialSpecInv
<1>1. Init => SerialSpecInv
  BY TypeInit, SerialInit, ReadInit DEF SerialSpecInv
<1>2. SerialSpecInv /\ [Next]_vars => SerialSpecInv'
  BY TypeStep, SerialStep, ReadStep DEF SerialSpecInv
<1> QED
  BY <1>1, <1>2, PTL DEF Spec

(* With one call at a time no event that was processed is missing in the   *)
(* read model, whatever fails, is retried or is rebuilt                    *)
(* (projection-engine.ts processEvent, rebuild).                           *)
THEOREM NothingIsLost ==
  ASSUME ProjectionAssumption, ~Overlapping
  PROVE  Spec => []NoUpdateLost
<1>1. SerialSpecInv => NoUpdateLost
  BY DEF SerialSpecInv, SerialInv
<1> QED
  BY <1>1, SerialCorrect, PTL

(* With one call at a time events are applied in their order.              *)
THEOREM OrderIsKept ==
  ASSUME ProjectionAssumption, ~Overlapping
  PROVE  Spec => []AppliedInOrder
<1>1. SerialSpecInv => AppliedInOrder
  BY DEF SerialSpecInv, ReadInv
<1> QED
  BY <1>1, SerialCorrect, PTL

LEMMA AtMostOnce ==
  ASSUME TypeOK, ReadInv
  PROVE  AppliedOnce
<1>1. SUFFICES ASSUME NEW e \in Position, e \notin torn PROVE Occurrences(e) <= 1
  BY DEF AppliedOnce
<1> DEFINE Places == {i \in DOMAIN stored : stored[i] = e}
<1>2. DOMAIN stored \subseteq Int
  <2>1. CASE stored = Nothing
    BY <2>1 DEF Nothing
  <2>2. CASE stored # Nothing
    BY <2>2, LenProperties DEF TypeOK
  <2> QED
    BY <2>1, <2>2
<1>3. \A i, j \in Places : i = j
  <2>1. SUFFICES ASSUME NEW i \in Places, NEW j \in Places, i # j PROVE FALSE
    OBVIOUS
  <2>2. i < j \/ j < i
    BY <1>2, <2>1
  <2> QED
    BY <1>1, <2>2 DEF ReadInv, OnceBut
<1>4. CASE Places = {}
  BY <1>4, FS_EmptySet DEF Occurrences
<1>5. CASE Places # {}
  <2>1. PICK i : Places = {i}
    BY <1>3, <1>5
  <2>2. Cardinality(Places) = 1
    BY <2>1, FS_Singleton
  <2> QED
    BY <2>2 DEF Occurrences
<1> QED
  BY <1>4, <1>5

(* With one call at a time an event is applied once, retried or not,       *)
(* unless its checkpoint was rejected after it was saved                   *)
(* (EnhancedProjectionEngine.executeWithRetry).                            *)
THEOREM RetriesApplyOnce ==
  ASSUME ProjectionAssumption, ~Overlapping
  PROVE  Spec => []AppliedOnce
<1>1. SerialSpecInv => AppliedOnce
  BY AtMostOnce DEF SerialSpecInv
<1> QED
  BY <1>1, SerialCorrect, PTL

CheckpointStep ==
  checkpoint' # checkpoint =>
    \A e \in 1 .. checkpoint'.position : e \in ToSet(checkpoint'.state) \/ e \in failed

LEMMA CheckpointLeadsOn ==
  ASSUME ProjectionAssumption, SerialSpecInv, [Next]_vars
  PROVE  CheckpointStep
<1> USE DEF SerialSpecInv
<1>1. SUFFICES ASSUME checkpoint' # checkpoint
               PROVE  \A e \in 1 .. checkpoint'.position :
                        e \in ToSet(checkpoint'.state) \/ e \in failed
  BY DEF CheckpointStep
<1>2. PICK w \in Workers : SaveCheckpoint(w)
  BY <1>1 DEF Next, vars, ProcessEvent, Rebuild, Step, Reset, Load, InitState,
              ApplyAndSave, AfterApply, Retry, GiveUp
<1>3. /\ pc[w] = "checkpoint" /\ rest[w] # <<>>
      /\ checkpoint' = [state |-> local[w], position |-> Current(w)]
  BY <1>1, <1>2 DEF SaveCheckpoint, TypeOK
<1>4. Kept(w) /\ Consecutive(w) /\ Stands(w)
  BY <1>3, OnlyOne
<1>5. /\ InModel = ToSet(local[w]) /\ Current(w) \in InModel
  BY <1>3, <1>4, StoredIs DEF Stands, InModel, TypeOK
<1>6. /\ rest[w] \in Seq(Position) /\ Len(rest[w]) \in Nat \ {0} /\ published \in Nat
      /\ Current(w) = rest[w][1] /\ Current(w) \in Position
  <2>1. published \in Nat
    BY StoredIs DEF TypeOK
  <2> QED
    BY <1>3, <2>1, RestIs
<1>7. Current(w) = published - Len(rest[w]) + 1 /\ Current(w) <= published
  BY <1>3, <1>4, CurrentIs
<1>8. SUFFICES ASSUME NEW e \in 1 .. Current(w) PROVE e \in InModel \cup failed
  BY <1>3, <1>5
<1>9. e \in 1 .. published
  BY <1>6, <1>7
<1>10. CASE e \in ToSet(rest[w])
  <2>1. PICK i \in 1 .. Len(rest[w]) : rest[w][i] = e
    BY <1>6, <1>10, ToSetIs
  <2>2. e = published - Len(rest[w]) + i
    BY <1>4, <2>1 DEF Consecutive
  <2>3. e = Current(w)
    BY <1>6, <1>7, <2>1, <2>2
  <2> QED
    BY <1>5, <2>3
<1> QED
  BY <1>4, <1>9, <1>10 DEF Kept

(* With one call at a time resuming from a checkpoint loses nothing        *)
(* (checkpoint-capability.ts onAfterApply).                                *)
THEOREM CheckpointsResume ==
  ASSUME ProjectionAssumption, ~Overlapping
  PROVE  Spec => CheckpointResumes
<1>1. SerialSpecInv /\ [Next]_vars => [CheckpointStep]_vars
  BY CheckpointLeadsOn
<1> QED
  BY <1>1, SerialCorrect, PTL DEF Spec, CheckpointResumes, CheckpointStep

-----------------------------------------------------------------------------
(* Dead letters *)

LettersInv ==
  /\ torn = {}
  /\ \A w \in Workers : pc[w] \notin {"reset", "checkpoint"}
  /\ \A w \in Workers : Len(rest[w]) <= 1
  /\ \A d \in deadLetters : d <= published
  /\ \A w \in Workers : pc[w] # "idle" => Current(w) \notin deadLetters
  /\ deadLetters \cap InModel = {}

LEMMA LettersInit ==
  ASSUME Init
  PROVE  LettersInv
<1>1. Len(<<>>) = 0
  OBVIOUS
<1> QED
  BY <1>1 DEF Init, LettersInv, InModel

LEMMA LettersStep ==
  ASSUME ProjectionAssumption, SerialSpecInv, SerialSpecInv', ~Overlapping, LettersInv,
         Interval = 0, MaxRebuilds = 0, [Next]_vars
  PROVE  LettersInv'
<1> USE DEF SerialSpecInv
<1>1. CASE UNCHANGED vars
  BY <1>1 DEF vars, LettersInv, InModel, Current
<1>2. CASE Next
  <2>0. PICK w \in Workers : ProcessEvent(w) \/ Rebuild(w) \/ Step(w)
    BY <1>2 DEF Next
  <2>1. pc[w] # "idle" \/ Quiet
    BY <2>0 DEF ProcessEvent, Rebuild, Step, Reset, Load, InitState, ApplyAndSave,
                AfterApply, SaveCheckpoint, Retry, GiveUp
  <2>2. /\ \A v \in Workers \ {w} : pc[v] = "idle" /\ rest[v] = <<>>
        /\ Consecutive(w) /\ Stands(w) /\ CallReads(w)
    BY <2>1, OnlyOne DEF ReadInv
  <2>3. \A v \in Workers \ {w} : pc'[v] = "idle"
    BY <2>0, <2>2, OthersStay
  <2>a. /\ pc \in [Workers -> Steps] /\ rest \in [Workers -> Seq(Position)]
        /\ stored # Nothing => stored \in Seq(Position)
    BY DEF TypeOK
  <2>b. pc[w] \notin {"idle", "reset"} => rest[w] # <<>>
    BY DEF TypeOK
  <2>c. published \in Nat /\ \A d \in deadLetters : d \in Int
    <3>1. published \in Nat
      BY StoredIs DEF TypeOK
    <3> QED
      BY <3>1 DEF TypeOK, Position
  <2>d. ~Rebuild(w) /\ ~Reset(w) /\ ~SaveCheckpoint(w)
    <3>1. ~Rebuild(w)
      BY DEF TypeOK, Rebuild
    <3> QED
      BY <3>1 DEF LettersInv, Reset, SaveCheckpoint
  <2>f. Len(<<>>) = 0
    OBVIOUS
  <2>g. \A v \in Workers \ {w} : rest'[v] = rest[v]
    BY <2>0, OthersStay
  <2>e. SUFFICES /\ torn' = {} /\ pc'[w] \notin {"reset", "checkpoint"}
                 /\ Len(rest'[w]) <= 1
                 /\ \A d \in deadLetters' : d <= published'
                 /\ pc'[w] # "idle" => Current(w)' \notin deadLetters'
                 /\ deadLetters' \cap InModel' = {}
    BY <2>3, <2>g DEF LettersInv
  <2>4. CASE ProcessEvent(w)
    <3>1. /\ pc'[w] = "load" /\ rest'[w] = <<published + 1>>
          /\ published' = published + 1 /\ UNCHANGED <<stored, torn, deadLetters>>
      BY <2>4, <2>a DEF ProcessEvent, Goto
    <3>2. Current(w)' = published + 1
      BY <3>1 DEF Current
    <3>3. Len(rest'[w]) = 1
      BY <3>1
    <3> QED
      BY <2>c, <3>1, <3>2, <3>3 DEF LettersInv, InModel
  <2>5. CASE /\ UNCHANGED <<published, stored, rest, torn, deadLetters>>
             /\ pc[w] # "idle" /\ pc'[w] \notin {"reset", "checkpoint"}
    BY <2>5 DEF LettersInv, InModel, Current
  <2>6. CASE Load(w)
    BY <2>5, <2>6, <2>a DEF Load, Goto, Fail
  <2>7. CASE InitState(w)
    <3>1. /\ UNCHANGED <<torn, published, rest, deadLetters>> /\ pc[w] = "init"
          /\ stored' = <<>> \/ stored' = stored
          /\ pc'[w] \in {"save", "error"}
      BY <2>7, <2>a DEF InitState, Goto, Fail
    <3>2. InModel' \subseteq InModel
      BY <3>1, EmptyIs DEF InModel
    <3> QED
      BY <3>1, <3>2 DEF LettersInv, Current
  <2>8. CASE ApplyAndSave(w)
    <3>1. /\ UNCHANGED <<torn, published, rest, deadLetters>> /\ pc[w] = "save"
          /\ \/ stored' = stored
             \/ stored' = Append(local[w], Current(w))
          /\ pc'[w] \in {"after", "error"}
      BY <2>8, <2>a DEF ApplyAndSave, Goto, Fail
    <3>2. InModel' \subseteq InModel \cup {Current(w)}
      <4>1. /\ local[w] = stored /\ stored \in Seq(Position) /\ Current(w) \in Position
            /\ InModel = ToSet(stored)
        <5>1. Nothing \notin Seq(Position) /\ rest[w] # <<>>
          BY <2>b, <3>1, StoredIs
        <5>2. local[w] = stored /\ stored \in Seq(Position) /\ InModel = ToSet(stored)
          BY <2>2, <2>a, <3>1, <5>1 DEF Stands, InModel, TypeOK
        <5> QED
          BY <5>1, <5>2, RestIs
      <4>2. ToSet(Append(stored, Current(w))) = ToSet(stored) \cup {Current(w)}
        BY <4>1, AppendedIs
      <4> QED
        BY <3>1, <4>1, <4>2 DEF InModel
    <3>3. Current(w) \notin deadLetters
      BY <3>1 DEF LettersInv
    <3> QED
      BY <3>1, <3>2, <3>3 DEF LettersInv, Current
  <2>9. CASE AfterApply(w)
    <3>1. /\ Advance(w) /\ UNCHANGED <<torn, published, deadLetters, stored>>
          /\ pc[w] = "after"
      BY <2>9 DEF AfterApply
    <3>2. /\ pc'[w] \in {"idle", "load"} /\ rest[w] # <<>>
          /\ pc'[w] # "idle" => Current(w)' = Current(w) + 1
      BY <2>2, <2>b, <3>1, AdvancedIs
    <3>3. Len(rest[w]) = 1
      BY <3>2, RestIs DEF LettersInv
    <3>4. pc'[w] = "idle" /\ rest'[w] = <<>>
      BY <2>2, <2>a, <3>1, <3>2, <3>3, AdvancedIs DEF Advance, Goto
    <3> QED
      BY <3>1, <3>4, <2>f DEF LettersInv, InModel
  <2>10. CASE Retry(w)
    BY <2>5, <2>10, <2>a DEF Retry, Goto
  <2>11. CASE GiveUp(w)
    <3>1. /\ pc'[w] = "idle" /\ UNCHANGED <<torn, published, stored>>
          /\ deadLetters' \subseteq deadLetters \cup {Current(w)} /\ pc[w] = "error"
      BY <2>11, <2>a DEF GiveUp, Goto
    <3>2. Current(w) \notin InModel
      BY <2>2, <3>1 DEF CallReads, LettersInv
    <3>3. Current(w) <= published
      BY <2>2, <2>b, <3>1, CurrentIs
    <3>4. rest'[w] = <<>>
      BY <2>11, <2>a DEF GiveUp
    <3> QED
      BY <2>f, <3>1, <3>2, <3>3, <3>4 DEF LettersInv, InModel
  <2> QED
    BY <2>0, <2>d, <2>4, <2>6, <2>7, <2>8, <2>9, <2>10, <2>11 DEF Step
<1> QED
  BY <1>1, <1>2

(* With one call at a time and no checkpoints and rebuilds, what is given  *)
(* to the dead letter store is not in the read model                       *)
(* (dead-letter-capability.ts onError).                                    *)
THEOREM DeadLettersWait ==
  ASSUME ProjectionAssumption, ~Overlapping, Interval = 0, MaxRebuilds = 0
  PROVE  Spec => []DeadLettersUnapplied
<1>1. Init => LettersInv
  BY LettersInit
<1>2. SerialSpecInv /\ SerialSpecInv' /\ LettersInv /\ [Next]_vars => LettersInv'
  BY LettersStep
<1>3. LettersInv => DeadLettersUnapplied
  BY DEF LettersInv, DeadLettersUnapplied
<1> QED
  BY <1>1, <1>2, <1>3, SerialCorrect, PTL DEF Spec

-----------------------------------------------------------------------------
(* Calls that overlap *)

(* What calls under way at once have in hand is among the events t, and so *)
(* is all that a call may have lost of another's when it stands at a step. *)
AreTogether(t) ==
  \A v, w \in Workers :
    v # w /\ pc[v] # "idle" /\ pc[w] # "idle" => ToSet(rest[w]) \subseteq t

CallOverlaps(w, t) ==
  /\ pc[w] = "idle" => rest[w] = <<>>
  /\ pc[w] \in {"after", "checkpoint"} => Current(w) \in InModel \cup t
  /\ pc[w] = "save" => Settled \ t \subseteq ToSet(local[w])
  /\ pc[w] = "init" => Settled \subseteq t
  /\ pc[w] = "reset" => (1 .. published) \ t \subseteq ToSet(rest[w])

OverlapInv(t) ==
  /\ AreTogether(t)
  /\ Settled \ t \subseteq InModel
  /\ \A w \in Workers : CallOverlaps(w, t)

LEMMA OverlapInit ==
  ASSUME Init
  PROVE  OverlapInv({})
<1>1. published = 0 /\ \A w \in Workers : pc[w] = "idle" /\ rest[w] = <<>>
  BY DEF Init
<1>2. Settled = {}
  BY <1>1 DEF Settled
<1> QED
  BY <1>1, <1>2 DEF OverlapInv, AreTogether, CallOverlaps

(* What a step of the call w changes of its own events, and of what is     *)
(* settled.                                                                *)
LEMMA SettledBy ==
  ASSUME TypeOK, NEW w \in Workers, NEW more,
         \A v \in Workers \ {w} : rest'[v] = rest[v],
         ToSet(rest[w]) \subseteq ToSet(rest'[w]) \cup more \cup failed',
         failed \subseteq failed', published' = published
  PROVE  Settled' \subseteq Settled \cup more
<1>1. SUFFICES ASSUME NEW e \in Settled', e \notin more PROVE e \in Settled
  OBVIOUS
<1>2. e \in 1 .. published /\ e \notin failed /\ e \notin failed'
  BY <1>1 DEF Settled
<1>3. \A v \in Workers : e \notin ToSet(rest'[v])
  BY <1>1 DEF Settled, Pending
<1>4. \A v \in Workers : e \notin ToSet(rest[v])
  BY <1>1, <1>2, <1>3
<1> QED
  BY <1>2, <1>4 DEF Settled, Pending

LEMMA AdvanceTakes ==
  ASSUME ProjectionAssumption, TypeOK, NEW w \in Workers, rest[w] # <<>>, Advance(w)
  PROVE  /\ ToSet(rest[w]) = ToSet(rest'[w]) \cup {Current(w)}
         /\ pc'[w] \in {"idle", "load"}
         /\ pc'[w] = "idle" => rest'[w] = <<>>
<1>1. /\ rest[w] \in Seq(Position) /\ Len(rest[w]) \in Nat \ {0}
      /\ DOMAIN rest[w] = 1 .. Len(rest[w])
      /\ DOMAIN Tail(rest[w]) = 1 .. Len(rest[w]) - 1
      /\ \A i \in 1 .. Len(rest[w]) - 1 : Tail(rest[w])[i] = rest[w][i + 1]
      /\ Tail(rest[w]) = <<>> <=> Len(rest[w]) = 1
      /\ Current(w) = rest[w][1]
  BY RestIs
<1>2. /\ rest'[w] = Tail(rest[w])
      /\ pc'[w] = IF Len(rest[w]) = 1 THEN "idle" ELSE "load"
  BY DEF TypeOK, Advance, Goto
<1> DEFINE s == rest[w]  n == Len(rest[w])  t == Tail(rest[w])
<1>3. n \in Nat \ {0} /\ DOMAIN s = 1 .. n /\ DOMAIN t = 1 .. n - 1
      /\ \A i \in 1 .. n - 1 : t[i] = s[i + 1]
  BY <1>1
<1> HIDE DEF s, n, t
<1>4. \A e \in ToSet(s) : e = s[1] \/ e \in ToSet(t)
  <2>1. SUFFICES ASSUME NEW i \in 1 .. n, i # 1 PROVE s[i] \in ToSet(t)
    BY <1>3 DEF ToSet
  <2>2. i - 1 \in 1 .. n - 1 /\ (i - 1) + 1 = i
    BY <1>3, <2>1
  <2> QED
    BY <1>3, <2>2 DEF ToSet
<1>5. \A e \in ToSet(t) : e \in ToSet(s)
  <2>1. SUFFICES ASSUME NEW i \in 1 .. n - 1 PROVE t[i] \in ToSet(s)
    BY <1>3 DEF ToSet
  <2>2. i + 1 \in 1 .. n
    BY <1>3
  <2> QED
    BY <1>3, <2>2 DEF ToSet
<1>6. s[1] \in ToSet(s)
  <2>1. 1 \in 1 .. n
    BY <1>3
  <2> QED
    BY <1>3, <2>1 DEF ToSet
<1>7. ToSet(s) = ToSet(t) \cup {s[1]}
  BY <1>4, <1>5, <1>6
<1>8. ToSet(rest[w]) = ToSet(rest'[w]) \cup {Current(w)}
  BY <1>1, <1>2, <1>7 DEF s, t
<1>9. /\ pc'[w] \in {"idle", "load"}
      /\ pc'[w] = "idle" => rest'[w] = <<>>
  BY <1>1, <1>2
<1> QED
  BY <1>8, <1>9

LEMMA OverlapStep ==
  ASSUME ProjectionAssumption, TypeOK, NEW t, NEW later, OverlapInv(t),
         t \subseteq later, AreTogether(later)', [Next]_vars
  PROVE  OverlapInv(later)'
<1>1. CASE UNCHANGED vars
  <2>1. UNCHANGED <<Settled, InModel>> /\ \A w \in Workers : Current(w)' = Current(w)
    BY <1>1 DEF vars, Settled, Pending, InModel, Current
  <2>2. UNCHANGED <<pc, rest, local, published>>
    BY <1>1 DEF vars
  <2> QED
    BY <2>1, <2>2 DEF OverlapInv, CallOverlaps
<1>2. CASE Next
  <2>0. PICK w \in Workers : ProcessEvent(w) \/ Rebuild(w) \/ Step(w)
    BY <1>2 DEF Next
  <2>1. \A v \in Workers \ {w} : pc'[v] = pc[v] /\ rest'[v] = rest[v] /\ local'[v] = local[v]
    BY <2>0, OthersStay
  <2>2. \A v \in Workers \ {w} : Current(v)' = Current(v)
    BY <2>1 DEF Current
  <2>a. /\ pc \in [Workers -> Steps] /\ rest \in [Workers -> Seq(Position)]
        /\ local \in [Workers -> Seq(Position)]
        /\ pc[w] \notin {"idle", "reset"} => rest[w] # <<>>
    BY DEF TypeOK
  <2>b. \A v \in Workers \ {w} : pc[v] # "idle" /\ pc[w] # "idle" =>
          ToSet(rest[w]) \subseteq t /\ ToSet(rest[v]) \subseteq t
    BY DEF OverlapInv, AreTogether
  <2>c. \A v \in Workers \ {w} : pc[v] \notin {"idle", "reset"} => Current(v) \in ToSet(rest[v])
    BY RestIs DEF TypeOK
  <2>e. /\ Settled \ t \subseteq InModel /\ \A v \in Workers : CallOverlaps(v, t)
        /\ t \subseteq later
    BY DEF OverlapInv
  (* What another call has in hand is among the events t.                  *)
  <2>3. ASSUME pc[w] # "idle", UNCHANGED published,
               Settled' \subseteq Settled \cup later \cup ToSet(rest[w])
        PROVE  \A v \in Workers \ {w} : CallOverlaps(v, later)'
    <3>1. SUFFICES ASSUME NEW v \in Workers \ {w} PROVE CallOverlaps(v, later)'
      OBVIOUS
    <3>2. CallOverlaps(v, t) /\ UNCHANGED <<pc[v], rest[v], local[v], Current(v)>>
      BY <2>1, <2>2, <2>e
    <3>3. CASE pc[v] = "idle"
      BY <3>2, <3>3 DEF CallOverlaps
    <3>4. CASE pc[v] # "idle"
      <4>1. ToSet(rest[w]) \subseteq later /\ ToSet(rest[v]) \subseteq later
        BY <2>b, <2>e, <2>3, <3>4
      <4>2. pc[v] # "reset" => Current(v) \in later
        BY <2>c, <3>4, <4>1
      <4> QED
        BY <2>e, <2>3, <3>2, <3>4, <4>1, <4>2 DEF CallOverlaps
    <3> QED
      BY <3>3, <3>4
  <2>4. CASE ProcessEvent(w) \/ Rebuild(w)
    <3>1. /\ pc[w] = "idle" /\ rest[w] = <<>> /\ UNCHANGED <<stored, failed, local>>
          /\ pc'[w] \in {"load", "reset"}
      BY <2>4, <2>a, <2>e DEF ProcessEvent, Rebuild, Goto, CallOverlaps
    <3>2. \/ published' = published
          \/ published' = published + 1 /\ rest'[w] = <<published + 1>> /\ pc'[w] = "load"
      BY <2>4, <2>a DEF ProcessEvent, Rebuild, Goto
    <3>3. published \in Nat
      BY StoredIs DEF TypeOK
    <3>4. published' # published => published + 1 \in ToSet(rest'[w])
      <4>1. DOMAIN <<published + 1>> = {1} /\ <<published + 1>>[1] = published + 1
        OBVIOUS
      <4> QED
        BY <3>2, <4>1 DEF ToSet
    <3>5. /\ InModel' = InModel
          /\ \A e \in 1 .. published' : e \in 1 .. published \/ e \in ToSet(rest'[w])
      <4>1. \A e \in 1 .. published + 1 : e \in 1 .. published \/ e = published + 1
        BY <3>3
      <4> QED
        BY <3>1, <3>2, <3>4, <4>1 DEF InModel
    <3>6. Settled' \subseteq Settled
      <4>1. ToSet(rest[w]) = {}
        BY <3>1, EmptyIs
      <4>2. SUFFICES ASSUME NEW e \in Settled' PROVE e \in Settled
        OBVIOUS
      <4>3. \A v \in Workers : e \notin ToSet(rest'[v])
        BY <4>2 DEF Settled, Pending
      <4>4. e \in 1 .. published' /\ e \notin failed
        BY <3>1, <4>2 DEF Settled
      <4>5. \A v \in Workers : e \notin ToSet(rest[v])
        BY <2>1, <4>1, <4>3
      <4>6. e \in 1 .. published
        BY <3>5, <4>3, <4>4
      <4> QED
        BY <4>4, <4>5, <4>6 DEF Settled, Pending
    <3>7. CallOverlaps(w, later)'
      <4>1. CASE pc'[w] = "load"
        BY <4>1 DEF CallOverlaps
      <4>2. CASE pc'[w] = "reset"
        <5>1. /\ published' = published /\ rest'[w] = [i \in 1 .. published |-> i]
          BY <2>4, <2>a, <4>2 DEF ProcessEvent, Rebuild, Goto
        <5>2. \A e \in 1 .. published : e \in ToSet(rest'[w])
          BY <5>1 DEF ToSet
        <5> QED
          BY <4>2, <5>1, <5>2 DEF CallOverlaps
      <4> QED
        BY <3>1, <4>1, <4>2
    <3>8. ASSUME NEW v \in Workers \ {w} PROVE CallOverlaps(v, later)'
      <4>1. CallOverlaps(v, t) /\ UNCHANGED <<pc[v], rest[v], local[v], Current(v)>>
        BY <2>1, <2>2, <2>e
      <4>2. pc[v] # "idle" => ToSet(rest'[w]) \subseteq later
        BY <3>1, <4>1 DEF AreTogether
      <4>3. pc[v] = "reset" => (1 .. published') \ later \subseteq ToSet(rest[v])
        BY <2>e, <3>5, <4>1, <4>2 DEF CallOverlaps
      <4> QED
        BY <2>e, <3>5, <3>6, <4>1, <4>3 DEF CallOverlaps
    <3> QED
      BY <2>e, <3>5, <3>6, <3>7, <3>8 DEF OverlapInv
  <2>5. CASE Step(w) /\ UNCHANGED <<rest, failed, published>> /\ pc[w] # "idle"
             /\ pc'[w] # "idle" /\ InModel' = InModel
             /\ CallOverlaps(w, later)'
    <3>1. Settled' = Settled
      BY <2>5 DEF Settled, Pending
    <3>2. \A v \in Workers \ {w} : CallOverlaps(v, later)'
      BY <2>3, <2>5, <3>1
    <3> QED
      BY <2>5, <2>e, <3>1, <3>2 DEF OverlapInv
  <2>6. CASE Reset(w)
    <3>1. /\ pc[w] = "reset" /\ UNCHANGED <<published, rest, local>>
          /\ stored' = <<>> /\ failed' = {}
          /\ pc'[w] = IF rest[w] = <<>> THEN "idle" ELSE "load"
      BY <2>6, <2>a DEF Reset, Goto
    <3>2. Settled' \subseteq later
      <4>1. (1 .. published) \ t \subseteq ToSet(rest[w])
        BY <2>e, <3>1 DEF CallOverlaps
      <4> QED
        BY <2>e, <3>1, <4>1 DEF Settled, Pending
    <3>3. CallOverlaps(w, later)'
      BY <3>1 DEF CallOverlaps
    <3>4. \A v \in Workers \ {w} : CallOverlaps(v, later)'
      BY <2>3, <3>1, <3>2
    <3> QED
      BY <3>2, <3>3, <3>4 DEF OverlapInv
  <2>7. CASE Load(w)
    <3>1. /\ pc[w] = "load" /\ UNCHANGED <<stored, published, rest, failed>>
          /\ \/ stored = Nothing /\ pc'[w] = "init"
             \/ stored # Nothing /\ pc'[w] = "save" /\ local'[w] = stored
             \/ pc'[w] = "error"
      BY <2>7, <2>a DEF Load, Goto, Fail
    <3>2. Settled' = Settled /\ InModel' = InModel
      BY <3>1 DEF Settled, Pending, InModel
    <3>3. stored = Nothing => InModel = {}
      BY DEF InModel
    <3>4. stored # Nothing => InModel = ToSet(stored)
      BY DEF InModel
    <3>5. CallOverlaps(w, later)'
      BY <2>e, <3>1, <3>2, <3>3, <3>4 DEF CallOverlaps
    <3> QED
      BY <2>5, <2>7, <3>1, <3>2, <3>5 DEF Step
  <2>8. CASE InitState(w)
    <3>1. /\ pc[w] = "init" /\ UNCHANGED <<published, rest, failed>>
          /\ \/ stored' = <<>> /\ pc'[w] = "save"
             \/ pc'[w] = "error"
      BY <2>8, <2>a DEF InitState, Goto, Fail
    <3>2. Settled' = Settled /\ Settled \subseteq later
      BY <2>e, <3>1 DEF Settled, Pending, CallOverlaps
    <3>3. CallOverlaps(w, later)'
      BY <3>1, <3>2 DEF CallOverlaps
    <3>4. \A v \in Workers \ {w} : CallOverlaps(v, later)'
      BY <2>3, <3>1, <3>2
    <3> QED
      BY <3>2, <3>3, <3>4 DEF OverlapInv
  <2>9. CASE ApplyAndSave(w)
    <3>1. /\ pc[w] = "save" /\ UNCHANGED <<published, rest, failed>>
          /\ \/ stored' = Append(local[w], Current(w)) /\ pc'[w] = "after"
             \/ stored' = stored /\ pc'[w] = "error"
      BY <2>9, <2>a DEF ApplyAndSave, Goto, Fail
    <3>2. Settled' = Settled
      BY <3>1 DEF Settled, Pending
    <3>3. \A v \in Workers \ {w} : CallOverlaps(v, later)'
      BY <2>3, <3>1, <3>2
    <3>4. CASE stored' = Append(local[w], Current(w)) /\ pc'[w] = "after"
      <4>1. local[w] \in Seq(Position) /\ Current(w) \in Position
        BY <2>a, <3>1, RestIs
      <4>2. /\ stored' \in Seq(Position)
            /\ ToSet(stored') = ToSet(local[w]) \cup {Current(w)}
        BY <3>4, <4>1, AppendedIs
      <4>3. InModel' = ToSet(stored')
        <5>1. Nothing \notin Seq(Position)
          BY StoredIs
        <5> QED
          BY <4>2, <5>1 DEF InModel
      <4>4. Settled \ t \subseteq ToSet(local[w]) /\ Current(w)' = Current(w)
        BY <2>e, <3>1 DEF CallOverlaps, Current
      <4>5. CallOverlaps(w, later)'
        BY <3>4, <4>2, <4>3, <4>4 DEF CallOverlaps
      <4> QED
        BY <2>e, <3>2, <3>3, <4>2, <4>3, <4>4, <4>5 DEF OverlapInv
    <3>5. CASE stored' = stored /\ pc'[w] = "error"
      <4>1. InModel' = InModel
        BY <3>5 DEF InModel
      <4>2. CallOverlaps(w, later)'
        BY <3>5 DEF CallOverlaps
      <4> QED
        BY <2>e, <3>2, <3>3, <4>1, <4>2 DEF OverlapInv
    <3> QED
      BY <3>1, <3>4, <3>5
  <2>10. CASE Advance(w) /\ pc[w] \in {"after", "checkpoint"}
              /\ UNCHANGED <<stored, published, failed>>
    <3>1. /\ ToSet(rest[w]) = ToSet(rest'[w]) \cup {Current(w)}
          /\ pc'[w] \in {"idle", "load"}
          /\ pc'[w] = "idle" => rest'[w] = <<>>
      BY <2>10, <2>a, AdvanceTakes
    <3>2. Settled' \subseteq Settled \cup {Current(w)}
      BY <2>1, <2>10, <3>1, SettledBy
    <3>3. Current(w) \in InModel \cup t /\ InModel' = InModel
      BY <2>10, <2>e DEF CallOverlaps, InModel
    <3>4. CallOverlaps(w, later)'
      BY <3>1 DEF CallOverlaps
    <3>5. \A v \in Workers \ {w} : CallOverlaps(v, later)'
      BY <2>3, <2>10, <3>1, <3>2
    <3> QED
      BY <2>e, <3>2, <3>3, <3>4, <3>5 DEF OverlapInv
  <2>11. CASE AfterApply(w)
    <3>1. /\ pc[w] = "after" /\ UNCHANGED <<stored, published, failed>>
          /\ Advance(w) \/ (UNCHANGED rest /\ pc'[w] = "checkpoint")
      BY <2>11, <2>a DEF AfterApply, Goto
    <3>2. CASE Advance(w)
      BY <2>10, <3>1, <3>2
    <3>3. CASE UNCHANGED rest /\ pc'[w] = "checkpoint"
      <4>1. InModel' = InModel /\ Current(w)' = Current(w)
        BY <3>1, <3>3 DEF InModel, Current
      <4>2. CallOverlaps(w, later)'
        BY <2>e, <3>1, <3>3, <4>1 DEF CallOverlaps
      <4> QED
        BY <2>5, <2>11, <3>1, <3>3, <4>1, <4>2 DEF Step
    <3> QED
      BY <3>1, <3>2, <3>3
  <2>12. CASE SaveCheckpoint(w)
    <3>1. /\ pc[w] = "checkpoint" /\ UNCHANGED <<stored, published, failed>>
          /\ Advance(w) \/ (UNCHANGED rest /\ pc'[w] = "error")
      BY <2>12, <2>a DEF SaveCheckpoint, Goto, Fail
    <3>2. CASE Advance(w)
      BY <2>10, <3>1, <3>2
    <3>3. CASE UNCHANGED rest /\ pc'[w] = "error"
      <4>1. InModel' = InModel
        BY <3>1 DEF InModel
      <4>2. CallOverlaps(w, later)'
        BY <3>3 DEF CallOverlaps
      <4> QED
        BY <2>5, <2>12, <3>1, <3>3, <4>1, <4>2 DEF Step
    <3> QED
      BY <3>1, <3>2, <3>3
  <2>13. CASE Retry(w)
    <3>1. /\ pc[w] = "error" /\ pc'[w] = "load"
          /\ UNCHANGED <<stored, published, rest, failed>>
      BY <2>13, <2>a DEF Retry, Goto
    <3>2. InModel' = InModel /\ CallOverlaps(w, later)'
      BY <3>1 DEF InModel, CallOverlaps
    <3> QED
      BY <2>5, <2>13, <3>1, <3>2 DEF Step
  <2>14. CASE GiveUp(w)
    <3>1. /\ pc[w] = "error" /\ pc'[w] = "idle" /\ rest'[w] = <<>>
          /\ UNCHANGED <<stored, published>> /\ failed' = failed \cup ToSet(rest[w])
      BY <2>14, <2>a DEF GiveUp, Goto
    <3>2. Settled' \subseteq Settled \cup {}
      BY <2>1, <3>1, SettledBy
    <3>3. InModel' = InModel /\ CallOverlaps(w, later)'
      BY <3>1 DEF InModel, CallOverlaps
    <3>4. \A v \in Workers \ {w} : CallOverlaps(v, later)'
      BY <2>3, <3>1, <3>2
    <3> QED
      BY <2>e, <3>2, <3>3, <3>4 DEF OverlapInv
  <2> QED
    BY <2>0, <2>4, <2>6, <2>7, <2>8, <2>9, <2>11, <2>12, <2>13, <2>14 DEF Step
<1> QED
  BY <1>1, <1>2

(* Without the checkpoint capability no call saves a checkpoint.           *)
NoCheckpoints == \A w \in Workers : pc[w] # "checkpoint"

LEMMA NoneIsSaved ==
  ASSUME Interval = 0, TypeOK, NoCheckpoints, [Next]_vars
  PROVE  NoCheckpoints' /\ checkpoint' = checkpoint
<1>1. CASE UNCHANGED vars
  BY <1>1 DEF vars, NoCheckpoints
<1>2. CASE Next
  <2>1. PICK w \in Workers : ProcessEvent(w) \/ Rebuild(w) \/ Step(w)
    BY <1>2 DEF Next
  <2>2. pc \in [Workers -> Steps]
    BY DEF TypeOK
  <2>3. pc'[w] # "checkpoint" /\ checkpoint' = checkpoint
    BY <2>1, <2>2 DEF NoCheckpoints, ProcessEvent, Rebuild, Step, Reset, Load, InitState,
       ApplyAndSave, AfterApply, SaveCheckpoint, Retry, GiveUp, Advance, Fail, Goto
  <2> QED
    BY <2>1, <2>3, OthersStay DEF NoCheckpoints
<1> QED
  BY <1>1, <1>2

=============================================================================
