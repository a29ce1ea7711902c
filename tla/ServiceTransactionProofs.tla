------------------------ MODULE ServiceTransactionProofs ------------------------
(***************************************************************************)
(* Proofs about executeInTransaction, as long as the unit of work of the   *)
(* service was not changed, for any calls, units and faults; and about how *)
(* services are put together, for any services, registries and builders.   *)
(***************************************************************************)
EXTENDS MCServices, SequenceTheorems, TLAPS

\* A call in its transaction holds the unit of the field, and nobody else holds a unit
\* but a call whose rollback failed.
Holds ==
  /\ changes = 0
  /\ \A u \in Units : open[u] # "none" => u = field
  /\ \A c \in Calls :
       /\ pc[c] # "ready" /\ pc[c] # "refused" => field \in Units /\ began[c] = field
       /\ pc[c] \in {"operating", "catching"} => open[field] = c
       /\ pc[c] \in {"ready", "beginning", "refused", "operating", "catching"} => ended[c] = "no"
Inv == TypeOK /\ Holds /\ Closed /\ Outcomes

\* The inductive invariant: all of it as long as the field was not changed.
UnlessChanged == changes \in Nat /\ (changes = 0 => Inv)

LEMMA InitHolds == Init => Inv
  <1> SUFFICES ASSUME Init PROVE Inv OBVIOUS
  <1> USE DEF Init
  <1>1. TypeOK BY TransactionAssumption DEF TypeOK
  <1>2. Holds BY DEF Holds
  <1>3. Closed BY DEF Closed
  <1>4. Outcomes BY DEF Outcomes
  <1> QED BY <1>1, <1>2, <1>3, <1>4 DEF Inv

LEMMA FaultBounded == ASSUME faults \in 0..MaxFaults, Fault \/ UNCHANGED faults PROVE faults' \in 0..MaxFaults
  BY TransactionAssumption DEF Fault

LEMMA StepKeeps == ASSUME Inv, NEW c \in Calls, Step(c) PROVE Inv'
  <1> USE TransactionAssumption
  <1> USE DEF Goto, Fault, Refuses, EndsOn
  <1>0. UNCHANGED <<field, changes>>
    BY DEF Step, NotSet, Begin, Began, BeginRejects, OperationResolves, OperationRejects, Rollback
  <1>t. \A u \in Units : open[u] # "none" =>
          open[u] \in Calls /\ pc[open[u]] \in {"operating", "catching", "masked"}
    <2> SUFFICES ASSUME NEW u \in Units, open[u] # "none"
                 PROVE open[u] \in Calls /\ pc[open[u]] \in {"operating", "catching", "masked"}
      OBVIOUS
    <2>1. open[u] \in Calls \union {"none"} BY DEF Inv, TypeOK
    <2>2. pc[open[u]] \in {"operating", "catching", "masked"} BY DEF Inv, Closed
    <2> QED BY <2>1, <2>2
  <1> USE DEF Inv, Holds
  <1>1. CASE NotSet(c)
    <2>0. faults' \in 0..MaxFaults
      <3>1. Fault \/ UNCHANGED faults BY <1>1 DEF NotSet
      <3> QED BY <3>1, FaultBounded DEF TypeOK
    <2>1. TypeOK' BY <1>0, <1>1, <2>0 DEF NotSet, TypeOK
    <2>2. Holds'
      <3>0. \A u \in Units : open'[u] # "none" => u = field BY <1>0, <1>1 DEF NotSet, TypeOK
      <3> SUFFICES ASSUME NEW d \in Calls PROVE
            /\ (pc[d] # "ready" /\ pc[d] # "refused" => field \in Units /\ began[d] = field)'
            /\ (pc[d] \in {"operating", "catching"} => open[field] = d)'
            /\ (pc[d] \in {"ready", "beginning", "refused", "operating", "catching"} => ended[d] = "no")'
        BY <1>0, <3>0
      <3>1. CASE d = c BY <1>0, <1>1, <3>1 DEF NotSet, TypeOK
      <3>2. CASE d # c BY <1>0, <1>1, <3>2 DEF NotSet, TypeOK
      <3> QED BY <3>1, <3>2
    <2>3. Closed'
      <3> SUFFICES ASSUME NEW u \in Units, open'[u] # "none"
                   PROVE pc'[open'[u]] \in {"operating", "catching", "masked"}
        BY DEF Closed
      <3>1. CASE open'[u] = open[u]
        <4>1. open[u] \in Calls /\ pc[open[u]] \in {"operating", "catching", "masked"}
          BY <1>t, <3>1
        <4>2. CASE open[u] = c BY <4>1, <4>2, <3>1, <1>0, <1>1 DEF NotSet, TypeOK
        <4>3. CASE open[u] # c BY <4>1, <4>3, <3>1, <1>0, <1>1 DEF NotSet, TypeOK
        <4> QED BY <4>2, <4>3
      <3>2. CASE open'[u] # open[u] BY <3>2, <1>0, <1>1 DEF NotSet, TypeOK
      <3> QED BY <3>1, <3>2
    <2>4. Outcomes' BY <1>0, <1>1 DEF NotSet, TypeOK, Outcomes
    <2> QED BY <2>1, <2>2, <2>3, <2>4
  <1>2. CASE Begin(c)
    <2>0. faults' \in 0..MaxFaults
      <3>1. Fault \/ UNCHANGED faults BY <1>2 DEF Begin
      <3> QED BY <3>1, FaultBounded DEF TypeOK
    <2>1. TypeOK' BY <1>0, <1>2, <2>0 DEF Begin, TypeOK
    <2>2. Holds'
      <3>0. \A u \in Units : open'[u] # "none" => u = field BY <1>0, <1>2 DEF Begin, TypeOK
      <3> SUFFICES ASSUME NEW d \in Calls PROVE
            /\ (pc[d] # "ready" /\ pc[d] # "refused" => field \in Units /\ began[d] = field)'
            /\ (pc[d] \in {"operating", "catching"} => open[field] = d)'
            /\ (pc[d] \in {"ready", "beginning", "refused", "operating", "catching"} => ended[d] = "no")'
        BY <1>0, <3>0
      <3>1. CASE d = c BY <1>0, <1>2, <3>1 DEF Begin, TypeOK
      <3>2. CASE d # c BY <1>0, <1>2, <3>2 DEF Begin, TypeOK
      <3> QED BY <3>1, <3>2
    <2>3. Closed'
      <3> SUFFICES ASSUME NEW u \in Units, open'[u] # "none"
                   PROVE pc'[open'[u]] \in {"operating", "catching", "masked"}
        BY DEF Closed
      <3>1. CASE open'[u] = open[u]
        <4>1. open[u] \in Calls /\ pc[open[u]] \in {"operating", "catching", "masked"}
          BY <1>t, <3>1
        <4>2. CASE open[u] = c BY <4>1, <4>2, <3>1, <1>0, <1>2 DEF Begin, TypeOK
        <4>3. CASE open[u] # c BY <4>1, <4>3, <3>1, <1>0, <1>2 DEF Begin, TypeOK
        <4> QED BY <4>2, <4>3
      <3>2. CASE open'[u] # open[u] BY <3>2, <1>0, <1>2 DEF Begin, TypeOK
      <3> QED BY <3>1, <3>2
    <2>4. Outcomes' BY <1>0, <1>2 DEF Begin, TypeOK, Outcomes
    <2> QED BY <2>1, <2>2, <2>3, <2>4
  <1>3. CASE Began(c)
    <2>0. faults' \in 0..MaxFaults
      <3>1. Fault \/ UNCHANGED faults BY <1>3 DEF Began
      <3> QED BY <3>1, FaultBounded DEF TypeOK
    <2>1. TypeOK' BY <1>0, <1>3, <2>0 DEF Began, TypeOK
    <2>2. Holds'
      <3>0. \A u \in Units : open'[u] # "none" => u = field BY <1>0, <1>3 DEF Began, TypeOK
      <3> SUFFICES ASSUME NEW d \in Calls PROVE
            /\ (pc[d] # "ready" /\ pc[d] # "refused" => field \in Units /\ began[d] = field)'
            /\ (pc[d] \in {"operating", "catching"} => open[field] = d)'
            /\ (pc[d] \in {"ready", "beginning", "refused", "operating", "catching"} => ended[d] = "no")'
        BY <1>0, <3>0
      <3>1. CASE d = c
        <4>1. pc[c] = "beginning" /\ open' = [open EXCEPT ![began[c]] = c] /\ pc' = [pc EXCEPT ![c] = "operating"]
              /\ UNCHANGED <<field, ended, began>>
          BY <1>3 DEF Began, Goto
        <4>2. field \in Units /\ began[c] = field /\ ended[c] = "no" BY <1>0, <4>1
        <4>3. open'[field] = c /\ pc'[c] = "operating" BY <4>1, <4>2 DEF TypeOK
        <4> QED BY <3>1, <4>1, <4>2, <4>3
      <3>2. CASE d # c
        <4>1. open[field] = "none" BY <1>3 DEF Began
        <4>2. pc[d] \notin {"operating", "catching"} BY <4>1
        <4> QED BY <1>0, <1>3, <3>2, <4>2 DEF Began, TypeOK
      <3> QED BY <3>1, <3>2
    <2>3. Closed'
      <3> SUFFICES ASSUME NEW u \in Units, open'[u] # "none"
                   PROVE pc'[open'[u]] \in {"operating", "catching", "masked"}
        BY DEF Closed
      <3>1. CASE open'[u] = open[u]
        <4>1. open[u] \in Calls /\ pc[open[u]] \in {"operating", "catching", "masked"}
          BY <1>t, <3>1
        <4>2. CASE open[u] = c BY <4>1, <4>2, <3>1, <1>0, <1>3 DEF Began, TypeOK
        <4>3. CASE open[u] # c BY <4>1, <4>3, <3>1, <1>0, <1>3 DEF Began, TypeOK
        <4> QED BY <4>2, <4>3
      <3>2. CASE open'[u] # open[u] BY <3>2, <1>0, <1>3 DEF Began, TypeOK
      <3> QED BY <3>1, <3>2
    <2>4. Outcomes' BY <1>0, <1>3 DEF Began, TypeOK, Outcomes
    <2> QED BY <2>1, <2>2, <2>3, <2>4
  <1>4. CASE BeginRejects(c)
    <2>0. faults' \in 0..MaxFaults
      <3>1. Fault \/ UNCHANGED faults BY <1>4 DEF BeginRejects
      <3> QED BY <3>1, FaultBounded DEF TypeOK
    <2>1. TypeOK' BY <1>0, <1>4, <2>0 DEF BeginRejects, TypeOK
    <2>2. Holds'
      <3>0. \A u \in Units : open'[u] # "none" => u = field BY <1>0, <1>4 DEF BeginRejects, TypeOK
      <3> SUFFICES ASSUME NEW d \in Calls PROVE
            /\ (pc[d] # "ready" /\ pc[d] # "refused" => field \in Units /\ began[d] = field)'
            /\ (pc[d] \in {"operating", "catching"} => open[field] = d)'
            /\ (pc[d] \in {"ready", "beginning", "refused", "operating", "catching"} => ended[d] = "no")'
        BY <1>0, <3>0
      <3>1. CASE d = c BY <1>0, <1>4, <3>1 DEF BeginRejects, TypeOK
      <3>2. CASE d # c BY <1>0, <1>4, <3>2 DEF BeginRejects, TypeOK
      <3> QED BY <3>1, <3>2
    <2>3. Closed'
      <3> SUFFICES ASSUME NEW u \in Units, open'[u] # "none"
                   PROVE pc'[open'[u]] \in {"operating", "catching", "masked"}
        BY DEF Closed
      <3>1. CASE open'[u] = open[u]
        <4>1. open[u] \in Calls /\ pc[open[u]] \in {"operating", "catching", "masked"}
          BY <1>t, <3>1
        <4>2. CASE open[u] = c BY <4>1, <4>2, <3>1, <1>0, <1>4 DEF BeginRejects, TypeOK
        <4>3. CASE open[u] # c BY <4>1, <4>3, <3>1, <1>0, <1>4 DEF BeginRejects, TypeOK
        <4> QED BY <4>2, <4>3
      <3>2. CASE open'[u] # open[u] BY <3>2, <1>0, <1>4 DEF BeginRejects, TypeOK
      <3> QED BY <3>1, <3>2
    <2>4. Outcomes' BY <1>0, <1>4 DEF BeginRejects, TypeOK, Outcomes
    <2> QED BY <2>1, <2>2, <2>3, <2>4
  <1>5. CASE OperationResolves(c)
    <2>0. faults' \in 0..MaxFaults
      <3>1. Fault \/ UNCHANGED faults BY <1>5 DEF OperationResolves
      <3> QED BY <3>1, FaultBounded DEF TypeOK
    <2>a. field \in Units /\ open[field] = c /\ c # "none" /\ pc[c] = "operating" BY <1>5 DEF OperationResolves
    <2>b. \/ /\ open' = [open EXCEPT ![field] = "none"]
             /\ ended' = [ended EXCEPT ![c] = "committed"]
             /\ pc' = [pc EXCEPT ![c] = "resolved"]
          \/ /\ UNCHANGED <<open, ended>>
             /\ pc' = [pc EXCEPT ![c] = "catching"]
      BY <1>5, <2>a DEF OperationResolves
    <2>c. UNCHANGED <<began, worked>> BY <1>5 DEF OperationResolves
    <2>d. /\ open' \in [Units -> Calls \union {"none"}]
          /\ ended' \in [Calls -> {"no", "committed", "rolled back"}]
          /\ pc' \in [Calls -> {"ready", "beginning", "operating", "catching",
                              "resolved", "rejected", "masked", "refused"}]
      <3>1. open' \in [Units -> Calls \union {"none"}] BY <2>b DEF TypeOK
      <3>2. ended' \in [Calls -> {"no", "committed", "rolled back"}] BY <2>b DEF TypeOK
      <3>3. pc' \in [Calls -> {"ready", "beginning", "operating", "catching",
                              "resolved", "rejected", "masked", "refused"}] BY <2>b DEF TypeOK
      <3> QED BY <3>1, <3>2, <3>3
    <2>e. \A u \in Units : open'[u] \in {open[u], "none"} BY <2>b DEF TypeOK
    <2>f. \A d \in Calls \ {c} : pc'[d] = pc[d] /\ ended'[d] = ended[d] BY <2>b DEF TypeOK
    <2>g. \/ pc'[c] = "resolved" /\ ended'[c] = "committed" /\ open'[field] = "none"
          \/ pc'[c] = "catching" /\ open' = open /\ ended' = ended
      BY <2>a, <2>b DEF TypeOK
    <2>1. TypeOK' BY <1>0, <2>a, <2>c, <2>d, <2>0 DEF TypeOK
    <2>2. Holds'
      <3>0. \A u \in Units : open'[u] # "none" => u = field BY <1>0, <2>a, <2>e DEF TypeOK
      <3> SUFFICES ASSUME NEW d \in Calls PROVE
            /\ (pc[d] # "ready" /\ pc[d] # "refused" => field \in Units /\ began[d] = field)'
            /\ (pc[d] \in {"operating", "catching"} => open[field] = d)'
            /\ (pc[d] \in {"ready", "beginning", "refused", "operating", "catching"} => ended[d] = "no")'
        BY <1>0, <3>0
      <3>1. CASE d = c BY <1>0, <1>5, <3>1 DEF OperationResolves, TypeOK
      <3>2. CASE d # c BY <1>0, <1>5, <3>2 DEF OperationResolves, TypeOK
      <3> QED BY <3>1, <3>2
    <2>3. Closed'
      <3> SUFFICES ASSUME NEW u \in Units, open'[u] # "none"
                   PROVE pc'[open'[u]] \in {"operating", "catching", "masked"}
        BY DEF Closed
      <3>1. CASE open'[u] = open[u]
        <4>1. open[u] \in Calls /\ pc[open[u]] \in {"operating", "catching", "masked"}
          BY <1>t, <3>1
        <4>2. CASE open[u] = c BY <4>1, <4>2, <3>1, <1>0, <2>a, <2>c, <2>d, <2>e, <2>f, <2>g DEF TypeOK
        <4>3. CASE open[u] # c BY <4>1, <4>3, <3>1, <1>0, <2>a, <2>c, <2>d, <2>e, <2>f, <2>g DEF TypeOK
        <4> QED BY <4>2, <4>3
      <3>2. CASE open'[u] # open[u] BY <3>2, <1>0, <2>a, <2>c, <2>d, <2>e, <2>f, <2>g DEF TypeOK
      <3> QED BY <3>1, <3>2
    <2>4. Outcomes' BY <1>0, <2>a, <2>c, <2>d, <2>e, <2>f, <2>g DEF TypeOK, Outcomes
    <2> QED BY <2>1, <2>2, <2>3, <2>4
  <1>6. CASE OperationRejects(c)
    <2>0. faults' \in 0..MaxFaults
      <3>1. Fault \/ UNCHANGED faults BY <1>6 DEF OperationRejects
      <3> QED BY <3>1, FaultBounded DEF TypeOK
    <2>1. TypeOK' BY <1>0, <1>6, <2>0 DEF OperationRejects, TypeOK
    <2>2. Holds'
      <3>0. \A u \in Units : open'[u] # "none" => u = field BY <1>0, <1>6 DEF OperationRejects, TypeOK
      <3> SUFFICES ASSUME NEW d \in Calls PROVE
            /\ (pc[d] # "ready" /\ pc[d] # "refused" => field \in Units /\ began[d] = field)'
            /\ (pc[d] \in {"operating", "catching"} => open[field] = d)'
            /\ (pc[d] \in {"ready", "beginning", "refused", "operating", "catching"} => ended[d] = "no")'
        BY <1>0, <3>0
      <3>1. CASE d = c BY <1>0, <1>6, <3>1 DEF OperationRejects, TypeOK
      <3>2. CASE d # c BY <1>0, <1>6, <3>2 DEF OperationRejects, TypeOK
      <3> QED BY <3>1, <3>2
    <2>3. Closed'
      <3> SUFFICES ASSUME NEW u \in Units, open'[u] # "none"
                   PROVE pc'[open'[u]] \in {"operating", "catching", "masked"}
        BY DEF Closed
      <3>1. CASE open'[u] = open[u]
        <4>1. open[u] \in Calls /\ pc[open[u]] \in {"operating", "catching", "masked"}
          BY <1>t, <3>1
        <4>2. CASE open[u] = c BY <4>1, <4>2, <3>1, <1>0, <1>6 DEF OperationRejects, TypeOK
        <4>3. CASE open[u] # c BY <4>1, <4>3, <3>1, <1>0, <1>6 DEF OperationRejects, TypeOK
        <4> QED BY <4>2, <4>3
      <3>2. CASE open'[u] # open[u] BY <3>2, <1>0, <1>6 DEF OperationRejects, TypeOK
      <3> QED BY <3>1, <3>2
    <2>4. Outcomes' BY <1>0, <1>6 DEF OperationRejects, TypeOK, Outcomes
    <2> QED BY <2>1, <2>2, <2>3, <2>4
  <1>7. CASE Rollback(c)
    <2>0. faults' \in 0..MaxFaults
      <3>1. Fault \/ UNCHANGED faults BY <1>7 DEF Rollback
      <3> QED BY <3>1, FaultBounded DEF TypeOK
    <2>a. field \in Units /\ open[field] = c /\ c # "none" /\ pc[c] = "catching" BY <1>7 DEF Rollback
    <2>b. \/ /\ open' = [open EXCEPT ![field] = "none"]
             /\ ended' = [ended EXCEPT ![c] = "rolled back"]
             /\ pc' = [pc EXCEPT ![c] = "rejected"]
          \/ /\ UNCHANGED <<open, ended>>
             /\ pc' = [pc EXCEPT ![c] = "masked"]
      BY <1>7, <2>a DEF Rollback
    <2>c. UNCHANGED <<began, worked>> BY <1>7 DEF Rollback
    <2>d. /\ open' \in [Units -> Calls \union {"none"}]
          /\ ended' \in [Calls -> {"no", "committed", "rolled back"}]
          /\ pc' \in [Calls -> {"ready", "beginning", "operating", "catching",
                              "resolved", "rejected", "masked", "refused"}]
      <3>1. open' \in [Units -> Calls \union {"none"}] BY <2>b DEF TypeOK
      <3>2. ended' \in [Calls -> {"no", "committed", "rolled back"}] BY <2>b DEF TypeOK
      <3>3. pc' \in [Calls -> {"ready", "beginning", "operating", "catching",
                              "resolved", "rejected", "masked", "refused"}] BY <2>b DEF TypeOK
      <3> QED BY <3>1, <3>2, <3>3
    <2>e. \A u \in Units : open'[u] \in {open[u], "none"} BY <2>b DEF TypeOK
    <2>f. \A d \in Calls \ {c} : pc'[d] = pc[d] /\ ended'[d] = ended[d] BY <2>b DEF TypeOK
    <2>g. \/ pc'[c] = "rejected" /\ ended'[c] = "rolled back" /\ open'[field] = "none"
          \/ pc'[c] = "masked" /\ open' = open /\ ended' = ended
      BY <2>a, <2>b DEF TypeOK
    <2>1. TypeOK' BY <1>0, <2>a, <2>c, <2>d, <2>0 DEF TypeOK
    <2>2. Holds'
      <3>0. \A u \in Units : open'[u] # "none" => u = field BY <1>0, <2>a, <2>e DEF TypeOK
      <3> SUFFICES ASSUME NEW d \in Calls PROVE
            /\ (pc[d] # "ready" /\ pc[d] # "refused" => field \in Units /\ began[d] = field)'
            /\ (pc[d] \in {"operating", "catching"} => open[field] = d)'
            /\ (pc[d] \in {"ready", "beginning", "refused", "operating", "catching"} => ended[d] = "no")'
        BY <1>0, <3>0
      <3>1. CASE d = c BY <1>0, <1>7, <3>1 DEF Rollback, TypeOK
      <3>2. CASE d # c BY <1>0, <1>7, <3>2 DEF Rollback, TypeOK
      <3> QED BY <3>1, <3>2
    <2>3. Closed'
      <3> SUFFICES ASSUME NEW u \in Units, open'[u] # "none"
                   PROVE pc'[open'[u]] \in {"operating", "catching", "masked"}
        BY DEF Closed
      <3>1. CASE open'[u] = open[u]
        <4>1. open[u] \in Calls /\ pc[open[u]] \in {"operating", "catching", "masked"}
          BY <1>t, <3>1
        <4>2. CASE open[u] = c BY <4>1, <4>2, <3>1, <1>0, <2>a, <2>c, <2>d, <2>e, <2>f, <2>g DEF TypeOK
        <4>3. CASE open[u] # c BY <4>1, <4>3, <3>1, <1>0, <2>a, <2>c, <2>d, <2>e, <2>f, <2>g DEF TypeOK
        <4> QED BY <4>2, <4>3
      <3>2. CASE open'[u] # open[u] BY <3>2, <1>0, <2>a, <2>c, <2>d, <2>e, <2>f, <2>g DEF TypeOK
      <3> QED BY <3>1, <3>2
    <2>4. Outcomes' BY <1>0, <2>a, <2>c, <2>d, <2>e, <2>f, <2>g DEF TypeOK, Outcomes
    <2> QED BY <2>1, <2>2, <2>3, <2>4
  <1> QED BY <1>1, <1>2, <1>3, <1>4, <1>5, <1>6, <1>7 DEF Step

LEMMA WorkKeeps == ASSUME Inv, NEW c \in Calls, Work(c) PROVE Inv'
  <1>1. UNCHANGED <<field, open, ended, pc, began, changes, faults>> BY DEF Work
  <1>2. worked' \in [Calls -> SUBSET Units]
    <2>1. field \in Units BY DEF Work, Inv, TypeOK
    <2> QED BY <2>1 DEF Work, Inv, TypeOK
  <1>3. TypeOK' BY <1>1, <1>2 DEF Inv, TypeOK
  <1>4. Holds' BY <1>1 DEF Inv, Holds
  <1>5. Closed' BY <1>1 DEF Inv, Closed
  <1>6. Outcomes' BY <1>1 DEF Inv, Outcomes
  <1> QED BY <1>3, <1>4, <1>5, <1>6 DEF Inv

LEMMA InvIsKept == ASSUME UnlessChanged, [Next]_vars PROVE UnlessChanged'
  <1> USE DEF UnlessChanged
  <1>1. ASSUME NEW u \in Units, SetUnitOfWork(u) PROVE UnlessChanged'
    BY <1>1 DEF SetUnitOfWork
  <1>2. CASE ClearUnitOfWork
    BY <1>2 DEF ClearUnitOfWork
  <1>3. CASE UNCHANGED vars
    BY <1>3 DEF vars, Inv, TypeOK, Holds, Closed, Outcomes
  <1>4. ASSUME NEW c \in Calls, Step(c) \/ Work(c) PROVE UnlessChanged'
    <2>1. UNCHANGED changes
      BY <1>4 DEF Step, Work, NotSet, Begin, Began, BeginRejects, OperationResolves, OperationRejects, Rollback
    <2>2. CASE changes = 0
      <3>1. Inv' BY <1>4, <2>2, StepKeeps, WorkKeeps
      <3> QED BY <2>1, <3>1
    <2>3. CASE changes # 0 BY <2>1, <2>3
    <2> QED BY <2>2, <2>3
  <1> QED BY <1>1, <1>2, <1>3, <1>4 DEF Next

----------------------------------------------------------------------------
\* While the field was not changed, every variable keeps its type, a call in its transaction
\* holds the unit of the field, and the outcomes are told (executeInTransaction).
THEOREM Invariance == Spec => []UnlessChanged
  <1>1. Init => UnlessChanged BY InitHolds DEF Init, UnlessChanged
  <1> QED BY <1>1, InvIsKept, PTL DEF Spec

\* A call of executeInTransaction that resolves has committed its transaction, one that rejects
\* with the error of the operation has rolled it back, and neither leaves one in progress, for
\* any number of overlapping calls, units and faults, as long as the field was not changed.
THEOREM OutcomeTold == Spec => []OutcomeIsTold
  <1>1. UnlessChanged => OutcomeIsTold BY DEF UnlessChanged, Inv, OutcomeIsTold
  <1> QED BY <1>1, Invariance, PTL

\* A call works in the transaction it began and ends no other, under the same condition.
THEOREM OnOwn == Spec => KeepsToItsOwn
  <1>1. ASSUME UnlessChanged, [Next]_vars PROVE [changes' = 0 => OnItsOwn]_vars
    <2> SUFFICES ASSUME Next, changes' = 0, NEW c \in Calls
                 PROVE /\ ended'[c] # ended[c] => pc[c] \in {"operating", "catching"} /\ pc'[c] # pc[c]
                       /\ worked'[c] # worked[c] => open[field] = c
      BY <1>1 DEF OnItsOwn
    <2>0. PICK d \in Calls : Step(d) \/ Work(d)
      BY <1>1 DEF Next, SetUnitOfWork, ClearUnitOfWork, UnlessChanged
    <2>1. changes = 0 /\ Inv
      BY <1>1, <2>0 DEF UnlessChanged, Step, Work, NotSet, Begin, Began, BeginRejects,
                        OperationResolves, OperationRejects, Rollback
    <2>2. CASE Work(d) BY <2>1, <2>2 DEF Work, Inv, TypeOK, Holds
    <2>3. CASE Step(d)
      <3>0. UNCHANGED worked
        BY <2>3 DEF Step, NotSet, Begin, Began, BeginRejects, OperationResolves, OperationRejects, Rollback
      <3>1. CASE OperationResolves(d)
        <4>1. pc[d] = "operating" /\ field \in Units /\ open[field] = d
          BY <2>1, <3>1 DEF OperationResolves, Inv, Holds
        <4>2. \/ UNCHANGED ended
              \/ ended' = [ended EXCEPT ![d] = "committed"] /\ pc' = [pc EXCEPT ![d] = "resolved"]
          BY <3>1, <4>1 DEF OperationResolves, EndsOn, Refuses, Goto
        <4> QED BY <2>1, <3>0, <4>1, <4>2 DEF Inv, TypeOK
      <3>2. CASE Rollback(d)
        <4>1. pc[d] = "catching" /\ field \in Units /\ open[field] = d
          BY <2>1, <3>2 DEF Rollback, Inv, Holds
        <4>2. \/ UNCHANGED ended
              \/ ended' = [ended EXCEPT ![d] = "rolled back"] /\ pc' = [pc EXCEPT ![d] = "rejected"]
          BY <3>2, <4>1 DEF Rollback, EndsOn, Refuses, Goto
        <4> QED BY <2>1, <3>0, <4>1, <4>2 DEF Inv, TypeOK
      <3>3. CASE NotSet(d) \/ Begin(d) \/ Began(d) \/ BeginRejects(d) \/ OperationRejects(d)
        BY <3>0, <3>3 DEF NotSet, Begin, Began, BeginRejects, OperationRejects
      <3> QED BY <2>3, <3>1, <3>2, <3>3 DEF Step
    <2> QED BY <2>0, <2>2, <2>3
  <1>2. UnlessChanged /\ [Next]_vars => [changes' = 0 => OnItsOwn]_vars BY <1>1
  <1> QED BY <1>2, Invariance, PTL DEF Spec, KeepsToItsOwn

----------------------------------------------------------------------------
(* How services are put together. *)

RegistryRoot == [registry : Nat, bus : Nat, unit : Nat]
Builder == [registry : Nat, id : Services, bus : Nat, unit : Nat, dependencies : Seq(Nat)]
Built   == [id : Services, bus : Nat, unit : Nat, dependencies : Seq(Nat)]
Telling == [bus : Seq(Nat), unit : Seq(Nat), dependency : Seq(Nat)]

\* What was said last holds, and the dependencies are all that were said.
Follows(builder, telling) ==
  /\ telling.bus # <<>> /\ builder.bus = Building!Last(telling.bus)
  /\ telling.unit # <<>> /\ builder.unit = Building!Last(telling.unit)
  /\ builder.dependencies = telling.dependency

\* A service took what its builder had then, as far as it has the setter for it.
MadeOf(service, telling) ==
  /\ service.dependencies = telling.dependency
  /\ "unit" \in Aware[service.id] => service.unit = Building!Last(telling.unit)
  /\ "bus" \in Aware[service.id] =>
       \/ /\ "unit" \in Aware[service.id] /\ service.unit # 0
          /\ service.bus = Building!BusOfUnit(service.unit)
       \/ /\ "unit" \notin Aware[service.id] \/ Building!Last(telling.unit) = 0
          /\ service.bus = Building!Last(telling.bus)

RegistriesInv ==
  /\ serviceRegistries \in Seq([Services -> Nat])
  /\ \A r \in 1 .. Len(serviceRegistries), s \in Services :
       serviceRegistries[r][s] \in 0 .. Len(built)
  /\ globally \in 0 .. Len(serviceRegistries) /\ given \in Nat
  /\ roots \in Seq(RegistryRoot)
  /\ \A r \in 1 .. Len(roots) : roots[r].registry \in 1 .. Len(serviceRegistries)

BuildersInv ==
  /\ builders \in Seq(Builder) /\ told \in Seq(Telling) /\ Len(told) = Len(builders)
  /\ \A b \in 1 .. Len(builders) : /\ builders[b].registry \in 1 .. Len(serviceRegistries)
                                   /\ Follows(builders[b], told[b])

ServicesInv ==
  /\ built \in Seq(Built) /\ tellings \in Seq(Telling) /\ Len(tellings) = Len(built)
  /\ \A i \in 1 .. Len(built) : MadeOf(built[i], tellings[i])

BuildingInv == RegistriesInv /\ BuildersInv /\ ServicesInv

LEMMA LastSaid ==
  ASSUME NEW T, NEW s \in Seq(T), NEW e \in T
  PROVE  Append(s, e) # <<>> /\ Building!Last(Append(s, e)) = e
<1>1. Len(Append(s, e)) = Len(s) + 1 /\ Append(s, e)[Len(s) + 1] = e
  BY AppendProperties
<1>2. Len(s) \in Nat /\ Len(<<>>) = 0
  BY LenProperties
<1> QED
  BY <1>1, <1>2 DEF Building!Last

\* One entry more, of which the property holds that holds of the others.
LEMMA OneMore ==
  ASSUME NEW T, NEW s \in Seq(T), NEW e \in T
  PROVE  /\ Append(s, e) \in Seq(T) /\ Len(Append(s, e)) = Len(s) + 1 /\ Len(s) \in Nat
         /\ \A i \in 1 .. Len(s) : Append(s, e)[i] = s[i]
         /\ Append(s, e)[Len(s) + 1] = e
         /\ \A i \in 1 .. Len(s) + 1 : i \in 1 .. Len(s) \/ i = Len(s) + 1
<1>1. Len(s) \in Nat
  BY LenProperties
<1> QED
  BY <1>1, AppendProperties

LEMMA OneChanged ==
  ASSUME NEW T, NEW s \in Seq(T), NEW k \in 1 .. Len(s), NEW e \in T
  PROVE  /\ [s EXCEPT ![k] = e] \in Seq(T) /\ Len([s EXCEPT ![k] = e]) = Len(s)
         /\ \A i \in 1 .. Len(s) : [s EXCEPT ![k] = e][i] = IF i = k THEN e ELSE s[i]
<1>1. Len(s) \in Nat /\ s \in [1 .. Len(s) -> T]
  BY LenProperties
<1>2. [s EXCEPT ![k] = e] \in [1 .. Len(s) -> T]
  BY <1>1
<1> QED
  BY <1>1, <1>2

\* What is said once more.
LEMMA Said ==
  ASSUME NEW telling \in Telling, NEW what \in {"bus", "unit", "dependency"}, NEW i \in Nat
  PROVE  LET now == Building!Saying(telling, what, i)
         IN  /\ now \in Telling
             /\ now.bus = IF what = "bus" THEN Append(telling.bus, i) ELSE telling.bus
             /\ now.unit = IF what = "unit" THEN Append(telling.unit, i) ELSE telling.unit
             /\ now.dependency = IF what = "dependency" THEN Append(telling.dependency, i)
                                 ELSE telling.dependency
<1>1. /\ telling.bus \in Seq(Nat) /\ telling.unit \in Seq(Nat) /\ telling.dependency \in Seq(Nat)
      /\ telling = [bus |-> telling.bus, unit |-> telling.unit, dependency |-> telling.dependency]
  BY DEF Telling
<1>2. \A s \in Seq(Nat) : Append(s, i) \in Seq(Nat)
  BY AppendProperties
<1>3. CASE what = "bus"
  BY <1>1, <1>2, <1>3 DEF Building!Saying, Telling
<1>4. CASE what = "unit"
  BY <1>1, <1>2, <1>4 DEF Building!Saying, Telling
<1>5. CASE what = "dependency"
  BY <1>1, <1>2, <1>5 DEF Building!Saying, Telling
<1> QED
  BY <1>3, <1>4, <1>5

LEMMA DomainsAre ==
  ASSUME BuildingInv
  PROVE  /\ DOMAIN serviceRegistries = 1 .. Len(serviceRegistries) /\ Len(serviceRegistries) \in Nat
         /\ DOMAIN roots = 1 .. Len(roots) /\ Len(roots) \in Nat
         /\ DOMAIN builders = 1 .. Len(builders) /\ DOMAIN told = 1 .. Len(builders)
         /\ DOMAIN built = 1 .. Len(built) /\ DOMAIN tellings = 1 .. Len(built)
         /\ Len(builders) \in Nat /\ Len(built) \in Nat
         /\ \A r \in 1 .. Len(serviceRegistries) : serviceRegistries[r] \in [Services -> Nat]
         /\ \A r \in 1 .. Len(roots) : roots[r] \in RegistryRoot
         /\ \A b \in 1 .. Len(builders) : builders[b] \in Builder /\ told[b] \in Telling
         /\ \A i \in 1 .. Len(built) : built[i] \in Built /\ tellings[i] \in Telling
  BY LenProperties, ElementOfSeq DEF BuildingInv, RegistriesInv, BuildersInv, ServicesInv

LEMMA BuildingInit == Building!Init => BuildingInv
<1> SUFFICES ASSUME Building!Init PROVE BuildingInv
  OBVIOUS
<1>1. /\ serviceRegistries = <<>> /\ globally = 0 /\ roots = <<>> /\ builders = <<>>
      /\ built = <<>> /\ given = 0 /\ told = <<>> /\ tellings = <<>>
  BY DEF Building!Init
<1>2. \A T : <<>> \in Seq(T)
  OBVIOUS
<1>3. Len(<<>>) = 0
  OBVIOUS
<1> QED
  BY <1>1, <1>2, <1>3 DEF BuildingInv, RegistriesInv, BuildersInv, ServicesInv

\* A registry more, without services.
LEMMA RegistryAdded ==
  ASSUME BuildingInv, serviceRegistries' = Append(serviceRegistries, Building!NoServices)
  PROVE  /\ serviceRegistries' \in Seq([Services -> Nat])
         /\ Len(serviceRegistries') = Len(serviceRegistries) + 1
         /\ \A r \in 1 .. Len(serviceRegistries'), s \in Services :
              serviceRegistries'[r][s] \in 0 .. Len(built)
         /\ \A r \in 1 .. Len(serviceRegistries) : r \in 1 .. Len(serviceRegistries')
<1>1. Building!NoServices \in [Services -> Nat]
      /\ \A s \in Services : Building!NoServices[s] \in 0 .. Len(built)
  BY DomainsAre DEF Building!NoServices
<1>2. /\ serviceRegistries' \in Seq([Services -> Nat])
      /\ Len(serviceRegistries') = Len(serviceRegistries) + 1 /\ Len(serviceRegistries) \in Nat
      /\ \A r \in 1 .. Len(serviceRegistries) : serviceRegistries'[r] = serviceRegistries[r]
      /\ serviceRegistries'[Len(serviceRegistries) + 1] = Building!NoServices
      /\ \A r \in 1 .. Len(serviceRegistries) + 1 :
           r \in 1 .. Len(serviceRegistries) \/ r = Len(serviceRegistries) + 1
  BY <1>1, OneMore DEF BuildingInv, RegistriesInv
<1>3. \A r \in 1 .. Len(serviceRegistries), s \in Services :
        serviceRegistries[r][s] \in 0 .. Len(built)
  BY DEF BuildingInv, RegistriesInv
<1> QED
  BY <1>1, <1>2, <1>3

LEMMA GetInstanceKeeps ==
  ASSUME BuildingInv, Building!GetInstance
  PROVE  BuildingInv'
<1>1. /\ serviceRegistries' = Append(serviceRegistries, Building!NoServices)
      /\ globally' = Len(serviceRegistries')
      /\ UNCHANGED <<roots, builders, built, given, told, tellings>>
  BY DEF Building!GetInstance, Building!NewRegistry
<1>2. /\ serviceRegistries' \in Seq([Services -> Nat])
      /\ Len(serviceRegistries') = Len(serviceRegistries) + 1
      /\ \A r \in 1 .. Len(serviceRegistries'), s \in Services :
           serviceRegistries'[r][s] \in 0 .. Len(built)
      /\ \A r \in 1 .. Len(serviceRegistries) : r \in 1 .. Len(serviceRegistries')
  BY <1>1, RegistryAdded
<1>3. globally' \in 0 .. Len(serviceRegistries')
  BY <1>1, <1>2, DomainsAre
<1> QED
  BY <1>1, <1>2, <1>3 DEF BuildingInv, RegistriesInv, BuildersInv, ServicesInv

LEMMA CreateRootKeeps ==
  ASSUME BuildingInv, NEW r \in {0, globally}, Building!CreateRoot(r)
  PROVE  BuildingInv'
<1> DEFINE at == IF r = 0 THEN Len(serviceRegistries) + 1 ELSE r
           root == [registry |-> at, bus |-> 0, unit |-> 0]
<1>1. /\ Len(serviceRegistries) \in Nat /\ at \in Nat
      /\ globally \in 0 .. Len(serviceRegistries) /\ roots \in Seq(RegistryRoot)
  BY DomainsAre DEF BuildingInv, RegistriesInv
<1>2. /\ serviceRegistries' \in Seq([Services -> Nat])
      /\ \A k \in 1 .. Len(serviceRegistries'), s \in Services :
           serviceRegistries'[k][s] \in 0 .. Len(built)
      /\ \A k \in 1 .. Len(serviceRegistries) : k \in 1 .. Len(serviceRegistries')
      /\ Len(serviceRegistries') = Len(serviceRegistries) + (IF r = 0 THEN 1 ELSE 0)
      /\ roots' = Append(roots, root)
      /\ UNCHANGED <<globally, builders, built, given, told, tellings>>
  <2>1. CASE r = 0
    <3>1. /\ serviceRegistries' = Append(serviceRegistries, Building!NoServices)
          /\ roots' = Append(roots, Building!Root(Len(serviceRegistries')))
          /\ UNCHANGED <<globally, builders, built, given, told, tellings>>
      BY <2>1 DEF Building!CreateRoot, Building!NewRegistry
    <3>2. /\ serviceRegistries' \in Seq([Services -> Nat])
          /\ Len(serviceRegistries') = Len(serviceRegistries) + 1
          /\ \A k \in 1 .. Len(serviceRegistries'), s \in Services :
               serviceRegistries'[k][s] \in 0 .. Len(built)
          /\ \A k \in 1 .. Len(serviceRegistries) : k \in 1 .. Len(serviceRegistries')
      BY <3>1, RegistryAdded
    <3> QED
      BY <2>1, <3>1, <3>2 DEF Building!Root
  <2>2. CASE r # 0
    BY <1>1, <2>2 DEF Building!CreateRoot, Building!Root, BuildingInv, RegistriesInv
  <2> QED
    BY <2>1, <2>2
<1>3. at \in 1 .. Len(serviceRegistries') /\ globally \in 0 .. Len(serviceRegistries')
  BY <1>1, <1>2
<1>4. root \in RegistryRoot /\ root.registry = at
  BY <1>1 DEF RegistryRoot
<1> HIDE DEF at, root
<1>5. /\ roots' \in Seq(RegistryRoot)
      /\ \A k \in 1 .. Len(roots') : roots'[k].registry \in 1 .. Len(serviceRegistries')
  <2>1. /\ Append(roots, root) \in Seq(RegistryRoot)
        /\ Len(Append(roots, root)) = Len(roots) + 1
        /\ \A k \in 1 .. Len(roots) : Append(roots, root)[k] = roots[k]
        /\ Append(roots, root)[Len(roots) + 1] = root
        /\ \A k \in 1 .. Len(roots) + 1 : k \in 1 .. Len(roots) \/ k = Len(roots) + 1
    BY <1>1, <1>4, OneMore
  <2>2. \A k \in 1 .. Len(roots) : roots[k].registry \in 1 .. Len(serviceRegistries)
    BY DEF BuildingInv, RegistriesInv
  <2> QED
    BY <1>2, <1>3, <1>4, <2>1, <2>2
<1> QED
  BY <1>2, <1>3, <1>5 DEF BuildingInv, RegistriesInv, BuildersInv, ServicesInv

\* register() and remove().
LEMMA RegisteringKeeps ==
  ASSUME BuildingInv, NEW r \in 1 .. Len(serviceRegistries), NEW s \in Services,
         NEW i \in 0 .. Len(built),
         serviceRegistries' = [serviceRegistries EXCEPT ![r][s] = i],
         UNCHANGED <<globally, roots, builders, built, given, told, tellings>>
  PROVE  BuildingInv'
<1>1. serviceRegistries[r] \in [Services -> Nat] /\ i \in Nat /\ Len(built) \in Nat
  BY DomainsAre
<1> DEFINE now == [serviceRegistries[r] EXCEPT ![s] = i]
<1>2. now \in [Services -> Nat] /\ \A t \in Services : now[t] = IF t = s THEN i ELSE serviceRegistries[r][t]
  BY <1>1
<1>3. serviceRegistries' = [serviceRegistries EXCEPT ![r] = now]
  OBVIOUS
<1> HIDE DEF now
<1>4. /\ serviceRegistries' \in Seq([Services -> Nat])
      /\ Len(serviceRegistries') = Len(serviceRegistries)
      /\ \A k \in 1 .. Len(serviceRegistries) :
           serviceRegistries'[k] = IF k = r THEN now ELSE serviceRegistries[k]
  <2>1. serviceRegistries \in Seq([Services -> Nat])
    BY DEF BuildingInv, RegistriesInv
  <2>2. now \in [Services -> Nat]
    BY <1>2
  <2>3. LET then == [serviceRegistries EXCEPT ![r] = now]
        IN  /\ then \in Seq([Services -> Nat]) /\ Len(then) = Len(serviceRegistries)
            /\ \A k \in 1 .. Len(serviceRegistries) :
                 then[k] = IF k = r THEN now ELSE serviceRegistries[k]
    BY <2>1, <2>2, OneChanged
  <2> QED
    BY <1>3, <2>3
<1>5. \A k \in 1 .. Len(serviceRegistries), t \in Services :
        serviceRegistries'[k][t] \in 0 .. Len(built)
  BY <1>2, <1>4 DEF BuildingInv, RegistriesInv
<1> QED
  BY <1>4, <1>5 DEF BuildingInv, RegistriesInv, BuildersInv, ServicesInv

LEMMA GiveRootKeeps ==
  ASSUME BuildingInv, NEW r \in 1 .. Len(roots), NEW what \in {"bus", "unit"},
         Building!GiveRoot(r, what)
  PROVE  BuildingInv'
<1> DEFINE now == IF what = "bus" THEN [roots[r] EXCEPT !.bus = given']
                  ELSE [roots[r] EXCEPT !.unit = given']
<1>1. /\ given' \in Nat /\ roots' = [roots EXCEPT ![r] = now]
      /\ UNCHANGED <<serviceRegistries, globally, builders, built, told, tellings>>
  <2>1. given \in Nat /\ given' = given + 1
    BY DEF Building!GiveRoot, Building!Give, BuildingInv, RegistriesInv
  <2> QED
    BY <2>1 DEF Building!GiveRoot
<1>2. roots[r] \in RegistryRoot
  BY DomainsAre
<1>3. now \in RegistryRoot /\ now.registry = roots[r].registry
  BY <1>1, <1>2 DEF RegistryRoot
<1> HIDE DEF now
<1>4. /\ roots' \in Seq(RegistryRoot) /\ Len(roots') = Len(roots)
      /\ \A k \in 1 .. Len(roots) : roots'[k] = IF k = r THEN now ELSE roots[k]
  BY <1>1, <1>3, OneChanged DEF BuildingInv, RegistriesInv
<1>5. \A k \in 1 .. Len(roots) : roots'[k].registry \in 1 .. Len(serviceRegistries)
  BY <1>3, <1>4 DEF BuildingInv, RegistriesInv
<1> QED
  BY <1>1, <1>4, <1>5 DEF BuildingInv, RegistriesInv, BuildersInv, ServicesInv

LEMMA GiveBuilderKeeps ==
  ASSUME BuildingInv, NEW b \in 1 .. Len(builders), NEW what \in {"bus", "unit"},
         Building!GiveBuilder(b, what)
  PROVE  BuildingInv'
<1> DEFINE now == IF what = "bus" THEN [builders[b] EXCEPT !.bus = given']
                  ELSE [builders[b] EXCEPT !.unit = given']
           telling == Building!Saying(told[b], what, given')
<1>1. /\ given' \in Nat /\ builders' = [builders EXCEPT ![b] = now]
      /\ told' = [told EXCEPT ![b] = telling]
      /\ UNCHANGED <<serviceRegistries, globally, roots, built, tellings>>
  <2>1. given \in Nat /\ given' = given + 1
    BY DEF Building!GiveBuilder, Building!Give, BuildingInv, RegistriesInv
  <2> QED
    BY <2>1 DEF Building!GiveBuilder
<1>2. builders[b] \in Builder /\ told[b] \in Telling /\ Follows(builders[b], told[b])
      /\ builders \in Seq(Builder) /\ told \in Seq(Telling) /\ Len(told) = Len(builders)
  BY DomainsAre DEF BuildingInv, BuildersInv
<1>3. /\ now \in Builder /\ now.registry = builders[b].registry
      /\ now.bus = IF what = "bus" THEN given' ELSE builders[b].bus
      /\ now.unit = IF what = "unit" THEN given' ELSE builders[b].unit
      /\ now.dependencies = builders[b].dependencies
  BY <1>1, <1>2 DEF Builder
<1>4. /\ telling \in Telling
      /\ telling.bus = IF what = "bus" THEN Append(told[b].bus, given') ELSE told[b].bus
      /\ telling.unit = IF what = "unit" THEN Append(told[b].unit, given') ELSE told[b].unit
      /\ telling.dependency = told[b].dependency
  <2>1. \A word \in {"bus", "unit", "dependency"}, i \in Nat :
          LET said == Building!Saying(told[b], word, i)
          IN  /\ said \in Telling
              /\ said.bus = IF word = "bus" THEN Append(told[b].bus, i) ELSE told[b].bus
              /\ said.unit = IF word = "unit" THEN Append(told[b].unit, i) ELSE told[b].unit
              /\ said.dependency = IF word = "dependency" THEN Append(told[b].dependency, i)
                                   ELSE told[b].dependency
    BY <1>2, Said
  <2>2. what \in {"bus", "unit", "dependency"} /\ what # "dependency"
    OBVIOUS
  <2> QED
    BY <1>1, <2>1, <2>2
<1>5. told[b].bus \in Seq(Nat) /\ told[b].unit \in Seq(Nat)
  BY <1>2 DEF Telling
<1> HIDE DEF now, telling
<1>6. Follows(now, telling)
  <2>1. PICK g \in Nat : g = given'
    BY <1>1
  <2>2. \A s \in Seq(Nat) : Append(s, g) # <<>> /\ Building!Last(Append(s, g)) = g
    BY <2>1, LastSaid
  <2>3. telling.bus # <<>> /\ now.bus = Building!Last(telling.bus)
    BY <1>2, <1>3, <1>4, <1>5, <2>1, <2>2 DEF Follows
  <2>4. telling.unit # <<>> /\ now.unit = Building!Last(telling.unit)
    BY <1>2, <1>3, <1>4, <1>5, <2>1, <2>2 DEF Follows
  <2>5. now.dependencies = telling.dependency
    BY <1>2, <1>3, <1>4 DEF Follows
  <2> QED
    BY <2>3, <2>4, <2>5 DEF Follows
<1>7. /\ builders' \in Seq(Builder) /\ Len(builders') = Len(builders)
      /\ \A k \in 1 .. Len(builders) : builders'[k] = IF k = b THEN now ELSE builders[k]
  BY <1>1, <1>2, <1>3, OneChanged
<1>8. /\ told' \in Seq(Telling) /\ Len(told') = Len(builders)
      /\ \A k \in 1 .. Len(builders) : told'[k] = IF k = b THEN telling ELSE told[k]
  BY <1>1, <1>2, <1>4, OneChanged
<1>9. BuildersInv'
  BY <1>1, <1>3, <1>6, <1>7, <1>8 DEF BuildingInv, BuildersInv, Follows
<1> QED
  BY <1>1, <1>9 DEF BuildingInv, RegistriesInv, ServicesInv

\* A builder more, that follows what was said along its own chain.
LEMMA BuilderAdded ==
  ASSUME BuildingInv, NEW builder \in Builder, NEW telling \in Telling,
         builder.registry \in 1 .. Len(serviceRegistries), Follows(builder, telling),
         Building!AddBuilder(builder, telling)
  PROVE  BuildingInv'
<1>1. /\ builders' = Append(builders, builder) /\ told' = Append(told, telling)
      /\ UNCHANGED <<serviceRegistries, globally, roots, built, given, tellings>>
  BY DEF Building!AddBuilder
<1> DEFINE n == Len(builders)
<1>2. builders \in Seq(Builder) /\ told \in Seq(Telling) /\ Len(told) = n
  BY DEF BuildingInv, BuildersInv
<1>3. /\ builders' \in Seq(Builder) /\ Len(builders') = n + 1
      /\ \A k \in 1 .. n : builders'[k] = builders[k]
      /\ builders'[n + 1] = builder
      /\ \A k \in 1 .. n + 1 : k \in 1 .. n \/ k = n + 1
  BY <1>1, <1>2, OneMore
<1>4. /\ told' \in Seq(Telling) /\ Len(told') = n + 1
      /\ \A k \in 1 .. n : told'[k] = told[k]
      /\ told'[n + 1] = telling
  BY <1>1, <1>2, OneMore
<1>5. \A k \in 1 .. n : builders[k].registry \in 1 .. Len(serviceRegistries)
                        /\ Follows(builders[k], told[k])
  BY DEF BuildingInv, BuildersInv
<1> HIDE DEF n
<1>6. BuildersInv'
  BY <1>1, <1>3, <1>4, <1>5 DEF BuildersInv, Follows
<1> QED
  BY <1>1, <1>6 DEF BuildingInv, RegistriesInv, ServicesInv

LEMMA ServiceKeeps ==
  ASSUME BuildingInv, NEW r \in 1 .. Len(roots), NEW s \in Services, Building!Service(r, s)
  PROVE  BuildingInv'
<1> DEFINE builder == [registry |-> roots[r].registry, id |-> s, bus |-> roots[r].bus,
                       unit |-> roots[r].unit, dependencies |-> <<>>]
           telling == [bus |-> <<roots[r].bus>>, unit |-> <<roots[r].unit>>, dependency |-> <<>>]
<1>1. Building!AddBuilder(builder, telling)
  BY DEF Building!Service
<1>2. roots[r] \in RegistryRoot /\ roots[r].registry \in 1 .. Len(serviceRegistries)
  BY DomainsAre DEF BuildingInv, RegistriesInv
<1>3. builder \in Builder
  BY <1>2 DEF RegistryRoot, Builder
<1>4. telling \in Telling
  BY <1>2 DEF RegistryRoot, Telling
<1>5. Follows(builder, telling)
  <2>1. \A x : <<x>> # <<>> /\ Building!Last(<<x>>) = x
    BY DEF Building!Last
  <2> QED
    BY <2>1 DEF Follows
<1>6. builder.registry \in 1 .. Len(serviceRegistries)
  BY <1>2
<1> HIDE DEF builder, telling
<1> QED
  BY <1>1, <1>3, <1>4, <1>5, <1>6, BuilderAdded

LEMMA WithDependencyKeeps ==
  ASSUME BuildingInv, NEW b \in 1 .. Len(builders), NEW i \in Nat, Building!WithDependency(b, i)
  PROVE  BuildingInv'
<1> DEFINE builder == [builders[b] EXCEPT !.dependencies = Append(@, i)]
           telling == Building!Saying(told[b], "dependency", i)
<1>1. Building!AddBuilder(builder, telling)
  BY DEF Building!WithDependency
<1>2. builders[b] \in Builder /\ told[b] \in Telling /\ Follows(builders[b], told[b])
      /\ builders[b].registry \in 1 .. Len(serviceRegistries)
  BY DomainsAre DEF BuildingInv, BuildersInv
<1>3. Append(builders[b].dependencies, i) \in Seq(Nat)
  BY <1>2, AppendProperties DEF Builder
<1>4. /\ builder \in Builder /\ builder.registry = builders[b].registry
      /\ builder.bus = builders[b].bus /\ builder.unit = builders[b].unit
      /\ builder.dependencies = Append(builders[b].dependencies, i)
  BY <1>2, <1>3 DEF Builder
<1>5. /\ telling \in Telling /\ telling.bus = told[b].bus /\ telling.unit = told[b].unit
      /\ telling.dependency = Append(told[b].dependency, i)
  BY <1>2, Said
<1> HIDE DEF builder, telling
<1>6. Follows(builder, telling)
  BY <1>2, <1>4, <1>5 DEF Follows
<1> QED
  BY <1>1, <1>2, <1>4, <1>5, <1>6, BuilderAdded

LEMMA DependsOnKeeps ==
  ASSUME BuildingInv, NEW b \in 1 .. Len(builders), NEW s \in Services, Building!DependsOn(b, s)
  PROVE  BuildingInv'
<1> DEFINE i == serviceRegistries[builders[b].registry][s]
<1>1. Building!WithDependency(b, i)
  BY DEF Building!DependsOn
<1>2. builders[b].registry \in 1 .. Len(serviceRegistries)
  BY DEF BuildingInv, BuildersInv
<1>3. i \in Nat
  BY <1>2, DomainsAre
<1> HIDE DEF i
<1> QED
  BY <1>1, <1>3, WithDependencyKeeps

LEMMA BuildSyncKeeps ==
  ASSUME BuildingInv, NEW b \in 1 .. Len(builders), Building!BuildSync(b)
  PROVE  BuildingInv'
<1> DEFINE builder == builders[b]
           service == [id |-> builder.id, dependencies |-> builder.dependencies,
                       bus  |-> Building!BusOf(Aware[builder.id], builder.bus, builder.unit),
                       unit |-> IF "unit" \in Aware[builder.id] THEN builder.unit ELSE 0]
           n == Len(built)
<1>1. /\ built' = Append(built, service) /\ tellings' = Append(tellings, told[b])
      /\ UNCHANGED <<serviceRegistries, globally, roots, builders, given, told>>
  BY DEF Building!BuildSync
<1>2. builder \in Builder /\ told[b] \in Telling /\ Follows(builder, told[b])
  BY DomainsAre DEF BuildingInv, BuildersInv
<1>3. service \in Built
  <2>1. Building!BusOf(Aware[builder.id], builder.bus, builder.unit) \in Nat
    BY <1>2, ContainersAssumption DEF Builder, Building!BusOf, Building!BusOfUnit, Building!BuildingAssumption
  <2> QED
    BY <1>2, <2>1 DEF Builder, Built
<1>4. MadeOf(service, told[b])
  BY <1>2 DEF Follows, MadeOf, Building!BusOf
<1> HIDE DEF service, builder
<1>5. built \in Seq(Built) /\ tellings \in Seq(Telling) /\ Len(tellings) = n
  BY DEF BuildingInv, ServicesInv
<1>6. /\ built' \in Seq(Built) /\ Len(built') = n + 1 /\ n \in Nat
      /\ \A k \in 1 .. n : built'[k] = built[k]
      /\ built'[n + 1] = service
      /\ \A k \in 1 .. n + 1 : k \in 1 .. n \/ k = n + 1
  BY <1>1, <1>3, <1>5, OneMore
<1>7. /\ tellings' \in Seq(Telling) /\ Len(tellings') = n + 1
      /\ \A k \in 1 .. n : tellings'[k] = tellings[k]
      /\ tellings'[n + 1] = told[b]
  BY <1>1, <1>2, <1>5, OneMore
<1>8. \A k \in 1 .. n : MadeOf(built[k], tellings[k])
  BY DEF BuildingInv, ServicesInv
<1>9. \A i \in 0 .. n : i \in 0 .. n + 1
  BY <1>6
<1> HIDE DEF n
<1>10. ServicesInv'
  <2>1. \A k \in 1 .. n + 1 : MadeOf(built'[k], tellings'[k])
    BY <1>4, <1>6, <1>7, <1>8
  <2> QED
    BY <1>6, <1>7, <2>1 DEF ServicesInv, MadeOf
<1>11. RegistriesInv'
  BY <1>1, <1>6, <1>9 DEF BuildingInv, RegistriesInv, n
<1> QED
  BY <1>1, <1>10, <1>11 DEF BuildingInv, BuildersInv

LEMMA BuildingStep ==
  ASSUME BuildingInv, [Building!Next]_building
  PROVE  BuildingInv'
<1>1. ASSUME NEW r \in DOMAIN serviceRegistries, Building!SetInstance(r) PROVE BuildingInv'
  <2>1. r \in 0 .. Len(serviceRegistries)
    BY DomainsAre
  <2> QED
    BY <1>1, <2>1 DEF Building!SetInstance, BuildingInv, RegistriesInv, BuildersInv, ServicesInv
<1>2. ASSUME NEW r \in DOMAIN serviceRegistries, NEW s \in Services, NEW i \in DOMAIN built,
             Building!Register(r, s, i)
      PROVE  BuildingInv'
  <2>1. r \in 1 .. Len(serviceRegistries) /\ i \in 0 .. Len(built)
    BY DomainsAre
  <2> QED
    BY <1>2, <2>1, RegisteringKeeps DEF Building!Register
<1>3. ASSUME NEW r \in DOMAIN serviceRegistries, NEW s \in Services, Building!Unregister(r, s)
      PROVE  BuildingInv'
  <2>1. r \in 1 .. Len(serviceRegistries) /\ 0 \in 0 .. Len(built)
    BY DomainsAre
  <2> QED
    BY <1>3, <2>1, RegisteringKeeps DEF Building!Unregister
<1>4. ASSUME NEW what \in {"bus", "unit"}, NEW r \in DOMAIN roots, Building!GiveRoot(r, what)
      PROVE  BuildingInv'
  BY <1>4, DomainsAre, GiveRootKeeps
<1>5. ASSUME NEW what \in {"bus", "unit"}, NEW b \in DOMAIN builders, Building!GiveBuilder(b, what)
      PROVE  BuildingInv'
  BY <1>5, DomainsAre, GiveBuilderKeeps
<1>6. ASSUME NEW r \in DOMAIN roots, NEW s \in Services, Building!Service(r, s)
      PROVE  BuildingInv'
  BY <1>6, DomainsAre, ServiceKeeps
<1>7. ASSUME NEW b \in DOMAIN builders, Building!BuildSync(b) PROVE BuildingInv'
  BY <1>7, DomainsAre, BuildSyncKeeps
<1>8. ASSUME NEW b \in DOMAIN builders, NEW s \in Services, Building!DependsOn(b, s)
      PROVE  BuildingInv'
  BY <1>8, DomainsAre, DependsOnKeeps
<1>9. ASSUME NEW b \in DOMAIN builders, NEW i \in DOMAIN built, Building!WithDependency(b, i)
      PROVE  BuildingInv'
  <2>1. b \in 1 .. Len(builders) /\ i \in Nat
    BY DomainsAre
  <2> QED
    BY <1>9, <2>1, WithDependencyKeeps
<1>10. ASSUME UNCHANGED building PROVE BuildingInv'
  BY <1>10 DEF building, BuildingInv, RegistriesInv, BuildersInv, ServicesInv, Follows, MadeOf
<1> QED
  BY <1>1, <1>2, <1>3, <1>4, <1>5, <1>6, <1>7, <1>8, <1>9, <1>10,
     GetInstanceKeeps, CreateRootKeeps DEF Building!Next

\* A service has the dependencies and the last unit of work that were said along the calls that
\* led to its builder, and the bus of this unit of work, or the last bus when it takes no unit or
\* was told none, for any services, whoever goes on with the builders before it, the registry
\* builder and the registry (service-builder.ts, service-registry-builder.ts, setUnitOfWork of
\* base-domain-service.ts).
THEOREM ServicesAreBuiltAsTold == MCSpec => []BuiltAsTold
<1>1. MCInit => BuildingInv
  BY BuildingInit DEF MCInit
<1>2. BuildingInv /\ [MCNext]_mcvars => BuildingInv'
  <2>1. [MCNext]_mcvars => [Building!Next]_building
    BY DEF MCNext, mcvars
  <2> QED
    BY <2>1, BuildingStep
<1>3. BuildingInv => BuiltAsTold
  <2> SUFFICES ASSUME BuildingInv PROVE Building!TypeOK /\ Building!MadeAsTold
    BY DEF BuiltAsTold
  <2>1. Building!TypeOK
    <3>1. Building!Range(serviceRegistries) \subseteq [Services -> 0 .. Len(built)]
      BY DomainsAre DEF Building!Range, BuildingInv, RegistriesInv
    <3>2. ASSUME NEW x \in Building!Range(roots) \cup Building!Range(builders)
          PROVE  x.registry \in DOMAIN serviceRegistries
      BY <3>2, DomainsAre DEF Building!Range, BuildingInv, RegistriesInv, BuildersInv
    <3>3. globally \in 0 .. Len(serviceRegistries)
      BY DEF BuildingInv, RegistriesInv
    <3>4. DOMAIN told = DOMAIN builders /\ DOMAIN tellings = DOMAIN built
      BY DomainsAre
    <3> QED
      BY <3>1, <3>2, <3>3, <3>4 DEF Building!TypeOK
  <2>2. Building!MadeAsTold
    BY DomainsAre DEF BuildingInv, ServicesInv, MadeOf, Building!MadeAsTold
  <2> QED
    BY <2>1, <2>2
<1> QED
  BY <1>1, <1>2, <1>3, PTL DEF MCSpec

=============================================================================
