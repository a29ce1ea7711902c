--------------------------- MODULE MessagingProofs ---------------------------
(* Theorems about the outbox processor (MessageProcessor) and about the    *)
(* buses, which go one part at a time (MCBuses), for any values of their   *)
(* constants.                                                              *)
EXTENDS MessageProcessor, MCBuses, FiniteSetTheorems, SequenceTheorems, TLAPS

-----------------------------------------------------------------------------
(* The outbox processor *)

(* What a fetch returns is a sequence of messages.                         *)
LEMMA FetchResultsAreSequences ==
  ASSUME NEW q \in FetchResults
  PROVE  q \in Seq(Messages)
<1>1. Fetchable \subseteq Messages
  BY DEF Fetchable
<1>2. Cardinality(Fetchable) \in Nat
  BY <1>1, FS_Subset, FS_CardinalityType, ProcessorAssumption
<1> DEFINE n == Min({BatchSize, Cardinality(Fetchable)})
<1>3. n \in Nat
  BY <1>2, ProcessorAssumption DEF Min
<1>4. q \in [1 .. n -> Messages]
  BY <1>1 DEF FetchResults
<1> HIDE DEF n
<1> QED
  BY <1>3, <1>4

(* The counters saturate within their bound and never decrease.            *)
LEMMA BumpType ==
  ASSUME NEW n \in 0 .. MaxCount
  PROVE  Bump(n) \in 0 .. MaxCount /\ Bump(n) >= n /\ Bump(n) > 0
BY ProcessorAssumption DEF Bump

(* Proceeding keeps the shape of the runs and touches no other run.        *)
LEMMA ProceedType ==
  ASSUME TypeOK, NEW r \in Runs, pc[r] \in Loop, Proceed(r)
  PROVE  /\ pc' \in [Runs -> Steps]
         /\ queue' \in [Runs -> Seq(Messages)]
         /\ \A s \in Runs : queue'[s] # <<>> <=> pc'[s] \in Loop
         /\ \A s \in Runs : pc'[s] \in {"mark", "fail"} => s # r
         /\ \A s \in Runs \ {r} : pc'[s] = pc[s] /\ queue'[s] = queue[s]
<1>1. queue[r] \in Seq(Messages) /\ queue[r] # <<>>
  BY DEF TypeOK
<1>2. Tail(queue[r]) \in Seq(Messages)
  BY <1>1
<1> QED
  BY <1>2 DEF TypeOK, Proceed, Loop, Steps

(* Moving a run within the loop, or an idle run to its fetch, keeps the    *)
(* shape of the runs.                                                      *)
LEMMA GotoType ==
  ASSUME TypeOK, NEW r \in Runs, NEW step \in Steps, Goto(r, step),
         step \in Loop <=> pc[r] \in Loop
  PROVE  /\ pc' \in [Runs -> Steps]
         /\ queue' \in [Runs -> Seq(Messages)]
         /\ \A s \in Runs : queue'[s] # <<>> <=> pc'[s] \in Loop
BY DEF TypeOK, Goto, Loop, Steps

(* The disruption budget is respected.                                     *)
LEMMA DisruptType ==
  ASSUME TypeOK, Disrupt \/ Calm
  PROVE  disruptions' \in 0 .. MaxDisruptions
BY ProcessorAssumption DEF TypeOK, Disrupt, Calm

(* A run inside the loop has a message to work on.                         *)
LEMMA CurrentType ==
  ASSUME TypeOK, NEW r \in Runs, pc[r] \in Loop
  PROVE  Current(r) \in Messages
BY DEF TypeOK, Current

(* Type correctness: every variable keeps its type, and a run holds a      *)
(* message exactly while one of the loop's steps is pending, so that no    *)
(* step of processMessages reads a message that is not there.              *)
THEOREM TypeCorrect == Spec => []TypeOK
<1>1. Init => TypeOK
  BY ProcessorAssumption
  DEF Init, TypeOK, Status, Absent, Loop, Steps
<1>2. TypeOK /\ [Next]_vars => TypeOK'
  <2> SUFFICES ASSUME TypeOK, [Next]_vars PROVE TypeOK'
    OBVIOUS
  <2> USE DEF Status, StoredStatus, store, activations
  <2>1. ASSUME NEW m \in Messages, SaveMessage(m) PROVE TypeOK'
    BY <2>1 DEF SaveMessage, UpdateStatus, TypeOK
  <2>2. ASSUME NEW t \in Types, RegisterHandler(t) PROVE TypeOK'
    BY <2>2 DEF RegisterHandler, TypeOK
  <2>3. CASE StartProcessing
    BY <2>3 DEF StartProcessing, TypeOK
  <2>4. CASE StopProcessing
    BY <2>4, ProcessorAssumption DEF StopProcessing, Disrupt, TypeOK
  <2>5. CASE Crash
    <3>1. unmarked' \in [Messages -> 0 .. MaxCount]
      BY <2>5, BumpType DEF Crash, TypeOK
    <3> QED
      BY <2>5, <3>1, ProcessorAssumption DEF Crash, Disrupt, Loop, Steps, TypeOK
  <2>6. ASSUME NEW r \in Runs, Tick(r) \/ CallProcessMessages(r) PROVE TypeOK'
    <3>1. Goto(r, "fetch") /\ pc[r] = "idle"
      BY <2>6 DEF Tick, CallProcessMessages
    <3> QED
      BY <2>6, <3>1, GotoType DEF Tick, CallProcessMessages, Loop, Steps, TypeOK
  <2>7. ASSUME NEW r \in Runs, NEW m \in Messages, CallProcessMessage(r, m)
        PROVE  TypeOK'
    <3>1. <<m>> \in Seq(Messages) /\ <<m>> # <<>>
      OBVIOUS
    <3> QED
      BY <2>7, <3>1 DEF CallProcessMessage, Loop, Steps, TypeOK
  <2>8. ASSUME NEW r \in Runs, RunStep(r) PROVE TypeOK'
    <3>1. CASE Fetch(r)
      <4>1. CASE Disrupt /\ Goto(r, "idle")
        <5>1. /\ pc' \in [Runs -> Steps] /\ queue' \in [Runs -> Seq(Messages)]
              /\ \A s \in Runs : queue'[s] # <<>> <=> pc'[s] \in Loop
          BY <3>1, <4>1, GotoType DEF Fetch, Loop, Steps
        <5> QED
          BY <3>1, <4>1, <5>1, DisruptType DEF Fetch, TypeOK
      <4>2. ASSUME NEW q \in FetchResults,
                   queue' = [queue EXCEPT ![r] = q],
                   pc' = [pc EXCEPT ![r] = IF q = <<>> THEN "idle" ELSE "pick"],
                   Calm
            PROVE  TypeOK'
        <5>1. q \in Seq(Messages)
          BY FetchResultsAreSequences
        <5>2. pc' \in [Runs -> Steps] /\ queue' \in [Runs -> Seq(Messages)]
          BY <4>2, <5>1 DEF Loop, Steps, TypeOK
        <5>3. \A s \in Runs : queue'[s] # <<>> <=> pc'[s] \in Loop
          BY <3>1, <4>2, <5>1 DEF Fetch, Loop, TypeOK
        <5> QED
          BY <3>1, <4>2, <5>2, <5>3 DEF Fetch, Calm, TypeOK
      <4> QED
        BY <3>1, <4>1, <4>2 DEF Fetch
    <3>2. CASE PickUp(r)
      <4>1. Current(r) \in Messages /\ pc[r] \in Loop
        BY <3>2, CurrentType DEF PickUp, Loop
      <4>2. CASE Disrupt /\ Proceed(r) /\ UNCHANGED status
        <5>1. /\ pc' \in [Runs -> Steps] /\ queue' \in [Runs -> Seq(Messages)]
              /\ \A s \in Runs : queue'[s] # <<>> <=> pc'[s] \in Loop
          BY <4>1, <4>2, ProceedType
        <5> QED
          BY <3>2, <4>2, <5>1, DisruptType DEF PickUp, TypeOK
      <4>3. CASE Calm /\ UpdateStatus(Current(r), Processing) /\ Goto(r, "handle")
        <5>1. /\ pc' \in [Runs -> Steps] /\ queue' \in [Runs -> Seq(Messages)]
              /\ \A s \in Runs : queue'[s] # <<>> <=> pc'[s] \in Loop
          BY <4>1, <4>3, GotoType DEF Loop, Steps
        <5> QED
          BY <3>2, <4>1, <4>3, <5>1 DEF PickUp, Calm, UpdateStatus, TypeOK
      <4> QED
        BY <3>2, <4>2, <4>3 DEF PickUp
    <3>3. CASE Handle(r)
      <4>1. Current(r) \in Messages /\ pc[r] \in Loop
        BY <3>3, CurrentType DEF Handle, Loop
      <4>2. handled' \in [Messages -> 0 .. MaxCount]
        <5>1. \/ handled' = [handled EXCEPT ![Current(r)] = Bump(@)]
              \/ handled' = handled
          BY <3>3 DEF Handle
        <5>2. handled[Current(r)] \in 0 .. MaxCount
          BY <4>1 DEF TypeOK
        <5>3. Bump(handled[Current(r)]) \in 0 .. MaxCount
          BY <5>2, BumpType
        <5> QED
          BY <4>1, <5>1, <5>3 DEF TypeOK
      <4>3. disruptions' \in 0 .. MaxDisruptions
        BY <3>3, DisruptType DEF Handle
      <4>4. Goto(r, "mark") \/ Goto(r, "increment")
        BY <3>3 DEF Handle
      <4>5. /\ pc' \in [Runs -> Steps] /\ queue' \in [Runs -> Seq(Messages)]
            /\ \A s \in Runs : queue'[s] # <<>> <=> pc'[s] \in Loop
        BY <4>1, <4>4, GotoType DEF Loop, Steps
      <4> QED
        BY <3>3, <4>2, <4>3, <4>5 DEF Handle, TypeOK
    <3>4. CASE MarkProcessed(r)
      <4>1. Current(r) \in Messages /\ pc[r] \in Loop
        BY <3>4, CurrentType DEF MarkProcessed, Loop
      <4>2. CASE /\ Calm
                 /\ UpdateStatus(Current(r), Processed)
                 /\ Proceed(r)
                 /\ UNCHANGED unmarked
        BY <3>4, <4>1, <4>2, ProceedType DEF MarkProcessed, Calm, UpdateStatus, TypeOK
      <4>3. CASE /\ Disrupt
                 /\ unmarked' = [unmarked EXCEPT ![Current(r)] = Bump(@)]
                 /\ Goto(r, "increment")
                 /\ UNCHANGED status
        <5>1. unmarked' \in [Messages -> 0 .. MaxCount]
          <6>1. unmarked[Current(r)] \in 0 .. MaxCount
            BY <4>1 DEF TypeOK
          <6>2. Bump(unmarked[Current(r)]) \in 0 .. MaxCount
            BY <6>1, BumpType
          <6>3. unmarked' = [unmarked EXCEPT ![Current(r)] = Bump(@)]
            BY <4>3
          <6> QED
            BY <4>1, <6>2, <6>3 DEF TypeOK
        <5>2. /\ pc' \in [Runs -> Steps] /\ queue' \in [Runs -> Seq(Messages)]
              /\ \A s \in Runs : queue'[s] # <<>> <=> pc'[s] \in Loop
          BY <4>1, <4>3, GotoType DEF Loop, Steps
        <5> QED
          BY <3>4, <4>3, <5>1, <5>2, ProcessorAssumption
          DEF MarkProcessed, Disrupt, TypeOK
      <4> QED
        BY <3>4, <4>2, <4>3 DEF MarkProcessed
    <3>5. CASE IncrementAttempt(r)
      <4>1. Current(r) \in Messages /\ pc[r] \in Loop
        BY <3>5, CurrentType DEF IncrementAttempt, Loop
      <4>2. CASE Disrupt /\ Proceed(r) /\ UNCHANGED attempts
        <5>1. /\ pc' \in [Runs -> Steps] /\ queue' \in [Runs -> Seq(Messages)]
              /\ \A s \in Runs : queue'[s] # <<>> <=> pc'[s] \in Loop
          BY <4>1, <4>2, ProceedType
        <5>2. disruptions' \in 0 .. MaxDisruptions
          BY <4>2, DisruptType
        <5>3. UNCHANGED <<store, handlers, isRunning, timers, handled, unmarked>>
          BY <3>5, <4>2 DEF IncrementAttempt, store
        <5> QED
          BY <5>1, <5>2, <5>3 DEF TypeOK, store
      <4>3. CASE /\ Calm
                 /\ attempts' = [attempts EXCEPT ![Current(r)] = Bump(@)]
                 /\ Goto(r, "fail")
        <5>1. attempts' \in [Messages -> 0 .. MaxCount]
          <6>1. attempts[Current(r)] \in 0 .. MaxCount
            BY <4>1 DEF TypeOK
          <6>2. Bump(attempts[Current(r)]) \in 0 .. MaxCount
            BY <6>1, BumpType
          <6>3. attempts' = [attempts EXCEPT ![Current(r)] = Bump(@)]
            BY <4>3
          <6> QED
            BY <4>1, <6>2, <6>3 DEF TypeOK
        <5> QED
          BY <3>5, <4>1, <4>3, <5>1, GotoType
          DEF IncrementAttempt, Calm, Loop, Steps, TypeOK
      <4> QED
        BY <3>5, <4>2, <4>3 DEF IncrementAttempt
    <3>6. CASE MarkFailed(r)
      <4>1. Current(r) \in Messages /\ pc[r] \in Loop
        BY <3>6, CurrentType DEF MarkFailed, Loop
      <4>2. status' \in [Messages -> Status] /\ disruptions' \in 0 .. MaxDisruptions
        <5>1. \/ status' = [status EXCEPT ![Current(r)] = Failed]
              \/ status' = status
          BY <3>6 DEF MarkFailed, UpdateStatus
        <5>2. status' \in [Messages -> Status]
          BY <4>1, <5>1 DEF TypeOK
        <5>3. Disrupt \/ Calm
          BY <3>6 DEF MarkFailed
        <5> QED
          BY <5>2, <5>3, DisruptType
      <4>3. /\ pc' \in [Runs -> Steps] /\ queue' \in [Runs -> Seq(Messages)]
            /\ \A s \in Runs : queue'[s] # <<>> <=> pc'[s] \in Loop
        <5>1. Proceed(r)
          BY <3>6 DEF MarkFailed
        <5> QED
          BY <4>1, <5>1, ProceedType
      <4>4. UNCHANGED <<attempts, handlers, isRunning, timers, handled, unmarked>>
        BY <3>6 DEF MarkFailed
      <4> QED
        BY <4>2, <4>3, <4>4 DEF TypeOK
    <3> QED
      BY <2>8, <3>1, <3>2, <3>3, <3>4, <3>5, <3>6 DEF RunStep
  <2>9. CASE UNCHANGED vars
    BY <2>9 DEF vars, TypeOK
  <2> QED
    BY <2>1, <2>2, <2>3, <2>4, <2>5, <2>6, <2>7, <2>8, <2>9 DEF Next
<1> QED
  BY <1>1, <1>2, PTL DEF Spec

-----------------------------------------------------------------------------
(* Completion.  PROCESSED is stored one step after the handler returned,   *)
(* and other runs act in between: the invariant must remember, for a run   *)
(* about to store it, that its message was completed.                      *)
CompletionInv ==
  /\ ProcessedWasHandled
  /\ \A r \in Runs : pc[r] = "mark" => handled[Current(r)] > 0

(* No step takes a completion back.                                        *)
LEMMA HandledGrows ==
  ASSUME TypeOK, [Next]_vars, NEW m \in Messages
  PROVE  handled'[m] \in Int /\ handled'[m] >= handled[m]
<1>1. handled[m] \in 0 .. MaxCount /\ handled \in [Messages -> 0 .. MaxCount]
  BY DEF TypeOK
<1>2. ASSUME NEW r \in Runs, Handle(r) PROVE handled'[m] \in Int /\ handled'[m] >= handled[m]
  <2>1. \/ handled' = [handled EXCEPT ![Current(r)] = Bump(@)]
        \/ handled' = handled
    BY <1>2 DEF Handle
  <2> QED
    BY <1>1, <2>1, BumpType
<1>3. CASE handled' = handled
  BY <1>1, <1>3
<1> QED
  BY <1>2, <1>3
  DEF Next, vars, SaveMessage, RegisterHandler, StartProcessing, StopProcessing, Crash,
      Tick, CallProcessMessages, CallProcessMessage, RunStep, Fetch, PickUp,
      MarkProcessed, IncrementAttempt, MarkFailed

(* The only way to "mark" is through a handler that completed.             *)
LEMMA MarkingRuns ==
  ASSUME TypeOK, [Next]_vars, NEW r \in Runs, pc'[r] = "mark"
  PROVE  \/ pc[r] = "mark" /\ queue'[r] = queue[r]
         \/ /\ pc[r] = "handle" /\ queue'[r] = queue[r]
            /\ handled' = [handled EXCEPT ![Current(r)] = Bump(@)]
<1> USE DEF TypeOK
<1>1. CASE \E m \in Messages : SaveMessage(m)
  BY <1>1 DEF SaveMessage, activations
<1>2. CASE \E t \in Types : RegisterHandler(t)
  BY <1>2 DEF RegisterHandler, activations
<1>3. CASE StartProcessing \/ StopProcessing
  BY <1>3 DEF StartProcessing, StopProcessing, activations
<1>4. CASE Crash
  BY <1>4 DEF Crash
<1>5. ASSUME NEW s \in Runs, Tick(s) \/ CallProcessMessages(s)
      PROVE  pc[r] = "mark" /\ queue'[r] = queue[r]
  BY <1>5 DEF Tick, CallProcessMessages, Goto
<1>6. ASSUME NEW s \in Runs, NEW m \in Messages, CallProcessMessage(s, m)
      PROVE  pc[r] = "mark" /\ queue'[r] = queue[r]
  BY <1>6 DEF CallProcessMessage
<1>7. ASSUME NEW s \in Runs, Fetch(s) PROVE pc[r] = "mark" /\ queue'[r] = queue[r]
  BY <1>7 DEF Fetch, Goto
<1>8. ASSUME NEW s \in Runs, PickUp(s) \/ IncrementAttempt(s) \/ MarkFailed(s) \/ MarkProcessed(s)
      PROVE  pc[r] = "mark" /\ queue'[r] = queue[r]
  BY <1>8 DEF PickUp, IncrementAttempt, MarkFailed, MarkProcessed, Goto, Proceed
<1>9. ASSUME NEW s \in Runs, Handle(s)
      PROVE  \/ pc[r] = "mark" /\ queue'[r] = queue[r]
             \/ /\ pc[r] = "handle" /\ queue'[r] = queue[r]
                /\ handled' = [handled EXCEPT ![Current(r)] = Bump(@)]
  BY <1>9 DEF Handle, Goto
<1>10. CASE UNCHANGED vars
  BY <1>10 DEF vars
<1> QED
  BY <1>1, <1>2, <1>3, <1>4, <1>5, <1>6, <1>7, <1>8, <1>9, <1>10 DEF Next, RunStep

LEMMA CompletionInvariance == Spec => []CompletionInv
<1>1. Init => CompletionInv
  BY DEF Init, CompletionInv, ProcessedWasHandled, Absent, Processed
<1>2. TypeOK /\ CompletionInv /\ [Next]_vars => CompletionInv'
  <2> SUFFICES ASSUME TypeOK, CompletionInv, [Next]_vars PROVE CompletionInv'
    OBVIOUS
  <2>1. ASSUME NEW m \in Messages, status'[m] = Processed PROVE handled'[m] > 0
    <3>0. handled[m] \in Int /\ handled'[m] \in Int /\ handled'[m] >= handled[m]
      BY HandledGrows DEF TypeOK
    <3>1. CASE status[m] = Processed
      BY <3>0, <3>1 DEF CompletionInv, ProcessedWasHandled
    <3>2. ASSUME status[m] # Processed
          PROVE  \E r \in Runs : pc[r] = "mark" /\ Current(r) = m
      BY <2>1, <3>2
      DEF TypeOK, Next, vars, store, SaveMessage, RegisterHandler, StartProcessing,
          StopProcessing, Crash, Tick, CallProcessMessages, CallProcessMessage, RunStep,
          Fetch, PickUp, Handle, MarkProcessed, IncrementAttempt, MarkFailed,
          UpdateStatus, Pending, Processing, Processed, Failed
    <3> QED
      BY <3>0, <3>1, <3>2 DEF CompletionInv
  <2>2. ASSUME NEW r \in Runs, pc'[r] = "mark" PROVE handled'[Current(r)'] > 0
    <3>1. CASE pc[r] = "mark" /\ queue'[r] = queue[r]
      <4>1. Current(r)' = Current(r) /\ Current(r) \in Messages
        BY <3>1, CurrentType DEF Current, Loop
      <4> QED
        BY <3>1, <4>1, HandledGrows DEF CompletionInv, TypeOK
    <3>2. CASE /\ pc[r] = "handle" /\ queue'[r] = queue[r]
               /\ handled' = [handled EXCEPT ![Current(r)] = Bump(@)]
      <4>1. Current(r)' = Current(r) /\ Current(r) \in Messages
        BY <3>2, CurrentType DEF Current, Loop
      <4> QED
        BY <3>2, <4>1, BumpType DEF TypeOK
    <3> QED
      BY <2>2, <3>1, <3>2, MarkingRuns
  <2> QED
    BY <2>1, <2>2 DEF CompletionInv, ProcessedWasHandled
<1> QED
  BY <1>1, <1>2, TypeCorrect, PTL DEF Spec

(* The outbox shows PROCESSED only what a handler completed, with any      *)
(* number of overlapping batches, failures and crashes.                    *)
THEOREM ProcessedOnlyAfterHandling == Spec => []ProcessedWasHandled
<1>1. CompletionInv => ProcessedWasHandled
  BY DEF CompletionInv
<1> QED
  BY <1>1, CompletionInvariance, PTL

(* One timer at most, and exactly while the processor is running: a start  *)
(* after a stop, or a second start, never leaves a timer that              *)
(* stopProcessing cannot clear.                                            *)
THEOREM TimersFollowTheFlag == Spec => []OneTimer
<1>1. Init => OneTimer
  BY DEF Init, OneTimer
<1>2. TypeOK /\ OneTimer /\ [Next]_vars => OneTimer'
  BY DEF TypeOK, OneTimer, Next, vars, SaveMessage, RegisterHandler, StartProcessing,
         StopProcessing, Crash, Tick, CallProcessMessages, CallProcessMessage, RunStep,
         Fetch, PickUp, Handle, MarkProcessed, IncrementAttempt, MarkFailed
<1> QED
  BY <1>1, <1>2, TypeCorrect, PTL DEF Spec

-----------------------------------------------------------------------------
(* Batches that do not overlap: one activation at a time, nobody calls     *)
(* processMessage past the timer, and a repository that does not hand out  *)
(* what is PROCESSED.  The timer alone guarantees none of this; without    *)
(* it the three theorems below fail.                                       *)
Serial ==
  /\ \A r, s \in Runs : r = s
  /\ ~DirectCalls
  /\ Processed \notin FetchStatuses

Open == {Pending, Processing, Failed}

(* The rest of the batch is what it was when it was fetched: no message    *)
(* twice, none processed by anybody else.  From the handler to the catch   *)
(* block the message at hand is PROCESSING.                                *)
BatchIsOurs ==
  \A r \in Runs :
    /\ IsInjective(queue[r])
    /\ \A i \in DOMAIN queue[r] : status[queue[r][i]] \in Open
    /\ pc[r] \in Loop \ {"pick"} => status[Current(r)] = Processing

(* A completion is outstanding while it may still be recorded, and after   *)
(* it was.                                                                 *)
Recorded(m) ==
  status[m] = Processed \/ \E r \in Runs : pc[r] = "mark" /\ Current(r) = m

CompletionsCounted ==
  \A m \in Messages :
    /\ handled[m] <= unmarked[m] + 1
    /\ ~Recorded(m) => handled[m] <= unmarked[m]

SerialInv == BatchIsOurs /\ CompletionsCounted

(* The head of a batch without repetitions is not in its tail, and the     *)
(* tail is without repetitions.                                            *)
LEMMA TailOfBatch ==
  ASSUME NEW q \in Seq(Messages), q # <<>>, IsInjective(q)
  PROVE  /\ IsInjective(Tail(q))
         /\ \A i \in DOMAIN Tail(q) :
              i + 1 \in DOMAIN q /\ Tail(q)[i] = q[i + 1] /\ Tail(q)[i] # Head(q)
<1>1. Len(q) \in Nat /\ Len(q) # 0 /\ DOMAIN q = 1 .. Len(q)
  BY EmptySeq
<1>2. /\ Tail(q) \in Seq(Messages)
      /\ Len(Tail(q)) = Len(q) - 1
      /\ \A i \in 1 .. Len(Tail(q)) : Tail(q)[i] = q[i + 1]
  BY HeadTailProperties
<1>3. DOMAIN Tail(q) = 1 .. Len(q) - 1
  BY <1>2
<1>4. Head(q) = q[1]
  OBVIOUS
<1>5. \A i \in DOMAIN Tail(q) :
        i \in Nat /\ i + 1 \in DOMAIN q /\ 1 \in DOMAIN q /\ i + 1 # 1
  BY <1>1, <1>3
<1>6. \A i, j \in DOMAIN q : q[i] = q[j] => i = j
  BY DEF IsInjective
<1>7. \A i \in DOMAIN Tail(q) : Tail(q)[i] = q[i + 1]
  BY <1>2, <1>3, <1>1
<1>8. \A i, j \in DOMAIN Tail(q) : Tail(q)[i] = Tail(q)[j] => i = j
  <2> TAKE i, j \in DOMAIN Tail(q)
  <2> HAVE Tail(q)[i] = Tail(q)[j]
  <2>1. i + 1 = j + 1
    BY <1>5, <1>6, <1>7
  <2> QED
    BY <2>1, <1>5
<1> QED
  BY <1>4, <1>5, <1>6, <1>7, <1>8 DEF IsInjective


(* With one activation at a time, proceeding to the rest of the batch      *)
(* after at most the current message was written keeps the batch ours.     *)
LEMMA ProceedKeepsBatch ==
  ASSUME Serial, TypeOK, BatchIsOurs, NEW r \in Runs, pc[r] \in Loop, Proceed(r),
         \A m \in Messages \ {Current(r)} : status'[m] = status[m]
  PROVE  BatchIsOurs'
<1> DEFINE q == queue[r]
<1>1. q \in Seq(Messages) /\ q # <<>> /\ IsInjective(q)
  BY DEF TypeOK, BatchIsOurs
<1>2. queue'[r] = Tail(q) /\ pc'[r] \in {"idle", "pick"}
  BY DEF Proceed, TypeOK
<1>3. IsInjective(Tail(q))
  BY <1>1, TailOfBatch
<1>4. ASSUME NEW i \in DOMAIN Tail(q) PROVE status'[Tail(q)[i]] \in Open
  <2>1. i + 1 \in DOMAIN q /\ Tail(q)[i] = q[i + 1] /\ Tail(q)[i] # Head(q)
    BY <1>1, <1>4, TailOfBatch
  <2>2. q[i + 1] \in Messages \ {Current(r)}
    BY <1>1, <2>1 DEF Current
  <2>3. status[q[i + 1]] \in Open
    BY <2>1 DEF BatchIsOurs
  <2> QED
    BY <2>1, <2>2, <2>3
<1>5. \A s \in Runs : s = r
  BY DEF Serial
<1> QED
  BY <1>2, <1>3, <1>4, <1>5 DEF BatchIsOurs, Loop

(* So does another step of the loop on a message that is PROCESSING.       *)
LEMMA GotoKeepsBatch ==
  ASSUME Serial, TypeOK, BatchIsOurs, NEW r \in Runs, pc[r] \in Loop,
         NEW step \in Loop, Goto(r, step), status'[Current(r)] = Processing,
         \A m \in Messages \ {Current(r)} : status'[m] = status[m]
  PROVE  BatchIsOurs'
<1>1. \A s \in Runs : s = r
  BY DEF Serial
<1>2. queue'[r] = queue[r] /\ queue[r] \in Seq(Messages) /\ Current(r)' = Current(r)
  BY DEF Goto, TypeOK, Current
<1>3. ASSUME NEW i \in DOMAIN queue[r] PROVE status'[queue[r][i]] \in Open
  BY <1>2, <1>3 DEF BatchIsOurs, Open
<1> QED
  BY <1>1, <1>2, <1>3 DEF BatchIsOurs

(* What a serial fetch returns is a batch of open messages.                *)
LEMMA FetchIsOpen ==
  ASSUME Serial, TypeOK, NEW q \in FetchResults
  PROVE  IsInjective(q) /\ \A i \in DOMAIN q : status[q[i]] \in Open
<1>1. \A i \in DOMAIN q : q[i] \in Fetchable
  BY DEF FetchResults
<1>2. \A m \in Fetchable : status[m] \in Open
  BY ProcessorAssumption DEF Fetchable, Serial, StoredStatus, Open
<1> QED
  BY <1>1, <1>2 DEF FetchResults, IsFetch

LEMMA BatchStaysOurs ==
  ASSUME Serial, TypeOK, BatchIsOurs, [Next]_vars
  PROVE  BatchIsOurs'
<1>1. ASSUME NEW m \in Messages, SaveMessage(m) PROVE BatchIsOurs'
  <2>1. UNCHANGED <<pc, queue>> /\ status[m] = Absent
    BY <1>1 DEF SaveMessage, activations
  <2>2. \A n \in Messages : status[n] \in Open => status'[n] = status[n]
    BY <1>1 DEF SaveMessage, UpdateStatus, TypeOK, Open, Absent, Pending, Processing, Failed
  <2>3. \A r \in Runs : Current(r)' = Current(r)
    BY <2>1 DEF Current
  <2>4. \A r \in Runs : \A i \in DOMAIN queue[r] : queue[r][i] \in Messages
    BY DEF TypeOK
  <2>5. \A r \in Runs : pc[r] \in Loop => Current(r) \in Messages
    BY CurrentType
  <2> QED
    BY <2>1, <2>2, <2>3, <2>4, <2>5 DEF BatchIsOurs, Open
<1>2. CASE UNCHANGED <<status, pc, queue>>
  BY <1>2 DEF BatchIsOurs, Current
<1>3. CASE Crash
  <2>1. \A r \in Runs : queue'[r] = <<>> /\ pc'[r] = "idle"
    BY <1>3 DEF Crash
  <2> QED
    BY <2>1 DEF BatchIsOurs, IsInjective, Loop
<1>4. ASSUME NEW r \in Runs, Tick(r) PROVE BatchIsOurs'
  <2>1. \A s \in Runs : s = r
    BY DEF Serial
  <2>2. UNCHANGED <<status, queue>> /\ pc'[r] = "fetch"
    BY <1>4 DEF Tick, Goto, store, TypeOK
  <2> QED
    BY <2>1, <2>2 DEF BatchIsOurs, Loop
<1>5. ASSUME NEW r \in Runs, RunStep(r) PROVE BatchIsOurs'
  <2>1. \A s \in Runs : s = r
    BY DEF Serial
  <2>2. CASE Fetch(r)
    <3>1. UNCHANGED status
      BY <2>2 DEF Fetch, store
    <3>2. CASE Goto(r, "idle")
      BY <2>1, <3>1, <3>2 DEF Goto, BatchIsOurs, TypeOK, Loop
    <3>3. ASSUME NEW q \in FetchResults, queue' = [queue EXCEPT ![r] = q],
                 pc' = [pc EXCEPT ![r] = IF q = <<>> THEN "idle" ELSE "pick"]
          PROVE  BatchIsOurs'
      <4>1. queue'[r] = q /\ pc'[r] \in {"idle", "pick"}
        BY <3>3 DEF TypeOK
      <4> QED
        BY <2>1, <3>1, <4>1, FetchIsOpen DEF BatchIsOurs, Loop
    <3> QED
      BY <2>2, <3>2, <3>3 DEF Fetch
  <2>3. CASE ~Fetch(r)
    <3>1. pc[r] \in Loop
      BY <1>5, <2>3 DEF RunStep, PickUp, Handle, MarkProcessed, IncrementAttempt, MarkFailed, Loop
    <3>2. Current(r) \in Messages
      BY <3>1, CurrentType
    <3>3. \A m \in Messages \ {Current(r)} : status'[m] = status[m]
      BY <1>5, <2>3 DEF RunStep, PickUp, Handle, MarkProcessed, IncrementAttempt, MarkFailed,
                        UpdateStatus, store, TypeOK
    <3>4. CASE Proceed(r)
      BY <3>1, <3>3, <3>4, ProceedKeepsBatch
    <3>5. CASE ~Proceed(r)
      <4>1. \E step \in Loop : Goto(r, step)
        BY <1>5, <2>3, <3>5
        DEF RunStep, PickUp, Handle, MarkProcessed, IncrementAttempt, MarkFailed, Loop
      <4>2. status'[Current(r)] = Processing
        <5>1. CASE PickUp(r)
          BY <3>2, <3>5, <5>1 DEF PickUp, UpdateStatus, TypeOK
        <5>2. CASE ~PickUp(r)
          <6>1. pc[r] # "pick" /\ status' = status
            BY <1>5, <2>3, <3>5, <5>2
            DEF RunStep, Handle, MarkProcessed, IncrementAttempt, MarkFailed, store
          <6> QED
            BY <3>1, <6>1 DEF BatchIsOurs
        <5> QED
          BY <5>1, <5>2
      <4> QED
        BY <3>1, <3>3, <4>1, <4>2, GotoKeepsBatch
    <3> QED
      BY <3>4, <3>5
  <2> QED
    BY <2>2, <2>3
<1> QED
  BY <1>1, <1>2, <1>3, <1>4, <1>5
  DEF Next, vars, Serial, RegisterHandler, StartProcessing, StopProcessing,
      CallProcessMessages, CallProcessMessage, store, activations


LEMMA CompletionsStayCounted ==
  ASSUME Serial, TypeOK, BatchIsOurs, CompletionsCounted, [Next]_vars
  PROVE  CompletionsCounted'
<1> SUFFICES ASSUME NEW m \in Messages
             PROVE  /\ handled'[m] <= unmarked'[m] + 1
                    /\ ~Recorded(m)' => handled'[m] <= unmarked'[m]
  BY DEF CompletionsCounted
<1> DEFINE h == handled[m]
           u == unmarked[m]
<1>1. h \in 0 .. MaxCount /\ u \in 0 .. MaxCount /\ MaxCount \in Nat
  BY ProcessorAssumption DEF TypeOK
<1>2. h <= u + 1 /\ (~Recorded(m) => h <= u)
  BY DEF CompletionsCounted
<1>3. ASSUME UNCHANGED <<handled, unmarked>>, Recorded(m) => Recorded(m)'
      PROVE  h <= u + 1 /\ handled'[m] = h /\ unmarked'[m] = u /\ (~Recorded(m)' => h <= u)
  BY <1>2, <1>3
<1>4. \A r, s \in Runs : r = s
  BY DEF Serial
<1>5. ASSUME NEW n \in Messages, SaveMessage(n) PROVE Recorded(m) => Recorded(m)'
  BY <1>5 DEF SaveMessage, UpdateStatus, activations, Recorded, Current, TypeOK, Absent, Processed
<1>6. ASSUME UNCHANGED <<status, pc, queue>> PROVE Recorded(m) => Recorded(m)'
  BY <1>6 DEF Recorded, Current
<1>7. ASSUME NEW r \in Runs, Tick(r) PROVE Recorded(m) => Recorded(m)'
  BY <1>4, <1>7 DEF Tick, Goto, store, Recorded, Current
<1>8. ASSUME NEW r \in Runs, Fetch(r) PROVE Recorded(m) => Recorded(m)'
  BY <1>4, <1>8 DEF Fetch, store, Recorded, Current
<1>9. CASE Crash
  <2>1. handled'[m] = h
    BY <1>9 DEF Crash
  <2>2. CASE \E r \in Runs : pc[r] = "mark" /\ Current(r) = m
    <3>1. unmarked'[m] = Bump(u)
      BY <1>9, <2>2 DEF Crash, Current
    <3> QED
      BY <1>1, <1>2, <2>1, <3>1 DEF Bump
  <2>3. CASE ~\E r \in Runs : pc[r] = "mark" /\ Current(r) = m
    <3>1. unmarked'[m] = u
      BY <1>9, <2>3 DEF Crash, Current
    <3>2. Recorded(m) => Recorded(m)'
      BY <1>9, <2>3 DEF Crash, store, Recorded
    <3> QED
      BY <1>2, <2>1, <3>1, <3>2
  <2> QED
    BY <2>2, <2>3
<1>10. ASSUME NEW r \in Runs, PickUp(r) \/ IncrementAttempt(r) \/ MarkFailed(r)
       PROVE  UNCHANGED <<handled, unmarked>> /\ (Recorded(m) => Recorded(m)')
  <2>1. pc[r] \in {"pick", "increment", "fail"} /\ Current(r) \in Messages
    BY <1>10, CurrentType DEF PickUp, IncrementAttempt, MarkFailed, Loop
  <2>2. status[Current(r)] \in Open
    <3>1. 1 \in DOMAIN queue[r] /\ Current(r) = queue[r][1]
      BY <2>1 DEF Current, TypeOK, Loop
    <3> QED
      BY <3>1 DEF BatchIsOurs
  <2>3. Recorded(m) => status[m] = Processed
    BY <1>4, <2>1 DEF Recorded
  <2>4. status[m] = Processed => status'[m] = Processed
    BY <1>10, <2>2
    DEF PickUp, IncrementAttempt, MarkFailed, UpdateStatus, TypeOK, Open, Pending, Processing,
        Processed, Failed
  <2> QED
    BY <1>10, <2>3, <2>4 DEF PickUp, IncrementAttempt, MarkFailed, Recorded
<1>11. ASSUME NEW r \in Runs, Handle(r)
       PROVE  /\ handled'[m] <= unmarked'[m] + 1
              /\ ~Recorded(m)' => handled'[m] <= unmarked'[m]
  <2>1. pc[r] = "handle" /\ Current(r) \in Messages /\ Current(r)' = Current(r)
        /\ UNCHANGED <<status, unmarked>>
    BY <1>11, CurrentType DEF Handle, Goto, store, Loop, Current
  <2>2. status[Current(r)] = Processing
    BY <2>1 DEF BatchIsOurs, Loop
  <2>3. Recorded(m) <=> status[m] = Processed
    BY <1>4, <2>1 DEF Recorded
  <2>4. CASE /\ handled' = [handled EXCEPT ![Current(r)] = Bump(@)]
             /\ pc'[r] = "mark"
             /\ m = Current(r)
    <3>1. ~Recorded(m) /\ Recorded(m)' /\ handled'[m] = Bump(h)
      BY <2>1, <2>2, <2>3, <2>4 DEF Recorded, TypeOK, Processing, Processed
    <3> QED
      BY <1>1, <1>2, <2>1, <3>1 DEF Bump
  <2>5. CASE handled'[m] = h
    BY <1>2, <2>1, <2>3, <2>5 DEF Recorded
  <2> QED
    BY <1>11, <2>1, <2>4, <2>5 DEF Handle, Goto, TypeOK
<1>12. ASSUME NEW r \in Runs, MarkProcessed(r)
       PROVE  /\ handled'[m] <= unmarked'[m] + 1
              /\ ~Recorded(m)' => handled'[m] <= unmarked'[m]
  <2>1. pc[r] = "mark" /\ Current(r) \in Messages /\ handled' = handled
    BY <1>12, CurrentType DEF MarkProcessed, Loop
  <2>2. Recorded(m) => m = Current(r) \/ status[m] = Processed
    BY <1>4 DEF Recorded
  <2>3. CASE UpdateStatus(Current(r), Processed) /\ UNCHANGED unmarked
    <3>1. Recorded(m) => Recorded(m)'
      BY <2>1, <2>2, <2>3 DEF UpdateStatus, Recorded, TypeOK
    <3> QED
      BY <1>2, <2>1, <2>3, <3>1
  <2>4. CASE unmarked' = [unmarked EXCEPT ![Current(r)] = Bump(@)] /\ UNCHANGED status
    <3>1. CASE m = Current(r)
      <4>1. unmarked'[m] = Bump(u)
        BY <2>1, <2>4, <3>1 DEF TypeOK
      <4> QED
        BY <1>1, <1>2, <2>1, <4>1 DEF Bump
    <3>2. CASE m # Current(r)
      BY <1>2, <2>1, <2>2, <2>4, <3>2 DEF TypeOK, Recorded
    <3> QED
      BY <3>1, <3>2
  <2> QED
    BY <1>12, <2>3, <2>4 DEF MarkProcessed
<1>13. CASE UNCHANGED vars
  BY <1>3, <1>6, <1>13 DEF vars
<1>14. CASE \E r \in Runs : RunStep(r)
  BY <1>3, <1>8, <1>10, <1>11, <1>12, <1>14 DEF RunStep, Fetch
<1>15. CASE (\E n \in Messages : SaveMessage(n)) \/ (\E r \in Runs : Tick(r))
  BY <1>3, <1>5, <1>7, <1>15 DEF SaveMessage, Tick
<1>16. CASE (\E t \in Types : RegisterHandler(t)) \/ StartProcessing \/ StopProcessing
  BY <1>3, <1>6, <1>16
  DEF RegisterHandler, StartProcessing, StopProcessing, store, activations
<1> QED
  BY <1>9, <1>13, <1>14, <1>15, <1>16
  DEF Next, Serial, CallProcessMessages, CallProcessMessage

LEMMA SerialInvariance ==
  ASSUME Serial
  PROVE  Spec => [](TypeOK /\ SerialInv)
<1>1. Init => SerialInv
  BY DEF Init, SerialInv, BatchIsOurs, CompletionsCounted, IsInjective, Loop
<1>2. TypeOK /\ SerialInv /\ [Next]_vars => SerialInv'
  BY BatchStaysOurs, CompletionsStayCounted DEF SerialInv
<1> QED
  BY <1>1, <1>2, TypeCorrect, PTL DEF Spec

(* When batches do not overlap, a message reaches a handler once more than *)
(* its completions were lost, at most: redelivery takes a crash or a       *)
(* rejected update between the handler and PROCESSED.                      *)
THEOREM RedeliveredOnlyAfterLoss ==
  ASSUME Serial
  PROVE  Spec => []RedeliveryNeedsLoss
<1>1. SerialInv => RedeliveryNeedsLoss
  BY DEF SerialInv, CompletionsCounted, RedeliveryNeedsLoss
<1> QED
  BY <1>1, SerialInvariance, PTL


-----------------------------------------------------------------------------
(* The refinement.  Between the handler and PROCESSED the message has been *)
(* delivered, which CompletionInv remembers; what the batch holds is open, *)
(* which makes its update a transition of the lifecycle.                   *)
Delivered == {m \in Messages : handled[m] > 0}

(* A run's update of its message is a move of the lifecycle, or repeats    *)
(* the state that is there.                                                *)
LEMMA StepsAreMoves ==
  ASSUME Serial, TypeOK, BatchIsOurs, CompletionInv, NEW r \in Runs, RunStep(r)
  PROVE  \/ Lifecycle!Next
         \/ UNCHANGED Lifecycle!vars
<1> USE DEF Delivered, Pending, Processing, Processed, Failed, Lifecycle!Pending,
            Lifecycle!Processing, Lifecycle!Processed, Lifecycle!Failed
<1>1. CASE Fetch(r)
  BY <1>1 DEF Fetch, store, Lifecycle!vars
<1>2. CASE ~Fetch(r)
  <2>1. pc[r] \in Loop
    BY <1>2, RunStep(r)
    DEF RunStep, PickUp, Handle, MarkProcessed, IncrementAttempt, MarkFailed, Loop
  <2>2. Current(r) \in Messages
    BY <2>1, CurrentType
  <2>3. status[Current(r)] \in Open
    <3>1. 1 \in DOMAIN queue[r] /\ Current(r) = queue[r][1]
      BY <2>1 DEF Current, TypeOK
    <3> QED
      BY <3>1 DEF BatchIsOurs
  <2>4. pc[r] # "pick" => status[Current(r)] = Processing
    BY <2>1 DEF BatchIsOurs
  <2>5. CASE PickUp(r)
    <3>1. handled' = handled
      BY <2>5 DEF PickUp
    <3>2. CASE status' = status
      BY <3>1, <3>2 DEF Lifecycle!vars
    <3>3. CASE status' = [status EXCEPT ![Current(r)] = Processing]
      <4>1. CASE status[Current(r)] = Processing
        BY <2>2, <3>1, <3>3, <4>1 DEF Lifecycle!vars, TypeOK
      <4>2. CASE status[Current(r)] # Processing
        <5>1. Lifecycle!PickUp(Current(r))
          BY <2>3, <3>1, <3>3, <4>2 DEF Lifecycle!PickUp, Lifecycle!Move, Open
        <5> QED
          BY <2>2, <5>1 DEF Lifecycle!Next
      <4> QED
        BY <4>1, <4>2
    <3> QED
      BY <2>5, <3>2, <3>3 DEF PickUp, UpdateStatus
  <2>6. CASE Handle(r)
    <3>1. status' = status /\ status[Current(r)] = Processing
      BY <2>4, <2>6 DEF Handle, store
    <3>2. CASE handled' = handled
      BY <3>1, <3>2 DEF Lifecycle!vars
    <3>3. CASE handled' = [handled EXCEPT ![Current(r)] = Bump(@)]
      <4>1. Bump(handled[Current(r)]) > 0
        BY <2>2, BumpType DEF TypeOK
      <4>2. Delivered' = Delivered \cup {Current(r)}
        BY <2>2, <3>3, <4>1 DEF TypeOK
      <4>3. \E m \in Messages : Lifecycle!Deliver(m)
        BY <2>2, <3>1, <4>2 DEF Lifecycle!Deliver
      <4> QED
        BY <4>3 DEF Lifecycle!Next
    <3> QED
      BY <2>6, <3>2, <3>3 DEF Handle
  <2>7. CASE MarkProcessed(r)
    <3>1. handled' = handled /\ status[Current(r)] = Processing
      BY <2>4, <2>7 DEF MarkProcessed
    <3>2. Current(r) \in Delivered
      BY <2>2, <2>7 DEF MarkProcessed, CompletionInv
    <3>3. CASE status' = status
      BY <3>1, <3>3 DEF Lifecycle!vars
    <3>4. CASE status' = [status EXCEPT ![Current(r)] = Processed]
      <4>1. Lifecycle!Complete(Current(r))
        BY <3>1, <3>2, <3>4 DEF Lifecycle!Complete, Lifecycle!Move
      <4> QED
        BY <2>2, <4>1 DEF Lifecycle!Next
    <3> QED
      BY <2>7, <3>3, <3>4 DEF MarkProcessed, UpdateStatus
  <2>8. CASE IncrementAttempt(r)
    BY <2>8 DEF IncrementAttempt, Lifecycle!vars
  <2>9. CASE MarkFailed(r)
    <3>1. handled' = handled /\ status[Current(r)] = Processing
      BY <2>4, <2>9 DEF MarkFailed
    <3>2. CASE status' = status
      BY <3>1, <3>2 DEF Lifecycle!vars
    <3>3. CASE status' = [status EXCEPT ![Current(r)] = Failed]
      <4>1. Lifecycle!Reject(Current(r))
        BY <3>1, <3>3 DEF Lifecycle!Reject, Lifecycle!Move
      <4> QED
        BY <2>2, <4>1 DEF Lifecycle!Next
    <3> QED
      BY <2>9, <3>2, <3>3 DEF MarkFailed, UpdateStatus
  <2> QED
    BY <1>2, <2>5, <2>6, <2>7, <2>8, <2>9 DEF RunStep
<1> QED
  BY <1>1, <1>2

(* With batches that do not overlap, the processor implements the          *)
(* lifecycle of outbox-interfaces.ts and HOW-TO-outbox.md: no transition   *)
(* is skipped, repeated backwards or taken without its handler, through    *)
(* failures, rejected updates and crashes.                                 *)
THEOREM ImplementsTheLifecycle ==
  ASSUME Serial
  PROVE  Spec => ImplementsLifecycle
<1>1. Init => Lifecycle!Init
  BY DEF Init, Lifecycle!Init, Absent, Lifecycle!Absent
<1>2. ASSUME TypeOK, SerialInv, CompletionInv, [Next]_vars
      PROVE  [Lifecycle!Next]_Lifecycle!vars
  <2>1. CASE UNCHANGED <<status, handled>>
    BY <2>1 DEF Lifecycle!vars
  <2>2. ASSUME NEW m \in Messages, SaveMessage(m) PROVE Lifecycle!Next
    <3>1. Lifecycle!Save(m)
      BY <2>2 DEF SaveMessage, UpdateStatus, Lifecycle!Save, Lifecycle!Move, Absent, Pending,
                  Lifecycle!Absent, Lifecycle!Pending
    <3> QED
      BY <3>1 DEF Lifecycle!Next
  <2>3. ASSUME NEW r \in Runs, RunStep(r) PROVE Lifecycle!Next \/ UNCHANGED Lifecycle!vars
    BY <1>2, <2>3, StepsAreMoves DEF SerialInv
  <2> QED
    BY <1>2, <2>1, <2>2, <2>3
    DEF Next, vars, store, Serial, RegisterHandler, StartProcessing, StopProcessing, Crash,
        Tick, CallProcessMessages, CallProcessMessage
<1>3. TypeOK /\ SerialInv /\ CompletionInv /\ [Next]_vars => [Lifecycle!Next]_Lifecycle!vars
  BY <1>2
<1> QED
  BY <1>1, <1>3, SerialInvariance, CompletionInvariance, PTL
  DEF Spec, ImplementsLifecycle, Lifecycle!Spec

(* So PROCESSED is final then, which it is not when batches overlap (run   *)
(* processor_reopens).                                                     *)
THEOREM SerialProcessedIsFinal ==
  ASSUME Serial
  PROVE  Spec => ProcessedIsFinal
<1>1. ASSUME TypeOK, [Lifecycle!Next]_Lifecycle!vars
      PROVE  [\A m \in Messages : status[m] = Processed => status'[m] = Processed]_vars
  <2>1. CASE UNCHANGED status
    BY <2>1
  <2>2. ASSUME NEW m \in Messages, NEW from, NEW to, Lifecycle!Move(m, from, to),
               Processed \notin from
        PROVE  \A n \in Messages : status[n] = Processed => status'[n] = Processed
    BY <1>1, <2>2 DEF Lifecycle!Move, TypeOK
  <2> QED
    BY <1>1, <2>1, <2>2
    DEF Lifecycle!Next, Lifecycle!vars, Lifecycle!Save, Lifecycle!PickUp, Lifecycle!Deliver,
        Lifecycle!Complete, Lifecycle!Reject, Lifecycle!Absent, Lifecycle!Pending,
        Lifecycle!Failed, Lifecycle!Processing, Processed
<1>2. TypeOK /\ [Lifecycle!Next]_Lifecycle!vars
        => [\A m \in Messages : status[m] = Processed => status'[m] = Processed]_vars
  BY <1>1
<1> QED
  BY <1>2, TypeCorrect, ImplementsTheLifecycle, PTL
  DEF ImplementsLifecycle, Lifecycle!Spec, ProcessedIsFinal

-----------------------------------------------------------------------------
(* The publications of the bus with an error handler *)

OnceEach(s) == \A i, j \in 1 .. Len(s) : s[i] = s[j] => i = j

PublicationTypes ==
  /\ Handling!TypeOK
  /\ stack \in Seq(Publications)
  /\ OnceEach(stack)
  /\ over \in [Publications -> 0 .. created] /\ cursor \in [Publications -> Nat]
  /\ target \in [Publications -> {None}]
  /\ expected \in [Publications -> SUBSET Handlers]
  /\ renewed \in [Publications -> SUBSET Handlers]
  /\ calls \in [Publications -> SUBSET (Handlers \X Nat)]
  /\ promises \in [Publications -> SUBSET Nat]

(* The clock stamps every insertion anew.                                  *)
StampsDiffer ==
  \A i \in 1 .. MaxSets : \A h, g \in Handlers :
    /\ sets[i][h] <= clock
    /\ sets[i][h] = sets[i][g] /\ h # g => sets[i][h] = 0

(* A publication has called nothing before it starts, goes over a Set that *)
(* exists, and has come as far as its cursor.                              *)
Walk(p) ==
  /\ place[p] = "idle" => cursor[p] = 0 /\ calls[p] = {} /\ promises[p] = {}
  /\ place[p] \in {"calling", "inside"} \/ calls[p] # {} => over[p] # 0
  /\ place[p] = "inside" => cursor[p] # 0
  /\ \A c \in calls[p] : c[2] \in 1 .. cursor[p]

(* What is expected of it is subscribed to the Set it goes over, and was   *)
(* called or is still ahead.                                               *)
Expects(p) ==
  /\ expected[p] \subseteq Handling!Subscribed
  /\ expected[p] # {} => over[p] = current
  /\ place[p] \in {"calling", "inside"} =>
       \A h \in expected[p] :
         \/ sets[current][h] > cursor[p]
         \/ <<h, sets[current][h]>> \in calls[p]

(* A handler it called and that was not subscribed anew was called once,   *)
(* and has the stamp it was called at or has left.                         *)
CalledAt(p) ==
  /\ \A c \in calls[p] : c[1] \notin renewed[p] => sets[over[p]][c[1]] \in {0, c[2]}
  /\ \A c, d \in calls[p] : c[1] = d[1] /\ c # d => c[1] \in renewed[p]

PublicationInv ==
  /\ PublicationTypes /\ StampsDiffer
  /\ \A p \in Publications : Walk(p) /\ Expects(p) /\ CalledAt(p)
  /\ Handling!EveryHandlerCalled

LEMMA BusConstants ==
  /\ MaxStamps \in Nat /\ MaxSets \in Nat /\ Troubles \in Nat
  /\ None \notin Contexts
BY EventBusesAssumption DEF Handling!BusAssumption, Integration!BusAssumption

LEMMA PublicationStart ==
  ASSUME Handling!Init
  PROVE  PublicationInv
<1> USE DEF Handling!Init
<1>1. Handling!TypeOK
  BY BusConstants DEF Handling!TypeOK, Handling!Steps, Handling!Subscribed
<1>2. stack \in Seq(Publications) /\ Len(stack) = 0
  OBVIOUS
<1>3. PublicationTypes
  BY <1>1, <1>2 DEF PublicationTypes, OnceEach
<1>4. StampsDiffer
  BY DEF StampsDiffer
<1>5. \A p \in Publications : Walk(p) /\ Expects(p) /\ CalledAt(p)
  BY DEF Walk, Expects, CalledAt, Handling!Subscribed
<1>6. Handling!EveryHandlerCalled
  BY DEF Handling!EveryHandlerCalled
<1> QED
  BY <1>3, <1>4, <1>5, <1>6 DEF PublicationInv

(* A handler leaves the Set in the map.                                    *)
LEMMA Unsubscribed ==
  ASSUME PublicationInv, NEW h \in Handlers, Handling!Unsubscribe(h)
  PROVE  PublicationInv'
<1>1. /\ h \in Handling!Subscribed
      /\ sets' = [sets EXCEPT ![current][h] = 0]
      /\ current' = IF Handling!Subscribed = {h} THEN 0 ELSE current
      /\ expected' = [p \in Publications |-> expected[p] \ {h}]
      /\ UNCHANGED <<created, clock, contextOf, given, elsewhere, stack, place, target,
                     over, cursor, promises, calls, renewed, troubled, informed,
                     failures>>
  BY DEF Handling!Unsubscribe
<1>2. /\ sets \in [1 .. MaxSets -> [Handlers -> 0 .. MaxStamps]]
      /\ current \in 1 .. created /\ created \in 0 .. MaxSets /\ clock \in 0 .. MaxStamps
      /\ current \in 1 .. MaxSets /\ created \in Nat /\ MaxSets \in Nat /\ MaxStamps \in Nat
  BY <1>1, BusConstants
     DEF PublicationInv, PublicationTypes, Handling!TypeOK, Handling!Subscribed
<1>3. /\ sets' \in [1 .. MaxSets -> [Handlers -> 0 .. MaxStamps]]
      /\ sets'[current][h] = 0
      /\ \A i \in 1 .. MaxSets : \A g \in Handlers :
           i # current \/ g # h => sets'[i][g] = sets[i][g]
  BY <1>1, <1>2
<1>4. /\ current' # 0 => current' = current
      /\ Handling!Subscribed' = Handling!Subscribed \ {h}
      /\ current' # 0 => Handling!Subscribed' # {}
  BY <1>1, <1>2, <1>3 DEF Handling!Subscribed
<1>5. PublicationTypes'
  <2>1. Handling!TypeOK'
    BY <1>1, <1>2, <1>3, <1>4 DEF PublicationInv, PublicationTypes, Handling!TypeOK
  <2> QED
    BY <1>1, <2>1 DEF PublicationInv, PublicationTypes
<1>6. StampsDiffer'
  <2>1. StampsDiffer /\ clock' = clock
    BY <1>1 DEF PublicationInv
  <2>2. ASSUME NEW i \in 1 .. MaxSets, NEW f \in Handlers
        PROVE  sets'[i][f] = sets[i][f] \/ sets'[i][f] = 0
    BY <1>3
  <2>3. \A i \in 1 .. MaxSets : \A f \in Handlers : sets'[i][f] <= clock
    BY <1>2, <2>1, <2>2 DEF StampsDiffer
  <2>4. \A i \in 1 .. MaxSets : \A f, g \in Handlers :
          sets'[i][f] = sets'[i][g] /\ f # g => sets'[i][f] = 0
    BY <2>1, <2>2 DEF StampsDiffer
  <2> QED
    BY <2>1, <2>3, <2>4 DEF StampsDiffer
<1>7. ASSUME NEW p \in Publications PROVE Walk(p)' /\ Expects(p)' /\ CalledAt(p)'
  <2>1. Walk(p) /\ Expects(p) /\ CalledAt(p) /\ expected[p] \subseteq Handlers
    BY DEF PublicationInv, PublicationTypes
  <2>2. expected'[p] = expected[p] \ {h}
    BY <1>1
  <2>3. Walk(p)'
    BY <1>1, <2>1 DEF Walk
  <2>4. Expects(p)'
    <3>1. \A g \in expected'[p] : sets'[current][g] = sets[current][g]
      BY <1>2, <1>3, <2>1, <2>2
    <3>2. expected'[p] # {} => current' = current
      BY <1>4, <2>1, <2>2 DEF Expects, Handling!Subscribed
    <3> QED
      BY <1>1, <1>4, <2>1, <2>2, <3>1, <3>2 DEF Expects
  <2>5. CalledAt(p)'
    <3>1. ASSUME NEW c \in calls[p], c[1] \notin renewed[p]
          PROVE  sets'[over[p]][c[1]] \in {0, c[2]}
      <4>1. over[p] \in 1 .. MaxSets /\ c[1] \in Handlers
        BY <1>2, <2>1 DEF PublicationInv, PublicationTypes, Walk
      <4>2. sets[over[p]][c[1]] \in {0, c[2]}
        BY <2>1, <3>1 DEF CalledAt
      <4> QED
        BY <1>3, <4>1, <4>2
    <3> QED
      BY <1>1, <2>1, <3>1 DEF CalledAt
  <2> QED
    BY <2>3, <2>4, <2>5
<1>8. Handling!EveryHandlerCalled'
  BY <1>1 DEF PublicationInv, Handling!EveryHandlerCalled
<1> QED
  BY <1>5, <1>6, <1>7, <1>8 DEF PublicationInv

(* A handler that is there stays as it is; another one gets a new stamp.   *)
LEMMA Subscribes ==
  ASSUME PublicationInv, NEW h \in Handlers, NEW c \in {None}, Handling!Subscribe(h, c)
  PROVE  PublicationInv'
<1>1. /\ UNCHANGED <<stack, place, target, over, cursor, promises, calls, expected,
                     troubled, informed, failures>>
      /\ contextOf' = contextOf /\ elsewhere' = elsewhere
      /\ given' = given \/ given' = [given EXCEPT ![h] = None]
      /\ Handling!Insert(h)
  BY DEF Handling!Subscribe
<1>0. {contextOf', given', elsewhere'} \subseteq [Handlers -> {} \cup {None}]
  <2>1. given \in [Handlers -> {} \cup {None}]
    BY DEF PublicationInv, PublicationTypes, Handling!TypeOK
  <2>2. [given EXCEPT ![h] = None] \in [Handlers -> {} \cup {None}]
    BY <2>1
  <2> QED
    BY <1>1, <2>1, <2>2 DEF PublicationInv, PublicationTypes, Handling!TypeOK
<1>2. CASE h \in Handling!Subscribed
  <2>1. UNCHANGED <<sets, created, current, clock, renewed>>
    BY <1>1, <1>2 DEF Handling!Insert
  <2>2. PublicationTypes'
    BY <1>0, <1>1, <2>1 DEF PublicationInv, PublicationTypes, Handling!TypeOK, Handling!Subscribed
  <2>3. StampsDiffer'
    BY <2>1 DEF PublicationInv, StampsDiffer
  <2>4. \A p \in Publications : Walk(p)' /\ Expects(p)' /\ CalledAt(p)'
    BY <1>1, <2>1 DEF PublicationInv, Walk, Expects, CalledAt, Handling!Subscribed
  <2>5. Handling!EveryHandlerCalled'
    BY <1>1 DEF PublicationInv, Handling!EveryHandlerCalled
  <2> QED
    BY <2>2, <2>3, <2>4, <2>5 DEF PublicationInv
<1>3. CASE h \notin Handling!Subscribed
  <2> DEFINE i == IF current = 0 THEN created + 1 ELSE current
  <2>1. /\ i <= MaxSets /\ clock < MaxStamps
        /\ created' = IF current = 0 THEN i ELSE created
        /\ current' = i
        /\ clock' = clock + 1
        /\ sets' = [sets EXCEPT ![i][h] = clock + 1]
        /\ renewed' = [p \in Publications |-> renewed[p] \cup {h}]
    BY <1>1, <1>3 DEF Handling!Insert
  <2>2. /\ sets \in [1 .. MaxSets -> [Handlers -> 0 .. MaxStamps]]
        /\ current \in 0 .. created /\ created \in 0 .. MaxSets /\ clock \in 0 .. MaxStamps
        /\ MaxSets \in Nat /\ MaxStamps \in Nat
    BY BusConstants DEF PublicationInv, PublicationTypes, Handling!TypeOK
  <2>3. /\ i \in 1 .. MaxSets /\ current' \in 1 .. created' /\ created' \in 0 .. MaxSets
        /\ created <= created' /\ clock + 1 \in 1 .. MaxStamps
        /\ current # 0 => i = current
        /\ current = 0 => i > created
    BY <2>1, <2>2
  <2> HIDE DEF i
  <2>4. /\ sets' \in [1 .. MaxSets -> [Handlers -> 0 .. MaxStamps]]
        /\ sets'[i][h] = clock + 1
        /\ \A j \in 1 .. MaxSets : \A g \in Handlers :
             j # i \/ g # h => sets'[j][g] = sets[j][g]
    BY <2>1, <2>2, <2>3
  <2>5. /\ h \in Handling!Subscribed'
        /\ Handling!Subscribed \subseteq Handling!Subscribed'
    BY <2>1, <2>2, <2>3, <2>4 DEF Handling!Subscribed
  <2>6. PublicationTypes'
    <3>1. Handling!TypeOK'
      <4>1. /\ {contextOf', given', elsewhere'} \subseteq [Handlers -> {} \cup {None}]
            /\ place' \in [Publications -> Handling!Steps]
        BY <1>0, <1>1 DEF PublicationInv, PublicationTypes, Handling!TypeOK
      <4>2. \A p \in Publications :
              /\ p \in {stack'[j] : j \in DOMAIN stack'} <=> place'[p] \in {"calling", "inside"}
              /\ promises'[p] \subseteq 1 .. cursor'[p]
        BY <1>1 DEF PublicationInv, PublicationTypes, Handling!TypeOK
      <4>3. current' \in 0 .. created' /\ clock' \in 0 .. MaxStamps
        BY <2>1, <2>2, <2>3
      <4> QED
        BY <2>3, <2>4, <2>5, <4>1, <4>2, <4>3 DEF Handling!TypeOK
    <3>2. /\ stack' \in Seq(Publications)
          /\ \A j, k \in 1 .. Len(stack') : stack'[j] = stack'[k] => j = k
          /\ cursor' \in [Publications -> Nat] /\ target' \in [Publications -> {None}]
          /\ expected' \in [Publications -> SUBSET Handlers]
          /\ calls' \in [Publications -> SUBSET (Handlers \X Nat)]
          /\ promises' \in [Publications -> SUBSET Nat]
      BY <1>1 DEF PublicationInv, PublicationTypes, OnceEach
    <3>3. over' \in [Publications -> 0 .. created']
      <4>1. over \in [Publications -> 0 .. created] /\ 0 .. created \subseteq 0 .. created'
        BY <2>2, <2>3 DEF PublicationInv, PublicationTypes
      <4> QED
        BY <1>1, <4>1
    <3>4. renewed' \in [Publications -> SUBSET Handlers]
      BY <2>1 DEF PublicationInv, PublicationTypes
    <3> QED
      BY <3>1, <3>2, <3>3, <3>4 DEF PublicationTypes, OnceEach
  <2>7. StampsDiffer'
    <3>1. \A j \in 1 .. MaxSets : \A g, k \in Handlers :
            /\ sets[j][g] <= clock /\ sets[j][g] \in Nat
            /\ sets[j][g] = sets[j][k] /\ g # k => sets[j][g] = 0
      BY <2>2 DEF PublicationInv, StampsDiffer
    <3>2. ASSUME NEW j \in 1 .. MaxSets, NEW g \in Handlers, NEW k \in Handlers
          PROVE  /\ sets'[j][g] <= clock'
                 /\ sets'[j][g] = sets'[j][k] /\ g # k => sets'[j][g] = 0
      BY <2>1, <2>2, <2>4, <3>1
    <3> QED
      BY <3>2 DEF StampsDiffer
  <2>8. ASSUME NEW p \in Publications PROVE Walk(p)' /\ Expects(p)' /\ CalledAt(p)'
    <3>1. Walk(p) /\ Expects(p) /\ CalledAt(p) /\ expected[p] \subseteq Handlers
      BY DEF PublicationInv, PublicationTypes
    <3>2. Walk(p)'
      BY <1>1, <3>1 DEF Walk
    <3>3. Expects(p)'
      <4>1. expected[p] # {} => current # 0
        BY <3>1 DEF Expects, Handling!Subscribed
      <4>2. \A g \in expected[p] : sets'[i][g] = sets[current][g]
        BY <1>3, <2>3, <2>4, <3>1, <4>1 DEF Expects
      <4>3. expected[p] # {} => current' = current
        BY <2>1, <2>3, <4>1
      <4> QED
        BY <1>1, <2>1, <2>5, <3>1, <4>2, <4>3 DEF Expects
    <3>4. CalledAt(p)'
      <4>1. ASSUME NEW d \in calls[p], d[1] \notin renewed'[p]
            PROVE  sets'[over[p]][d[1]] \in {0, d[2]}
        <5>1. over[p] \in 1 .. MaxSets /\ d[1] \in Handlers
          BY <2>2, <3>1 DEF PublicationInv, PublicationTypes, Walk
        <5>2. d[1] \notin renewed[p] /\ d[1] # h
          BY <2>1, <4>1
        <5> QED
          BY <2>4, <3>1, <5>1, <5>2 DEF CalledAt
      <4>2. renewed[p] \subseteq renewed'[p]
        BY <2>1
      <4>3. \A d, e \in calls[p] : d[1] = e[1] /\ d # e => d[1] \in renewed'[p]
        BY <3>1, <4>2 DEF CalledAt
      <4> QED
        BY <1>1, <4>1, <4>3 DEF CalledAt
    <3> QED
      BY <3>2, <3>3, <3>4
  <2>9. Handling!EveryHandlerCalled'
    BY <1>1 DEF PublicationInv, Handling!EveryHandlerCalled
  <2> QED
    BY <2>6, <2>7, <2>8, <2>9 DEF PublicationInv
<1> QED
  BY <1>2, <1>3

(* The Set leaves the map, and nothing is expected any more.               *)
LEMMA Cleared ==
  ASSUME PublicationInv, Handling!ClearHandlers
  PROVE  PublicationInv'
<1>1. /\ current' = 0 /\ expected' = [p \in Publications |-> {}]
      /\ UNCHANGED <<sets, created, clock, contextOf, given, elsewhere, stack, place,
                     target, over, cursor, promises, calls, renewed, troubled, informed,
                     failures>>
  BY DEF Handling!ClearHandlers
<1>2. PublicationTypes'
  BY <1>1 DEF PublicationInv, PublicationTypes, Handling!TypeOK
<1>3. StampsDiffer'
  BY <1>1 DEF PublicationInv, StampsDiffer
<1>4. \A p \in Publications : Walk(p)' /\ Expects(p)' /\ CalledAt(p)'
  BY <1>1 DEF PublicationInv, Walk, Expects, CalledAt, Handling!Subscribed
<1>5. Handling!EveryHandlerCalled'
  BY <1>1 DEF PublicationInv, Handling!EveryHandlerCalled
<1> QED
  BY <1>2, <1>3, <1>4, <1>5 DEF PublicationInv

(* What a publication that stands at its end has called.                   *)
Finished(p) ==
  place[p] \in {"awaiting"} \cup Handling!Settled
    => expected[p] \subseteq {call[1] : call \in calls[p]}

(* A step of the publication p leaves the others as they are.              *)
LEMMA OthersWalk ==
  ASSUME PublicationInv, PublicationTypes', NEW p \in Publications,
         UNCHANGED <<sets, created, current, clock, contextOf, given, elsewhere>>,
         \A r \in Publications \ {p} :
           /\ place'[r] = place[r] /\ over'[r] = over[r] /\ cursor'[r] = cursor[r]
           /\ promises'[r] = promises[r] /\ calls'[r] = calls[r]
           /\ expected'[r] = expected[r] /\ renewed'[r] = renewed[r],
         Walk(p)', Expects(p)', CalledAt(p)', Finished(p)'
  PROVE  PublicationInv'
<1>1. StampsDiffer'
  BY DEF PublicationInv, StampsDiffer
<1>2. \A r \in Publications \ {p} : Walk(r)' /\ Expects(r)' /\ CalledAt(r)' /\ Finished(r)'
  BY DEF PublicationInv, Walk, Expects, CalledAt, Finished, Handling!EveryHandlerCalled,
         Handling!Subscribed
<1>3. \A r \in Publications : Walk(r)' /\ Expects(r)' /\ CalledAt(r)' /\ Finished(r)'
  BY <1>2
<1>4. Handling!EveryHandlerCalled'
  BY <1>3 DEF Finished, Handling!EveryHandlerCalled
<1> QED
  BY <1>1, <1>3, <1>4 DEF PublicationInv

(* Who is on the stack is in its synchronous part.                         *)
StackOf(S, s, at_) == \A p \in S :
  p \in {s[i] : i \in DOMAIN s} <=> at_[p] \in {"calling", "inside"}

LEMMA Pushed ==
  ASSUME NEW S, NEW s \in Seq(S), NEW a, NEW p \in S, NEW b,
         OnceEach(s), StackOf(S, s, a),
         a[p] \notin {"calling", "inside"}, b[p] = "calling",
         \A r \in S \ {p} : b[r] = a[r]
  PROVE  /\ <<p>> \o s \in Seq(S) /\ StackOf(S, <<p>> \o s, b)
         /\ OnceEach(<<p>> \o s)
<1> DEFINE t == <<p>> \o s
<1>1. /\ t \in Seq(S) /\ Len(t) = Len(s) + 1 /\ Len(s) \in Nat
      /\ t[1] = p /\ \A i \in 1 .. Len(s) : t[i + 1] = s[i]
      /\ DOMAIN t = 1 .. Len(t) /\ DOMAIN s = 1 .. Len(s)
  <2>1. /\ <<p>> \in Seq(S) /\ Len(<<p>>) = 1 /\ <<p>>[1] = p
    OBVIOUS
  <2> QED
    BY <2>1, ConcatProperties
<1> HIDE DEF t
<1>2. \A i \in 1 .. Len(t) : i = 1 \/ (i - 1 \in 1 .. Len(s) /\ t[i] = s[i - 1])
  BY <1>1
<1>3. \A i \in 1 .. Len(s) : s[i] # p
  BY <1>1 DEF StackOf
<1>4. ASSUME NEW i \in 1 .. Len(t), NEW j \in 1 .. Len(t), t[i] = t[j]
      PROVE  i = j
  <2>1. CASE i = 1 \/ j = 1
    <3>1. \A k \in 1 .. Len(t) : k # 1 => t[k] # p
      BY <1>2, <1>3
    <3> QED
      BY <1>1, <1>4, <2>1, <3>1
  <2>2. CASE i # 1 /\ j # 1
    <3>1. /\ i - 1 \in 1 .. Len(s) /\ t[i] = s[i - 1]
          /\ j - 1 \in 1 .. Len(s) /\ t[j] = s[j - 1]
      BY <1>2, <2>2
    <3>2. i - 1 = j - 1
      BY <1>4, <3>1 DEF OnceEach
    <3> QED
      BY <1>1, <3>2
  <2> QED
    BY <2>1, <2>2
<1>5. ASSUME NEW r \in S
      PROVE  r \in {t[i] : i \in DOMAIN t} <=> b[r] \in {"calling", "inside"}
  <2>1. CASE r = p
    BY <1>1, <2>1
  <2>2. CASE r # p
    <3>1. r \in {t[i] : i \in DOMAIN t} <=> r \in {s[i] : i \in DOMAIN s}
      <4>1. ASSUME NEW i \in DOMAIN t, r = t[i] PROVE r \in {s[j] : j \in DOMAIN s}
        BY <1>1, <1>2, <2>2, <4>1
      <4>2. ASSUME NEW i \in DOMAIN s, r = s[i] PROVE r \in {t[j] : j \in DOMAIN t}
        <5>1. i + 1 \in DOMAIN t /\ t[i + 1] = r
          BY <1>1, <4>2
        <5> QED
          BY <5>1
      <4> QED
        BY <4>1, <4>2
    <3> QED
      BY <2>2, <3>1 DEF StackOf
  <2> QED
    BY <2>1, <2>2
<1> QED
  BY <1>1, <1>4, <1>5 DEF StackOf, OnceEach, t

LEMMA Popped ==
  ASSUME NEW S, NEW s \in Seq(S), s # <<>>, NEW a, NEW b,
         OnceEach(s), StackOf(S, s, a),
         b[Head(s)] \notin {"calling", "inside"},
         \A r \in S \ {Head(s)} : b[r] = a[r]
  PROVE  /\ Tail(s) \in Seq(S) /\ StackOf(S, Tail(s), b)
         /\ OnceEach(Tail(s))
<1> DEFINE t == Tail(s)
<1>1. /\ t \in Seq(S) /\ Len(t) = Len(s) - 1 /\ Len(s) \in Nat \ {0}
      /\ Head(s) = s[1] /\ \A i \in 1 .. Len(t) : t[i] = s[i + 1]
      /\ DOMAIN t = 1 .. Len(t) /\ DOMAIN s = 1 .. Len(s)
  BY HeadTailProperties, LenProperties
<1> HIDE DEF t
<1>2. \A i \in 1 .. Len(s) : i = 1 \/ (i - 1 \in 1 .. Len(t) /\ s[i] = t[i - 1])
  BY <1>1
<1>3. \A i \in 1 .. Len(t) : t[i] # Head(s)
  BY <1>1 DEF OnceEach
<1>4. OnceEach(t)
  BY <1>1 DEF OnceEach
<1>5. ASSUME NEW r \in S
      PROVE  r \in {t[i] : i \in DOMAIN t} <=> b[r] \in {"calling", "inside"}
  <2>1. CASE r = Head(s)
    BY <1>1, <1>3, <2>1
  <2>2. CASE r # Head(s)
    <3>1. r \in {t[i] : i \in DOMAIN t} <=> r \in {s[i] : i \in DOMAIN s}
      <4>1. ASSUME NEW i \in DOMAIN s, r = s[i] PROVE r \in {t[j] : j \in DOMAIN t}
        BY <1>1, <1>2, <2>2, <4>1
      <4>2. ASSUME NEW i \in DOMAIN t, r = t[i] PROVE r \in {s[j] : j \in DOMAIN s}
        <5>1. i + 1 \in DOMAIN s /\ s[i + 1] = r
          BY <1>1, <4>2
        <5> QED
          BY <5>1
      <4> QED
        BY <4>1, <4>2
    <3> QED
      BY <2>2, <3>1 DEF StackOf
  <2> QED
    BY <2>1, <2>2
<1> QED
  BY <1>1, <1>4, <1>5 DEF StackOf, t

LEMMA TypesKept ==
  ASSUME PublicationTypes, UNCHANGED <<sets, created, current, clock, contextOf, given,
                                       elsewhere>>,
         place' \in [Publications -> Handling!Steps], stack' \in Seq(Publications),
         OnceEach(stack'),
         StackOf(Publications, stack', place'), over' \in [Publications -> 0 .. created],
         cursor' \in [Publications -> Nat], target' \in [Publications -> {None}],
         expected' \in [Publications -> SUBSET Handlers],
         renewed' \in [Publications -> SUBSET Handlers],
         calls' \in [Publications -> SUBSET (Handlers \X Nat)],
         promises' \in [Publications -> SUBSET Nat],
         \A p \in Publications : promises'[p] \subseteq 1 .. cursor'[p]
  PROVE  PublicationTypes'
<1>1. current' # 0 => Handling!Subscribed' # {}
  BY DEF PublicationTypes, Handling!TypeOK, Handling!Subscribed
<1>2. Handling!TypeOK'
  BY <1>1 DEF PublicationTypes, Handling!TypeOK, StackOf
<1> QED
  BY <1>2 DEF PublicationTypes

(* Everything the types say of one publication.                            *)
LEMMA TypesOf ==
  ASSUME PublicationInv
  PROVE  /\ place \in [Publications -> Handling!Steps] /\ stack \in Seq(Publications)
         /\ OnceEach(stack)
         /\ StackOf(Publications, stack, place) /\ over \in [Publications -> 0 .. created]
         /\ cursor \in [Publications -> Nat] /\ target \in [Publications -> {None}]
         /\ expected \in [Publications -> SUBSET Handlers]
         /\ renewed \in [Publications -> SUBSET Handlers]
         /\ calls \in [Publications -> SUBSET (Handlers \X Nat)]
         /\ promises \in [Publications -> SUBSET Nat]
         /\ \A p \in Publications : promises[p] \subseteq 1 .. cursor[p]
         /\ created \in 0 .. MaxSets /\ current \in 0 .. created /\ MaxSets \in Nat
         /\ sets \in [1 .. MaxSets -> [Handlers -> 0 .. MaxStamps]] /\ MaxStamps \in Nat
BY BusConstants DEF PublicationInv, PublicationTypes, Handling!TypeOK, StackOf

LEMMA Publishes ==
  ASSUME PublicationInv, NEW p \in Publications, NEW t \in {None}, Handling!Publish(p, t)
  PROVE  PublicationInv'
<1> DEFINE subscribed == Handling!Subscribed
<1>1. /\ place[p] = "idle"
      /\ target' = [target EXCEPT ![p] = t]
      /\ over' = [over EXCEPT ![p] = current]
      /\ renewed' = [renewed EXCEPT ![p] = {}]
      /\ IF subscribed = {}
         THEN place' = [place EXCEPT ![p] = "resolved"] /\ UNCHANGED stack
         ELSE place' = [place EXCEPT ![p] = "calling"] /\ stack' = <<p>> \o stack
      /\ UNCHANGED <<sets, created, current, clock, contextOf, given, elsewhere, cursor,
                     promises, calls, troubled, informed, failures>>
  BY DEF Handling!Publish, Handling!Goto, Handling!registry
<1>2. expected' = [expected EXCEPT ![p] = subscribed]
  BY DEF Handling!Publish, Handling!Wants
<1>3. subscribed \subseteq Handlers /\ (subscribed # {} => current # 0)
      /\ subscribed' = subscribed
  BY <1>1 DEF Handling!Subscribed
<1>4. \A h \in subscribed : sets[current][h] \in Nat \ {0}
  BY TypesOf, <1>3 DEF Handling!Subscribed
<1> HIDE DEF subscribed
<1>5. PublicationTypes'
  <2>1. /\ stack' \in Seq(Publications) /\ StackOf(Publications, stack', place')
        /\ OnceEach(stack')
    <3>1. CASE subscribed = {}
      <4>1. place'[p] = "resolved" /\ \A r \in Publications \ {p} : place'[r] = place[r]
        BY <1>1, <3>1, TypesOf
      <4>2. StackOf(Publications, stack, place')
        BY <1>1, <4>1, TypesOf DEF StackOf
      <4>3. stack' = stack
        BY <1>1, <3>1
      <4> QED
        BY <4>2, <4>3, TypesOf
    <3>2. CASE subscribed # {}
      <4>1. place'[p] = "calling" /\ \A r \in Publications \ {p} : place'[r] = place[r]
        BY <1>1, <3>2, TypesOf
      <4>2. stack' = <<p>> \o stack
        BY <1>1, <3>2
      <4>3. PICK a, b, s : a = place /\ b = place' /\ s = stack
        OBVIOUS
      <4>4. /\ s \in Seq(Publications) /\ StackOf(Publications, s, a)
            /\ a[p] \notin {"calling", "inside"}
            /\ OnceEach(s)
            /\ b[p] = "calling" /\ \A r \in Publications \ {p} : b[r] = a[r]
        BY <1>1, <4>1, <4>3, TypesOf
      <4>5. /\ <<p>> \o s \in Seq(Publications) /\ StackOf(Publications, <<p>> \o s, b)
            /\ OnceEach(<<p>> \o s)
        BY <4>4, Pushed
      <4> QED
        BY <4>2, <4>3, <4>5
    <3> QED
      BY <3>1, <3>2
  <2>2. /\ place' \in [Publications -> Handling!Steps]
        /\ over' \in [Publications -> 0 .. created]
        /\ target' \in [Publications -> {None}]
        /\ expected' \in [Publications -> SUBSET Handlers]
        /\ renewed' \in [Publications -> SUBSET Handlers]
    BY <1>1, <1>2, <1>3, TypesOf DEF Handling!Steps
  <2>3. PublicationTypes
    BY DEF PublicationInv
  <2> QED
    BY <1>1, <2>1, <2>2, <2>3, TypesOf, TypesKept
<1>6. /\ cursor[p] = 0 /\ calls[p] = {} /\ promises[p] = {}
  BY <1>1 DEF PublicationInv, Walk
<1>7. /\ place'[p] = IF subscribed = {} THEN "resolved" ELSE "calling"
      /\ over'[p] = current /\ expected'[p] = subscribed /\ renewed'[p] = {}
  BY <1>1, <1>2, TypesOf
<1>8. Walk(p)' /\ CalledAt(p)'
  BY <1>1, <1>3, <1>6, <1>7 DEF Walk, CalledAt
<1>9. Expects(p)'
  BY <1>1, <1>3, <1>4, <1>6, <1>7 DEF Expects, subscribed
<1>10. Finished(p)'
  BY <1>7 DEF Finished, Handling!Settled
<1>11. \A r \in Publications \ {p} :
         /\ place'[r] = place[r] /\ over'[r] = over[r] /\ cursor'[r] = cursor[r]
         /\ promises'[r] = promises[r] /\ calls'[r] = calls[r]
         /\ expected'[r] = expected[r] /\ renewed'[r] = renewed[r]
  BY <1>1, <1>2, TypesOf
<1> QED
  BY <1>1, <1>5, <1>8, <1>9, <1>10, <1>11, OthersWalk

LEMMA Calls ==
  ASSUME PublicationInv, NEW p \in Publications, Handling!CallHandler(p)
  PROVE  PublicationInv'
<1>1. /\ place[p] = "calling" /\ Handling!OnTop(p)
      /\ UNCHANGED <<sets, created, current, clock, contextOf, given, elsewhere, stack,
                     target, over, promises, expected, renewed, troubled, informed,
                     failures>>
  BY DEF Handling!CallHandler, Handling!registry
<1>2. PICK h \in Handling!Ahead(p) :
        /\ \A other \in Handling!Ahead(p) : sets[over[p]][h] <= sets[over[p]][other]
        /\ cursor' = [cursor EXCEPT ![p] = sets[over[p]][h]]
        /\ place' = [place EXCEPT ![p] = "inside"]
        /\ calls' = [calls EXCEPT ![p] = @ \cup {<<h, sets[over[p]][h]>>}]
  BY DEF Handling!CallHandler, Handling!Accepts, Handling!Goto
<1> DEFINE s == sets[over[p]][h]
<1>3. over[p] \in 1 .. MaxSets /\ h \in Handlers /\ s \in Nat /\ s > cursor[p] /\ s # 0
  <2>1. over[p] # 0
    BY <1>1 DEF PublicationInv, Walk
  <2>2. over[p] \in 1 .. MaxSets /\ h \in Handlers /\ s > cursor[p]
    BY <2>1, TypesOf DEF Handling!Ahead
  <2> QED
    BY <2>2, TypesOf
<1>4. /\ cursor'[p] = s /\ place'[p] = "inside" /\ calls'[p] = calls[p] \cup {<<h, s>>}
      /\ \A r \in Publications \ {p} :
           /\ place'[r] = place[r] /\ over'[r] = over[r] /\ cursor'[r] = cursor[r]
           /\ promises'[r] = promises[r] /\ calls'[r] = calls[r]
           /\ expected'[r] = expected[r] /\ renewed'[r] = renewed[r]
  BY <1>1, <1>2, TypesOf
<1>5. PublicationTypes'
  <2>1. /\ place' \in [Publications -> Handling!Steps] /\ StackOf(Publications, stack', place')
        /\ cursor' \in [Publications -> Nat]
    BY <1>1, <1>2, <1>3, <1>4, TypesOf DEF Handling!Steps, StackOf
  <2>2. calls' \in [Publications -> SUBSET (Handlers \X Nat)]
    <3>1. <<h, s>> \in Handlers \X Nat
      BY <1>3
    <3> QED
      BY <1>2, <3>1, TypesOf
  <2>3. \A r \in Publications : promises'[r] \subseteq 1 .. cursor'[r]
    <3>1. 1 .. cursor[p] \subseteq 1 .. cursor'[p]
      BY <1>3, <1>4, TypesOf
    <3> QED
      BY <1>4, <1>1, <3>1, TypesOf
  <2>4. PublicationTypes
    BY DEF PublicationInv
  <2> QED
    BY <1>1, <2>1, <2>2, <2>3, <2>4, TypesOf, TypesKept
<1>6. Walk(p) /\ Expects(p) /\ CalledAt(p)
  BY DEF PublicationInv
<1> HIDE DEF s
<1>7. Walk(p)'
  <2>1. ASSUME NEW c \in calls'[p] PROVE c[2] \in 1 .. cursor'[p]
    <3>1. c \in calls[p] \/ c = <<h, s>>
      BY <1>4
    <3>2. c[2] \in 1 .. cursor[p] \/ c[2] = s
      BY <1>6, <3>1 DEF Walk
    <3> QED
      BY <1>3, <1>4, <3>2, TypesOf
  <2> QED
    BY <1>1, <1>3, <1>4, <2>1 DEF Walk
<1>8. Expects(p)'
  <2>1. ASSUME NEW g \in expected[p]
        PROVE  sets[current][g] > s \/ <<g, sets[current][g]>> \in calls'[p]
    <3>1. over[p] = current /\ g \in Handlers /\ sets[current][g] \in Nat
      BY <1>3, <1>6, <2>1, TypesOf DEF Expects
    <3>2. CASE <<g, sets[current][g]>> \in calls[p]
      BY <1>4, <3>2
    <3>3. CASE sets[current][g] > cursor[p]
      <4>1. g \in Handling!Ahead(p)
        BY <3>1, <3>3 DEF Handling!Ahead
      <4>2. s <= sets[current][g]
        BY <1>2, <3>1, <4>1 DEF s
      <4>3. CASE s = sets[current][g]
        <5>1. g = h
          BY <1>3, <3>1, <4>3 DEF s, PublicationInv, StampsDiffer
        <5> QED
          BY <1>4, <4>3, <5>1
      <4> QED
        BY <1>3, <3>1, <4>2, <4>3
    <3> QED
      BY <1>1, <1>6, <2>1, <3>2, <3>3 DEF Expects
  <2> QED
    BY <1>1, <1>4, <1>6, <2>1 DEF Expects, Handling!Subscribed
<1>9. CalledAt(p)'
  <2>1. ASSUME NEW c \in calls'[p], c[1] \notin renewed[p]
        PROVE  sets[over[p]][c[1]] \in {0, c[2]}
    <3>1. c \in calls[p] \/ c = <<h, s>>
      BY <1>4
    <3> QED
      BY <1>6, <2>1, <3>1 DEF CalledAt, s
  <2>2. ASSUME NEW c \in calls'[p], NEW d \in calls'[p], c[1] = d[1], c # d
        PROVE  c[1] \in renewed[p]
    <3>1. \A e \in calls[p] : e \in Handlers \X Nat /\ e[2] # 0
      BY <1>6, TypesOf DEF Walk
    <3>2. ASSUME NEW e \in calls[p], e[1] = h, e # <<h, s>> PROVE h \in renewed[p]
      <4>1. e[2] # s /\ e[2] # 0
        BY <3>1, <3>2
      <4>2. sets[over[p]][h] = s /\ s # 0
        BY <1>3 DEF s
      <4> QED
        BY <1>6, <3>2, <4>1, <4>2 DEF CalledAt
    <3> QED
      BY <1>4, <1>6, <2>2, <3>2 DEF CalledAt
  <2> QED
    BY <1>1, <2>1, <2>2 DEF CalledAt
<1>10. Finished(p)'
  BY <1>4 DEF Finished, Handling!Settled
<1> QED
  BY <1>1, <1>4, <1>5, <1>7, <1>8, <1>9, <1>10, OthersWalk

(* A step of p that calls nobody keeps what was said of it.                *)
LEMMA GoesOn ==
  ASSUME PublicationInv, NEW p \in Publications,
         UNCHANGED <<sets, created, current, clock, contextOf, given, elsewhere, target,
                     over, cursor, calls, expected, renewed>>,
         promises' \in [Publications -> SUBSET Nat],
         place' \in [Publications -> Handling!Steps],
         \A r \in Publications \ {p} : place'[r] = place[r] /\ promises'[r] = promises[r],
         stack' \in Seq(Publications), StackOf(Publications, stack', place'),
         OnceEach(stack'),
         promises'[p] \subseteq 1 .. cursor[p],
         place'[p] = "idle" => place[p] = "idle" /\ promises'[p] = {},
         place'[p] \in {"calling", "inside"} => place[p] \in {"calling", "inside"},
         place'[p] = "inside" => place[p] = "inside",
         Finished(p)'
  PROVE  PublicationInv'
<1>1. PublicationTypes'
  <2>1. PublicationTypes
    BY DEF PublicationInv
  <2>2. \A r \in Publications : promises'[r] \subseteq 1 .. cursor'[r]
    BY TypesOf
  <2> QED
    BY <2>1, <2>2, TypesOf, TypesKept
<1>2. Walk(p) /\ Expects(p) /\ CalledAt(p)
  BY DEF PublicationInv
<1>3. Walk(p)'
  BY <1>2 DEF Walk
<1>4. Expects(p)'
  BY <1>2 DEF Expects, Handling!Subscribed
<1>5. CalledAt(p)'
  BY <1>2 DEF CalledAt
<1> QED
  BY <1>1, <1>3, <1>4, <1>5, OthersWalk

LEMMA StackStays ==
  ASSUME NEW S, NEW s, NEW a, NEW b, StackOf(S, s, a), NEW p \in S,
         \A r \in S \ {p} : b[r] = a[r],
         b[p] \in {"calling", "inside"} <=> a[p] \in {"calling", "inside"}
  PROVE  StackOf(S, s, b)
BY DEF StackOf

LEMMA HandlerEnds ==
  ASSUME PublicationInv, NEW p \in Publications, Handling!Returns(p) \/ Handling!Throws(p)
  PROVE  PublicationInv'
<1>1. /\ place[p] = "inside" /\ place' = [place EXCEPT ![p] = "calling"]
      /\ promises' = promises \/ promises' = [promises EXCEPT ![p] = @ \cup {cursor[p]}]
      /\ UNCHANGED <<sets, created, current, clock, contextOf, given, elsewhere, stack,
                     target, over, cursor, calls, expected, renewed>>
  BY DEF Handling!Returns, Handling!Throws, Handling!Goto, Handling!registry
<1>2. /\ place' \in [Publications -> Handling!Steps] /\ place'[p] = "calling"
      /\ \A r \in Publications \ {p} : place'[r] = place[r]
  BY <1>1, TypesOf DEF Handling!Steps
<1>3. /\ promises' \in [Publications -> SUBSET Nat]
      /\ \A r \in Publications \ {p} : promises'[r] = promises[r]
      /\ promises'[p] \subseteq promises[p] \cup {cursor[p]}
  <2>1. CASE promises' = promises
    BY <2>1, TypesOf
  <2>2. CASE promises' = [promises EXCEPT ![p] = @ \cup {cursor[p]}]
    <3>1. cursor[p] \in Nat /\ promises \in [Publications -> SUBSET Nat]
      BY TypesOf
    <3> QED
      BY <2>2, <3>1
  <2> QED
    BY <1>1, <2>1, <2>2
<1>4. cursor[p] \in Nat \ {0}
  BY <1>1, TypesOf DEF PublicationInv, Walk
<1>5. promises'[p] \subseteq 1 .. cursor[p]
  BY <1>3, <1>4, TypesOf
<1>6. StackOf(Publications, stack', place')
  <2>1. PICK s, a, b : s = stack /\ a = place /\ b = place'
    OBVIOUS
  <2> QED
    BY <1>1, <1>2, <2>1, TypesOf, StackStays
<1>7. Finished(p)'
  BY <1>2 DEF Finished, Handling!Settled
<1> QED
  BY <1>1, <1>2, <1>3, <1>5, <1>6, <1>7, TypesOf, GoesOn

(* When there is no handler ahead, all that are expected were called.      *)
LEMMA Ends ==
  ASSUME PublicationInv, NEW p \in Publications, Handling!EndLoop(p)
  PROVE  PublicationInv'
<1>1. /\ Handling!OnTop(p) /\ place[p] = "calling" /\ Handling!Ahead(p) = {}
      /\ stack' = Tail(stack)
      /\ \/ place' = [place EXCEPT ![p] = "resolved"]
         \/ place' = [place EXCEPT ![p] = "awaiting"]
      /\ UNCHANGED <<sets, created, current, clock, contextOf, given, elsewhere, target,
                     over, cursor, promises, calls, expected, renewed>>
  BY DEF Handling!EndLoop, Handling!Goto, Handling!registry
<1>2. /\ place' \in [Publications -> Handling!Steps] /\ place'[p] \in {"resolved", "awaiting"}
      /\ \A r \in Publications \ {p} : place'[r] = place[r]
  BY <1>1, TypesOf DEF Handling!Steps
<1>3. /\ stack' \in Seq(Publications) /\ StackOf(Publications, stack', place')
      /\ OnceEach(stack')
  <2>1. PICK s, a, b : s = stack /\ a = place /\ b = place'
    OBVIOUS
  <2>2. s # <<>> /\ Head(s) = p
    BY <1>1, <2>1 DEF Handling!OnTop
  <2>3. /\ s \in Seq(Publications) /\ StackOf(Publications, s, a)
        /\ OnceEach(s)
        /\ b[Head(s)] \notin {"calling", "inside"}
        /\ \A r \in Publications \ {Head(s)} : b[r] = a[r]
    BY <1>2, <2>1, <2>2, TypesOf
  <2>4. /\ Tail(s) \in Seq(Publications) /\ StackOf(Publications, Tail(s), b)
        /\ OnceEach(Tail(s))
    BY <2>2, <2>3, Popped
  <2> QED
    BY <1>1, <2>1, <2>4
<1>4. Finished(p)'
  <2>1. ASSUME NEW h \in expected[p] PROVE \E c \in calls[p] : c[1] = h
    <3>1. /\ over[p] = current /\ h \in Handlers
          /\ sets[current][h] > cursor[p] \/ <<h, sets[current][h]>> \in calls[p]
      BY <1>1, <2>1, TypesOf DEF PublicationInv, Expects
    <3>2. ~(sets[current][h] > cursor[p])
      BY <1>1, <3>1 DEF Handling!Ahead
    <3> QED
      BY <3>1, <3>2
  <2> QED
    BY <1>1, <2>1 DEF Finished
<1>5. promises'[p] \subseteq 1 .. cursor[p]
  BY <1>1, TypesOf
<1> QED
  BY <1>1, <1>2, <1>3, <1>4, <1>5, TypesOf, GoesOn

LEMMA PromiseSettles ==
  ASSUME PublicationInv, NEW p \in Publications, NEW s,
         Handling!Fulfil(p, s) \/ Handling!Reject(p, s)
  PROVE  PublicationInv'
<1>1. /\ promises' = [promises EXCEPT ![p] = @ \ {s}]
      /\ \/ place' = place
         \/ place[p] = "awaiting" /\ place' = [place EXCEPT ![p] = "resolved"]
      /\ UNCHANGED <<sets, created, current, clock, contextOf, given, elsewhere, stack,
                     target, over, cursor, calls, expected, renewed>>
  BY DEF Handling!Fulfil, Handling!Reject, Handling!Goto, Handling!registry
<1>2. /\ place' \in [Publications -> Handling!Steps]
      /\ place'[p] = place[p] \/ (place[p] = "awaiting" /\ place'[p] = "resolved")
      /\ \A r \in Publications \ {p} : place'[r] = place[r]
  BY <1>1, TypesOf DEF Handling!Steps
<1>3. /\ promises' \in [Publications -> SUBSET Nat]
      /\ \A r \in Publications \ {p} : promises'[r] = promises[r]
      /\ promises'[p] \subseteq promises[p] /\ promises'[p] \subseteq 1 .. cursor[p]
  BY <1>1, TypesOf
<1>4. StackOf(Publications, stack', place')
  <2>1. PICK t, a, b : t = stack /\ a = place /\ b = place'
    OBVIOUS
  <2> QED
    BY <1>1, <1>2, <2>1, TypesOf, StackStays
<1>5. Finished(p) /\ Walk(p)
  BY DEF PublicationInv, Finished, Handling!EveryHandlerCalled
<1>6. Finished(p)'
  BY <1>1, <1>2, <1>5 DEF Finished, Handling!Settled
<1>7. /\ place'[p] = "idle" => place[p] = "idle" /\ promises'[p] = {}
      /\ place'[p] \in {"calling", "inside"} => place[p] \in {"calling", "inside"}
      /\ place'[p] = "inside" => place[p] = "inside"
  BY <1>2, <1>3, <1>5 DEF Walk
<1> QED
  BY <1>1, <1>2, <1>3, <1>4, <1>6, <1>7, TypesOf, GoesOn

LEMMA PublicationStep ==
  ASSUME PublicationInv, Handling!Next
  PROVE  PublicationInv'
<1>1. CASE \E h \in Handlers : Handling!Unsubscribe(h)
  BY <1>1, Unsubscribed
<1>2. CASE \E h \in Handlers, c \in {} \cup {None} : Handling!Subscribe(h, c)
  BY <1>2, Subscribes
<1>3. CASE Handling!ClearHandlers
  BY <1>3, Cleared
<1>4. CASE \E p \in Publications, t \in {} \cup {None} : Handling!Publish(p, t)
  BY <1>4, Publishes
<1>5. ASSUME NEW p \in Publications, Handling!Progress(p) PROVE PublicationInv'
  BY <1>5, Calls, HandlerEnds, Ends, PromiseSettles DEF Handling!Progress
<1> QED
  BY <1>1, <1>2, <1>3, <1>4, <1>5 DEF Handling!Next

LEMMA PublicationShows ==
  ASSUME PublicationInv
  PROVE  /\ Handling!TypeOK /\ Handling!EveryHandlerCalled
         /\ Handling!CalledOnce /\ Handling!CalledInOrder
<1>1. Handling!TypeOK /\ Handling!EveryHandlerCalled
  BY DEF PublicationInv, PublicationTypes
<1>2. \A p \in Publications : \A c, d \in calls[p] :
        c[1] = d[1] /\ c # d => c[1] \in renewed[p]
  BY DEF PublicationInv, CalledAt
<1>3. ASSUME NEW p \in Publications, place[p] = "calling", NEW h \in expected[p],
             NEW c \in calls[p], sets[current][h] < c[2]
      PROVE  \E d \in calls[p] : d[1] = h
  <2>1. Walk(p) /\ Expects(p)
    BY DEF PublicationInv
  <2>2. c[2] \in 1 .. cursor[p] /\ cursor[p] \in Nat
    BY <2>1, TypesOf DEF Walk
  <2>3. current \in 1 .. MaxSets /\ h \in Handlers /\ sets[current][h] \in Nat
    BY <1>3, <2>1, TypesOf DEF Expects, Handling!Subscribed
  <2>4. ~(sets[current][h] > cursor[p])
    BY <1>3, <2>2, <2>3
  <2> QED
    BY <1>3, <2>1, <2>4 DEF Expects
<1> QED
  BY <1>1, <1>2, <1>3 DEF Handling!CalledOnce, Handling!CalledInOrder

-----------------------------------------------------------------------------
(* What rejects, and what is targeted at a context *)

(* Of trouble somebody has heard, and a settled publication that left      *)
(* promises behind had some.                                               *)
HeardOf(S) ==
  /\ troubled \subseteq informed
  /\ \A p \in S :
       place[p] \in {"resolved", "rejected", "abandoned"} /\ promises[p] # {}
         => p \in informed

(* With an error handler no publication ends in an error.                  *)
NoErrorGetsOut ==
  HeardOf(Publications) /\ \A p \in Publications : place[p] \notin {"rejected", "abandoned"}

LEMMA ErrorsAreHandled ==
  ASSUME PublicationInv, NoErrorGetsOut, Handling!Next
  PROVE  NoErrorGetsOut'
<1>1. /\ place \in [Publications -> Handling!Steps]
      /\ promises \in [Publications -> SUBSET Nat]
      /\ \A p \in Publications : place[p] = "idle" => promises[p] = {}
  BY TypesOf DEF PublicationInv, Walk
<1> USE <1>1 DEF NoErrorGetsOut, HeardOf, Handling!Goto
<1>2. ASSUME NEW p \in Publications, Handling!Progress(p) PROVE NoErrorGetsOut'
  <2>1. CASE Handling!CallHandler(p)
    BY <2>1 DEF Handling!CallHandler
  <2>2. CASE Handling!Returns(p)
    BY <2>2 DEF Handling!Returns
  <2>3. CASE Handling!Throws(p)
    BY <2>3 DEF Handling!Throws
  <2>4. CASE Handling!EndLoop(p)
    BY <2>4 DEF Handling!EndLoop
  <2>5. ASSUME NEW s \in 1 .. MaxStamps, Handling!Fulfil(p, s) PROVE NoErrorGetsOut'
    BY <2>5 DEF Handling!Fulfil
  <2>6. ASSUME NEW s \in 1 .. MaxStamps, Handling!Reject(p, s) PROVE NoErrorGetsOut'
    <3>1. stack = <<>> /\ s \in promises[p]
      BY <2>6 DEF Handling!Reject
    <3>2. place[p] \in {"awaiting", "resolved"}
      <4>1. p \notin {stack[i] : i \in DOMAIN stack}
        BY <3>1
      <4>2. place[p] \notin {"calling", "inside"}
        BY <4>1, TypesOf DEF StackOf
      <4> QED
        BY <3>1, <4>2 DEF Handling!Steps
    <3> QED
      BY <2>6, <3>1, <3>2 DEF Handling!Reject
  <2> QED
    BY <1>2, <2>1, <2>2, <2>3, <2>4, <2>5, <2>6 DEF Handling!Progress
<1>3. CASE \E p \in Publications, t \in {} \cup {None} : Handling!Publish(p, t)
  BY <1>3 DEF Handling!Publish
<1>4. CASE \/ \E h \in Handlers : Handling!Unsubscribe(h)
           \/ \E h \in Handlers, c \in {} \cup {None} : Handling!Subscribe(h, c)
           \/ Handling!ClearHandlers
  BY <1>4 DEF Handling!Unsubscribe, Handling!Subscribe, Handling!ClearHandlers
<1> QED
  BY <1>2, <1>3, <1>4 DEF Handling!Next

(* Without contexts nothing is targeted; with them the context a handler   *)
(* is filtered by is the one given under another type since its            *)
(* subscription, and without one the context of the subscription, if any.  *)
TargetInv ==
  /\ bus \in {"handled", "rethrowing", "contexts", "commands", "cqrs"}
  /\ bus \notin {"rethrowing", "contexts"} => target \in [Publications -> {None}]
  /\ bus = "rethrowing" => target \in [FewPublications -> {None}]
  /\ bus = "contexts" =>
       /\ target \in [FewPublications -> Contexts \cup {None}]
       /\ contextOf \in [Handlers -> Contexts \cup {None}]
       /\ given \in [Handlers -> Contexts \cup {None}]
       /\ elsewhere \in [Handlers -> Contexts \cup {None}]
       /\ \A h \in Handlers :
            IF elsewhere[h] # None THEN contextOf[h] = elsewhere[h]
            ELSE given[h] # None => contextOf[h] = given[h]
       /\ calls = [p \in FewPublications |-> calls[p]]

LEMMA TargetStart ==
  ASSUME BusesInit
  PROVE  TargetInv
<1> USE DEF BusesInit, TargetInv
<1>1. CASE bus = "rethrowing"
  BY <1>1 DEF Rethrowing!Init
<1>2. CASE bus = "contexts"
  BY <1>2 DEF Integration!Init
<1>3. CASE bus \notin {"rethrowing", "contexts"}
  <2>1. Handling!Init
    BY <1>3
  <2> QED
    BY <1>3, <2>1 DEF Handling!Init
<1> QED
  BY <1>1, <1>2, <1>3

LEMMA HandledTargets ==
  ASSUME target \in [Publications -> {None}], Handling!Next
  PROVE  target' \in [Publications -> {None}]
<1>1. \/ \E p \in Publications : target' = [target EXCEPT ![p] = None]
      \/ UNCHANGED target
  BY DEF Handling!Next, Handling!Progress, Handling!Publish, Handling!Unsubscribe,
         Handling!Subscribe, Handling!ClearHandlers, Handling!CallHandler,
         Handling!Returns, Handling!Throws, Handling!EndLoop, Handling!Fulfil,
         Handling!Reject
<1> QED
  BY <1>1

LEMMA RethrownTargets ==
  ASSUME target \in [FewPublications -> {None}], Rethrowing!Next
  PROVE  target' \in [FewPublications -> {None}]
<1>1. \/ \E p \in FewPublications : target' = [target EXCEPT ![p] = None]
      \/ UNCHANGED target
  BY DEF Rethrowing!Next, Rethrowing!Progress, Rethrowing!Publish, Rethrowing!Unsubscribe,
         Rethrowing!Subscribe, Rethrowing!ClearHandlers, Rethrowing!CallHandler,
         Rethrowing!Returns, Rethrowing!Throws, Rethrowing!EndLoop, Rethrowing!Fulfil,
         Rethrowing!Reject
<1> QED
  BY <1>1

(* A call that its subscription wanted, or one under another type.         *)
Meant(h, t) == Integration!Wants(h, t) \/ elsewhere[h] = t

(* What the integration bus calls was meant.                               *)
LEMMA ContextsStep ==
  ASSUME TargetInv, bus = "contexts", bus' = bus, Integration!Next
  PROVE  /\ TargetInv'
         /\ \A p \in FewPublications : \A call \in calls'[p] \ calls[p] :
              Meant(call[1], target[p])
<1> USE DEF TargetInv
<1>1. ASSUME NEW h \in Handlers, NEW c \in Contexts \cup {None}, Integration!Subscribe(h, c)
      PROVE  TargetInv' /\ UNCHANGED calls
  BY <1>1, BusConstants DEF Integration!Subscribe
<1>6. ASSUME NEW h \in Handlers, NEW c \in Contexts, Integration!SubscribeElsewhere(h, c)
      PROVE  TargetInv' /\ UNCHANGED calls
  BY <1>6, BusConstants DEF Integration!SubscribeElsewhere
<1>2. CASE \/ \E h \in Handlers : Integration!Unsubscribe(h)
           \/ Integration!ClearHandlers
  <2>1. UNCHANGED <<contextOf, given, elsewhere, target, calls>>
    BY <1>2 DEF Integration!Unsubscribe, Integration!ClearHandlers
  <2> QED
    BY <2>1
<1>3. ASSUME NEW p \in FewPublications, NEW t \in Contexts \cup {None},
             Integration!Publish(p, t)
      PROVE  TargetInv' /\ UNCHANGED calls
  <2>1. target' = [target EXCEPT ![p] = t] /\ UNCHANGED <<contextOf, given, elsewhere,
                                                          calls>>
    BY <1>3 DEF Integration!Publish, Integration!registry
  <2> QED
    BY <2>1
<1>4. ASSUME NEW p \in FewPublications, Integration!CallHandler(p)
      PROVE  /\ TargetInv'
             /\ \A q \in FewPublications : \A call \in calls'[q] \ calls[q] :
                  Meant(call[1], target[q])
  <2>1. UNCHANGED <<contextOf, given, elsewhere, target>>
    BY <1>4 DEF Integration!CallHandler, Integration!registry
  <2>2. \/ UNCHANGED calls
        \/ \E h \in Handlers : \E s :
             /\ Integration!Accepts(h, target[p])
             /\ calls' = [calls EXCEPT ![p] = @ \cup {<<h, s>>}]
    BY <1>4 DEF Integration!CallHandler, Integration!Ahead
  <2>3. ASSUME NEW h \in Handlers, Integration!Accepts(h, target[p])
        PROVE  Meant(h, target[p])
    BY <2>3 DEF Integration!Accepts, Integration!Wants, Meant
  <2>4. ASSUME NEW h \in Handlers, NEW s, Integration!Accepts(h, target[p]),
               calls' = [calls EXCEPT ![p] = @ \cup {<<h, s>>}]
        PROVE  \A q \in FewPublications : \A call \in calls'[q] \ calls[q] :
                 Meant(call[1], target[q])
    <3>1. calls'[p] = calls[p] \cup {<<h, s>>}
      BY <2>4
    <3>2. \A q \in FewPublications \ {p} : calls'[q] = calls[q]
      BY <2>4
    <3> QED
      BY <2>3, <2>4, <3>1, <3>2
  <2>5. calls' = [q \in FewPublications |-> calls'[q]]
    BY <2>2
  <2> QED
    BY <2>1, <2>2, <2>4, <2>5
<1>5. ASSUME NEW p \in FewPublications,
             \/ Integration!Returns(p) \/ Integration!Throws(p) \/ Integration!EndLoop(p)
             \/ \E s \in 1 .. FewStamps : Integration!Fulfil(p, s) \/ Integration!Reject(p, s)
      PROVE  TargetInv' /\ UNCHANGED calls
  <2>1. UNCHANGED <<contextOf, given, elsewhere, target, calls>>
    BY <1>5 DEF Integration!Returns, Integration!Throws, Integration!EndLoop,
                Integration!Fulfil, Integration!Reject, Integration!registry
  <2> QED
    BY <2>1
<1> QED
  BY <1>1, <1>2, <1>3, <1>4, <1>5, <1>6 DEF Integration!Next, Integration!Progress

LEMMA NoTargetIsForeign ==
  ASSUME TargetInv, [BusesNext]_buses
  PROVE  /\ TargetInv'
         /\ \A p \in FewPublications : \A call \in calls'[p] \ calls[p] :
              Meant(call[1], target[p])
<1>1. bus' = bus
  BY DEF BusesNext, buses
<1>2. CASE UNCHANGED published
  <2>1. UNCHANGED <<target, contextOf, given, elsewhere, calls>>
    BY <1>2 DEF published
  <2> QED
    BY <1>1, <2>1 DEF TargetInv
<1>3. CASE bus = "handled" /\ Handling!Next
  <2>1. TargetInv'
    BY <1>1, <1>3, HandledTargets DEF TargetInv
  <2>2. \A p \in FewPublications : target[p] = None
    BY <1>3, EventBusesAssumption DEF TargetInv
  <2> QED
    BY <2>1, <2>2 DEF Integration!Wants, Meant
<1>4. CASE bus = "rethrowing" /\ Rethrowing!Next
  <2>1. TargetInv'
    BY <1>1, <1>4, RethrownTargets DEF TargetInv
  <2>2. \A p \in FewPublications : target[p] = None
    BY <1>4 DEF TargetInv
  <2> QED
    BY <2>1, <2>2 DEF Integration!Wants, Meant
<1>5. CASE bus = "contexts" /\ Integration!Next
  BY <1>1, <1>5, ContextsStep
<1> QED
  BY <1>2, <1>3, <1>4, <1>5 DEF BusesNext, buses

LEMMA HandledSteps ==
  ASSUME bus = "handled" => PublicationInv /\ NoErrorGetsOut, [BusesNext]_buses
  PROVE  (bus = "handled" => PublicationInv /\ NoErrorGetsOut)'
<1>1. bus' = bus
  BY DEF BusesNext, buses
<1>2. CASE bus = "handled" /\ Handling!Next
  BY <1>1, <1>2, PublicationStep, ErrorsAreHandled
<1>3. CASE UNCHANGED published
  <2>1. UNCHANGED <<sets, created, current, clock, contextOf, given, elsewhere, stack,
                    place, target, over, cursor, promises, calls, expected, renewed,
                    troubled, informed, failures>>
    BY <1>3 DEF published
  <2>2. PublicationInv => PublicationInv'
    BY <2>1
       DEF PublicationInv, PublicationTypes, OnceEach, StampsDiffer, Walk, Expects, CalledAt,
           Handling!EveryHandlerCalled, Handling!TypeOK, Handling!Subscribed
  <2> QED
    BY <1>1, <2>1, <2>2 DEF NoErrorGetsOut, HeardOf
<1> QED
  BY <1>1, <1>2, <1>3 DEF BusesNext, buses

LEMMA HandledStarts ==
  ASSUME BusesInit
  PROVE  bus = "handled" => PublicationInv /\ NoErrorGetsOut
BY PublicationStart DEF BusesInit, Handling!Init, NoErrorGetsOut, HeardOf

(* With an error handler each handler subscribed throughout is called,     *)
(* once and in order, whoever throws, subscribes or publishes meanwhile;   *)
(* the integration bus hands no handler an event targeted at another       *)
(* context than the one it was subscribed for, under this type of event or *)
(* under another one since (base-event-bus.ts,                             *)
(* in-memory-integraton-event-bus.ts).                                     *)
THEOREM HandlersAreServed == BusesSpec => HandlersServed
<1>1. BusesInit => (bus = "handled" => PublicationInv /\ NoErrorGetsOut) /\ TargetInv
  BY HandledStarts, TargetStart
<1>2. (bus = "handled" => PublicationInv /\ NoErrorGetsOut) /\ [BusesNext]_buses
        => (bus = "handled" => PublicationInv /\ NoErrorGetsOut)'
  BY HandledSteps
<1>3. TargetInv /\ [BusesNext]_buses
        => TargetInv' /\ \A p \in FewPublications : \A call \in calls'[p] \ calls[p] :
                           Meant(call[1], target[p])
  BY NoTargetIsForeign
<1>4. (bus = "handled" => PublicationInv /\ NoErrorGetsOut)
        => (bus = "handled" => /\ Handling!TypeOK /\ Handling!EveryHandlerCalled
                               /\ Handling!CalledOnce /\ Handling!CalledInOrder)
  BY PublicationShows
<1> QED
  BY <1>1, <1>2, <1>3, <1>4, PTL
     DEF BusesSpec, HandlersServed, Integration!NoForeignEvents, Meant

(* With an error handler it hears an error of every publication some       *)
(* handler of which threw or rejected, though not of what is rejected      *)
(* after the first rejection, and publish itself never rejects             *)
(* (base-event-bus.ts publish, handleError).                               *)
THEOREM TroubleIsHandled ==
  BusesSpec =>
    [](bus = "handled" => Handling!TroubleIsTold /\ Handling!OnErrorTakesErrors)
<1>1. NoErrorGetsOut => Handling!TroubleIsTold /\ Handling!OnErrorTakesErrors
  BY DEF NoErrorGetsOut, HeardOf, Handling!TroubleIsTold, Handling!OnErrorTakesErrors
<1>2. BusesInit => (bus = "handled" => PublicationInv /\ NoErrorGetsOut)
  BY HandledStarts
<1>3. (bus = "handled" => PublicationInv /\ NoErrorGetsOut) /\ [BusesNext]_buses
        => (bus = "handled" => PublicationInv /\ NoErrorGetsOut)'
  BY HandledSteps
<1> QED
  BY <1>1, <1>2, <1>3, PTL DEF BusesSpec

-----------------------------------------------------------------------------
(* The publications of the bus without an error handler *)

(* Types, and that a publication has promises of the calls it has made.    *)
RethrownInv ==
  /\ Rethrowing!TypeOK /\ Rethrowing!ResolvedMeansHandled
  /\ stack \in Seq(FewPublications)
  /\ OnceEach(stack)
  /\ over \in [FewPublications -> 0 .. created] /\ cursor \in [FewPublications -> Nat]
  /\ promises \in [FewPublications -> SUBSET Nat]
  /\ \A p \in FewPublications :
       /\ place[p] = "idle" => promises[p] = {}
       /\ place[p] \in {"calling", "inside"} => over[p] # 0
       /\ place[p] = "inside" => cursor[p] # 0

LEMMA RethrownStart ==
  ASSUME Rethrowing!Init
  PROVE  RethrownInv
<1> USE DEF Rethrowing!Init
<1>1. Rethrowing!TypeOK
  BY BusConstants DEF Rethrowing!TypeOK, Rethrowing!Steps
<1>2. Rethrowing!ResolvedMeansHandled
  BY DEF Rethrowing!ResolvedMeansHandled
<1>3. stack \in Seq(FewPublications) /\ Len(stack) = 0
  OBVIOUS
<1> QED
  BY <1>1, <1>2, <1>3 DEF RethrownInv, OnceEach

LEMMA RethrownTypes ==
  ASSUME RethrownInv
  PROVE  /\ place \in [FewPublications -> Rethrowing!Steps]
         /\ StackOf(FewPublications, stack, place)
         /\ \A p \in FewPublications : promises[p] \subseteq 1 .. cursor[p]
         /\ created \in 0 .. MaxSets /\ current \in 0 .. created /\ clock \in 0 .. MaxStamps
         /\ sets \in [1 .. MaxSets -> [Handlers -> 0 .. MaxStamps]]
         /\ {contextOf, given, elsewhere} \subseteq [Handlers -> {None}]
         /\ MaxStamps \in Nat /\ MaxSets \in Nat
BY BusConstants DEF RethrownInv, Rethrowing!TypeOK, StackOf

(* Who subscribes or unsubscribes moves no publication.                    *)
LEMMA RethrownRegistry ==
  ASSUME RethrownInv,
         UNCHANGED <<stack, place, over, cursor, promises, troubled>>,
         sets' \in [1 .. MaxSets -> [Handlers -> 0 .. MaxStamps]],
         current' \in 0 .. created', created' \in created .. MaxSets,
         clock' \in 0 .. MaxStamps,
         {contextOf', given', elsewhere'} \subseteq [Handlers -> {None}],
         current' # 0 => \E h \in Handlers : sets'[current'][h] > 0
  PROVE  RethrownInv'
<1>1. current' # 0 => Rethrowing!Subscribed' # {}
  BY DEF Rethrowing!Subscribed
<1>2. created' \in 0 .. MaxSets /\ created <= created' /\ created \in Nat
  BY RethrownTypes
<1>3. Rethrowing!TypeOK'
  BY <1>1, <1>2 DEF RethrownInv, Rethrowing!TypeOK
<1>4. over' \in [FewPublications -> 0 .. created']
  BY <1>2 DEF RethrownInv
<1> QED
  BY <1>3, <1>4 DEF RethrownInv, Rethrowing!ResolvedMeansHandled

LEMMA RethrownSubscribes ==
  ASSUME RethrownInv, NEW h \in Handlers,
         \/ Rethrowing!Unsubscribe(h) \/ Rethrowing!ClearHandlers
         \/ \E c \in {} \cup {None} : Rethrowing!Subscribe(h, c)
  PROVE  RethrownInv'
<1> DEFINE subscribed == {g \in Handlers : sets[current][g] > 0}
<1>1. /\ UNCHANGED <<stack, place, over, cursor, promises, troubled>>
      /\ {contextOf', given', elsewhere'} \subseteq [Handlers -> {None}]
  <2>1. /\ UNCHANGED <<stack, place, over, cursor, promises, troubled, contextOf,
                       elsewhere>>
        /\ given' = given \/ given' = [given EXCEPT ![h] = None]
    BY DEF Rethrowing!Unsubscribe, Rethrowing!ClearHandlers, Rethrowing!Subscribe
  <2>2. [given EXCEPT ![h] = None] \in [Handlers -> {None}]
    BY RethrownTypes
  <2> QED
    BY <2>1, <2>2, RethrownTypes
<1>2. CASE Rethrowing!ClearHandlers
  BY <1>1, <1>2, RethrownTypes, RethrownRegistry DEF Rethrowing!ClearHandlers
<1>3. CASE Rethrowing!Unsubscribe(h)
  <2>1. /\ current \in 1 .. MaxSets /\ h \in Rethrowing!Subscribed
        /\ sets' = [sets EXCEPT ![current][h] = 0]
        /\ current' = IF Rethrowing!Subscribed = {h} THEN 0 ELSE current
        /\ UNCHANGED <<created, clock>>
    BY <1>3, RethrownTypes DEF Rethrowing!Unsubscribe, Rethrowing!Subscribed
  <2>2. sets' \in [1 .. MaxSets -> [Handlers -> 0 .. MaxStamps]]
    BY <2>1, RethrownTypes
  <2>3. ASSUME current' # 0 PROVE \E g \in Handlers : sets'[current'][g] > 0
    <3>1. PICK g \in Rethrowing!Subscribed : g # h
      BY <2>1, <2>3
    <3>2. g \in Handlers /\ sets[current][g] > 0 /\ current' = current
      BY <2>1, <2>3, <3>1 DEF Rethrowing!Subscribed
    <3>3. sets'[current][g] = sets[current][g]
      BY <2>1, <3>1, <3>2, RethrownTypes
    <3> QED
      BY <3>2, <3>3
  <2> QED
    BY <1>1, <2>1, <2>2, <2>3, RethrownTypes, RethrownRegistry
<1>4. CASE \E c \in {} \cup {None} : Rethrowing!Subscribe(h, c)
  <2>1. Rethrowing!Insert(h)
    BY <1>4 DEF Rethrowing!Subscribe
  <2>2. CASE h \in Rethrowing!Subscribed
    <3>1. UNCHANGED <<sets, created, current, clock>>
      BY <2>1, <2>2 DEF Rethrowing!Insert
    <3>2. current # 0 => \E g \in Handlers : sets[current][g] > 0
      BY DEF RethrownInv, Rethrowing!TypeOK, Rethrowing!Subscribed
    <3> QED
      BY <1>1, <3>1, <3>2, RethrownTypes, RethrownRegistry
  <2>3. CASE h \notin Rethrowing!Subscribed
    <3> DEFINE i == IF current = 0 THEN created + 1 ELSE current
    <3>1. /\ i <= MaxSets /\ clock < MaxStamps
          /\ created' = IF current = 0 THEN i ELSE created
          /\ current' = i /\ clock' = clock + 1
          /\ sets' = [sets EXCEPT ![i][h] = clock + 1]
      BY <2>1, <2>3 DEF Rethrowing!Insert
    <3>2. /\ i \in 1 .. MaxSets /\ current' \in 0 .. created' /\ created' \in created .. MaxSets
          /\ clock + 1 \in 1 .. MaxStamps
      BY <3>1, RethrownTypes
    <3> HIDE DEF i
    <3>3. /\ sets' \in [1 .. MaxSets -> [Handlers -> 0 .. MaxStamps]]
          /\ sets'[i][h] = clock + 1
      BY <3>1, <3>2, RethrownTypes
    <3> QED
      BY <1>1, <3>1, <3>2, <3>3, RethrownTypes, RethrownRegistry
  <2> QED
    BY <2>2, <2>3
<1> QED
  BY <1>2, <1>3, <1>4

(* A publication that moves alone keeps what was said of it.               *)
LEMMA RethrownMoves ==
  ASSUME RethrownInv, NEW p \in FewPublications,
         UNCHANGED <<sets, created, current, clock, contextOf, given, elsewhere>>,
         place' \in [FewPublications -> Rethrowing!Steps], stack' \in Seq(FewPublications),
         OnceEach(stack'),
         StackOf(FewPublications, stack', place'),
         over' \in [FewPublications -> 0 .. created], cursor' \in [FewPublications -> Nat],
         promises' \in [FewPublications -> SUBSET Nat],
         \A r \in FewPublications \ {p} :
           /\ place'[r] = place[r] /\ over'[r] = over[r] /\ cursor'[r] = cursor[r]
           /\ promises'[r] = promises[r],
         troubled' = troubled \/ troubled' = troubled \cup {p},
         promises'[p] \subseteq 1 .. cursor'[p],
         place'[p] = "resolved" /\ p \notin troubled' => promises'[p] = {},
         place'[p] = "idle" => promises'[p] = {},
         place'[p] \in {"calling", "inside"} => over'[p] # 0,
         place'[p] = "inside" => cursor'[p] # 0
  PROVE  RethrownInv'
<1>1. current' # 0 => Rethrowing!Subscribed' # {}
  BY DEF RethrownInv, Rethrowing!TypeOK, Rethrowing!Subscribed
<1>2. Rethrowing!TypeOK'
  BY <1>1 DEF RethrownInv, Rethrowing!TypeOK, StackOf
<1>3. Rethrowing!ResolvedMeansHandled'
  BY DEF RethrownInv, Rethrowing!ResolvedMeansHandled
<1> QED
  BY <1>2, <1>3 DEF RethrownInv

LEMMA RethrownPublishes ==
  ASSUME RethrownInv, NEW p \in FewPublications, NEW t \in {None},
         Rethrowing!Publish(p, t)
  PROVE  RethrownInv'
<1>1. /\ place[p] = "idle" /\ over' = [over EXCEPT ![p] = current]
      /\ IF Rethrowing!Subscribed = {}
         THEN place' = [place EXCEPT ![p] = "resolved"] /\ UNCHANGED stack
         ELSE place' = [place EXCEPT ![p] = "calling"] /\ stack' = <<p>> \o stack
      /\ UNCHANGED <<sets, created, current, clock, contextOf, given, elsewhere, cursor,
                     promises, troubled>>
  BY DEF Rethrowing!Publish, Rethrowing!Goto, Rethrowing!registry
<1>2. /\ promises[p] = {} /\ stack \in Seq(FewPublications) /\ OnceEach(stack)
      /\ over \in [FewPublications -> 0 .. created] /\ cursor \in [FewPublications -> Nat]
      /\ promises \in [FewPublications -> SUBSET Nat]
  BY <1>1 DEF RethrownInv
<1>3. /\ place' \in [FewPublications -> Rethrowing!Steps]
      /\ over' \in [FewPublications -> 0 .. created] /\ over'[p] = current
      /\ \A r \in FewPublications \ {p} : place'[r] = place[r] /\ over'[r] = over[r]
  BY <1>1, <1>2, RethrownTypes DEF Rethrowing!Steps
<1>4. PICK s, a, b : s = stack /\ a = place /\ b = place'
  OBVIOUS
<1>5. CASE Rethrowing!Subscribed = {}
  <2>1. place'[p] = "resolved" /\ stack' = stack
    BY <1>1, <1>5, RethrownTypes
  <2>2. StackOf(FewPublications, s, b)
    BY <1>1, <1>3, <1>4, <2>1, RethrownTypes, StackStays
  <2> QED
    BY <1>1, <1>2, <1>3, <1>4, <2>1, <2>2, RethrownMoves
<1>6. CASE Rethrowing!Subscribed # {}
  <2>1. place'[p] = "calling" /\ stack' = <<p>> \o stack /\ current # 0
    BY <1>1, <1>6, RethrownTypes DEF Rethrowing!Subscribed
  <2>2. /\ s \in Seq(FewPublications) /\ OnceEach(s) /\ StackOf(FewPublications, s, a)
        /\ a[p] \notin {"calling", "inside"} /\ b[p] = "calling"
        /\ \A r \in FewPublications \ {p} : b[r] = a[r]
    BY <1>1, <1>2, <1>3, <1>4, <2>1, RethrownTypes
  <2>3. /\ <<p>> \o s \in Seq(FewPublications) /\ StackOf(FewPublications, <<p>> \o s, b)
        /\ OnceEach(<<p>> \o s)
    BY <2>2, Pushed
  <2> QED
    BY <1>1, <1>2, <1>3, <1>4, <2>1, <2>3, RethrownMoves
<1> QED
  BY <1>5, <1>6

LEMMA RethrownCalls ==
  ASSUME RethrownInv, NEW p \in FewPublications, Rethrowing!CallHandler(p)
  PROVE  RethrownInv'
<1>1. /\ place[p] = "calling"
      /\ UNCHANGED <<sets, created, current, clock, contextOf, given, elsewhere, stack,
                     over, promises, troubled>>
  BY DEF Rethrowing!CallHandler, Rethrowing!registry
<1>2. PICK h \in Rethrowing!Ahead(p) :
        cursor' = [cursor EXCEPT ![p] = sets[over[p]][h]]
        /\ place' = [place EXCEPT ![p] = "inside"]
  BY DEF Rethrowing!CallHandler, Rethrowing!Accepts, Rethrowing!Goto
<1>3. /\ stack \in Seq(FewPublications) /\ OnceEach(stack)
      /\ over \in [FewPublications -> 0 .. created] /\ cursor \in [FewPublications -> Nat]
      /\ promises \in [FewPublications -> SUBSET Nat] /\ over[p] # 0
  BY <1>1 DEF RethrownInv
<1>4. over[p] \in 1 .. MaxSets /\ h \in Handlers /\ sets[over[p]][h] > cursor[p]
  BY <1>3, RethrownTypes DEF Rethrowing!Ahead
<1>5. sets[over[p]][h] \in Nat
  BY <1>4, RethrownTypes
<1>6. /\ place' \in [FewPublications -> Rethrowing!Steps] /\ place'[p] = "inside"
      /\ cursor' \in [FewPublications -> Nat] /\ cursor'[p] > cursor[p] /\ cursor'[p] \in Nat
      /\ \A r \in FewPublications \ {p} : place'[r] = place[r] /\ cursor'[r] = cursor[r]
  BY <1>2, <1>3, <1>4, <1>5, RethrownTypes DEF Rethrowing!Steps
<1>7. cursor'[p] # 0 /\ place'[p] # "resolved" /\ place'[p] # "idle" /\ over'[p] # 0
  BY <1>1, <1>3, <1>6
<1>8. promises'[p] \subseteq 1 .. cursor'[p]
  BY <1>1, <1>3, <1>6, RethrownTypes
<1>9. PICK s, a, b : s = stack /\ a = place /\ b = place'
  OBVIOUS
<1>10. StackOf(FewPublications, s, b)
  BY <1>1, <1>6, <1>9, RethrownTypes, StackStays
<1> QED
  BY <1>1, <1>3, <1>6, <1>7, <1>8, <1>9, <1>10, RethrownMoves

LEMMA RethrownReturns ==
  ASSUME RethrownInv, NEW p \in FewPublications, Rethrowing!Returns(p)
  PROVE  RethrownInv'
<1>1. /\ place[p] = "inside" /\ place' = [place EXCEPT ![p] = "calling"]
      /\ promises' = promises \/ promises' = [promises EXCEPT ![p] = @ \cup {cursor[p]}]
      /\ UNCHANGED <<sets, created, current, clock, contextOf, given, elsewhere, stack,
                     over, cursor, troubled>>
  BY DEF Rethrowing!Returns, Rethrowing!Goto, Rethrowing!registry
<1>2. /\ stack \in Seq(FewPublications) /\ OnceEach(stack)
      /\ over \in [FewPublications -> 0 .. created] /\ cursor \in [FewPublications -> Nat]
      /\ promises \in [FewPublications -> SUBSET Nat] /\ over[p] # 0 /\ cursor[p] # 0
  BY <1>1 DEF RethrownInv
<1>3. /\ place' \in [FewPublications -> Rethrowing!Steps] /\ place'[p] = "calling"
      /\ \A r \in FewPublications \ {p} : place'[r] = place[r]
  BY <1>1, RethrownTypes DEF Rethrowing!Steps
<1>4. /\ promises' \in [FewPublications -> SUBSET Nat]
      /\ promises'[p] \subseteq 1 .. cursor'[p]
      /\ \A r \in FewPublications \ {p} : promises'[r] = promises[r]
  <2>1. CASE promises' = promises
    BY <1>1, <1>2, <2>1, RethrownTypes
  <2>2. CASE promises' = [promises EXCEPT ![p] = @ \cup {cursor[p]}]
    BY <1>1, <1>2, <2>2, RethrownTypes
  <2> QED
    BY <1>1, <2>1, <2>2
<1>5. PICK s, a, b : s = stack /\ a = place /\ b = place'
  OBVIOUS
<1>6. StackOf(FewPublications, s, b)
  BY <1>1, <1>3, <1>5, RethrownTypes, StackStays
<1> QED
  BY <1>1, <1>2, <1>3, <1>4, <1>5, <1>6, RethrownMoves

(* The loop ends after the last handler, or with the first that throws.    *)
LEMMA RethrownEnds ==
  ASSUME RethrownInv, NEW p \in FewPublications,
         Rethrowing!EndLoop(p) \/ Rethrowing!Throws(p)
  PROVE  RethrownInv'
<1>1. /\ stack # <<>> /\ Head(stack) = p /\ stack' = Tail(stack)
      /\ \/ place' = [place EXCEPT ![p] = "abandoned"]
         \/ place' = [place EXCEPT ![p] = "awaiting"]
         \/ place' = [place EXCEPT ![p] = "resolved"] /\ promises[p] = {}
      /\ troubled' = troubled \/ troubled' = troubled \cup {p}
      /\ UNCHANGED <<sets, created, current, clock, contextOf, given, elsewhere, over,
                     cursor, promises>>
  BY DEF Rethrowing!EndLoop, Rethrowing!Throws, Rethrowing!Goto, Rethrowing!OnTop,
         Rethrowing!registry
<1>2. /\ stack \in Seq(FewPublications) /\ OnceEach(stack)
      /\ over \in [FewPublications -> 0 .. created] /\ cursor \in [FewPublications -> Nat]
      /\ promises \in [FewPublications -> SUBSET Nat]
  BY DEF RethrownInv
<1>3. /\ place' \in [FewPublications -> Rethrowing!Steps]
      /\ place'[p] \in {"abandoned", "awaiting", "resolved"}
      /\ place'[p] = "resolved" => promises[p] = {}
      /\ \A r \in FewPublications \ {p} : place'[r] = place[r]
  BY <1>1, RethrownTypes DEF Rethrowing!Steps
<1>4. PICK s, a, b : s = stack /\ a = place /\ b = place'
  OBVIOUS
<1>5. /\ s \in Seq(FewPublications) /\ s # <<>> /\ OnceEach(s)
      /\ StackOf(FewPublications, s, a) /\ b[Head(s)] \notin {"calling", "inside"}
      /\ \A r \in FewPublications \ {Head(s)} : b[r] = a[r]
  BY <1>1, <1>2, <1>3, <1>4, RethrownTypes
<1>6. /\ Tail(s) \in Seq(FewPublications)
      /\ StackOf(FewPublications, Tail(s), b) /\ OnceEach(Tail(s))
  BY <1>5, Popped
<1> QED
  BY <1>1, <1>2, <1>3, <1>4, <1>6, RethrownTypes, RethrownMoves

LEMMA RethrownSettles ==
  ASSUME RethrownInv, NEW p \in FewPublications, NEW x,
         Rethrowing!Fulfil(p, x) \/ Rethrowing!Reject(p, x)
  PROVE  RethrownInv'
<1>1. /\ x \in promises[p] /\ promises' = [promises EXCEPT ![p] = @ \ {x}]
      /\ \/ place' = place
         \/ place[p] = "awaiting" /\ place' = [place EXCEPT ![p] = "resolved"]
            /\ promises[p] = {x}
         \/ place[p] = "awaiting" /\ place' = [place EXCEPT ![p] = "rejected"]
      /\ troubled' = troubled \/ troubled' = troubled \cup {p}
      /\ UNCHANGED <<sets, created, current, clock, contextOf, given, elsewhere, stack,
                     over, cursor>>
  BY DEF Rethrowing!Fulfil, Rethrowing!Reject, Rethrowing!Goto, Rethrowing!registry
<1>2. /\ stack \in Seq(FewPublications) /\ OnceEach(stack)
      /\ over \in [FewPublications -> 0 .. created] /\ cursor \in [FewPublications -> Nat]
      /\ promises \in [FewPublications -> SUBSET Nat]
      /\ place[p] = "resolved" /\ p \notin troubled => promises[p] = {}
      /\ place[p] = "idle" => promises[p] = {}
      /\ place[p] \in {"calling", "inside"} => over[p] # 0
      /\ place[p] = "inside" => cursor[p] # 0
  BY DEF RethrownInv, Rethrowing!ResolvedMeansHandled
<1>3. /\ promises' \in [FewPublications -> SUBSET Nat] /\ promises'[p] = promises[p] \ {x}
      /\ promises'[p] \subseteq 1 .. cursor'[p]
      /\ \A r \in FewPublications \ {p} : promises'[r] = promises[r]
  BY <1>1, <1>2, RethrownTypes
<1>4. /\ place' \in [FewPublications -> Rethrowing!Steps]
      /\ \/ place'[p] = place[p]
         \/ place[p] = "awaiting" /\ place'[p] = "resolved" /\ promises'[p] = {}
         \/ place[p] = "awaiting" /\ place'[p] = "rejected"
      /\ \A r \in FewPublications \ {p} : place'[r] = place[r]
  BY <1>1, <1>3, RethrownTypes DEF Rethrowing!Steps
<1>5. PICK s, a, b : s = stack /\ a = place /\ b = place'
  OBVIOUS
<1>6. StackOf(FewPublications, s, b)
  BY <1>4, <1>5, RethrownTypes, StackStays
<1> QED
  BY <1>1, <1>2, <1>3, <1>4, <1>5, <1>6, RethrownMoves

(* Of trouble who published hears.                                         *)
LEMMA RethrownHeard ==
  ASSUME RethrownInv, HeardOf(FewPublications), Rethrowing!Next
  PROVE  HeardOf(FewPublications)'
<1>1. /\ place \in [FewPublications -> Rethrowing!Steps]
      /\ promises \in [FewPublications -> SUBSET Nat]
      /\ \A p \in FewPublications : place[p] = "idle" => promises[p] = {}
  BY RethrownTypes DEF RethrownInv
<1> USE <1>1 DEF HeardOf, Rethrowing!Goto
<1>2. ASSUME NEW p \in FewPublications, Rethrowing!Progress(p)
      PROVE  HeardOf(FewPublications)'
  <2>1. CASE Rethrowing!CallHandler(p)
    BY <2>1 DEF Rethrowing!CallHandler
  <2>2. CASE Rethrowing!Returns(p)
    BY <2>2 DEF Rethrowing!Returns
  <2>3. CASE Rethrowing!Throws(p)
    BY <2>3 DEF Rethrowing!Throws
  <2>4. CASE Rethrowing!EndLoop(p)
    BY <2>4 DEF Rethrowing!EndLoop
  <2>5. ASSUME NEW s \in 1 .. MaxStamps, Rethrowing!Fulfil(p, s)
        PROVE  HeardOf(FewPublications)'
    BY <2>5 DEF Rethrowing!Fulfil
  <2>6. ASSUME NEW s \in 1 .. MaxStamps, Rethrowing!Reject(p, s)
        PROVE  HeardOf(FewPublications)'
    <3>1. stack = <<>> /\ s \in promises[p]
      BY <2>6 DEF Rethrowing!Reject
    <3>2. place[p] \in {"awaiting", "resolved", "rejected", "abandoned"}
      <4>1. p \notin {stack[i] : i \in DOMAIN stack}
        BY <3>1
      <4>2. place[p] \notin {"calling", "inside"}
        BY <4>1, RethrownTypes DEF StackOf
      <4> QED
        BY <3>1, <4>2 DEF Rethrowing!Steps
    <3> QED
      BY <2>6, <3>1, <3>2 DEF Rethrowing!Reject
  <2> QED
    BY <1>2, <2>1, <2>2, <2>3, <2>4, <2>5, <2>6 DEF Rethrowing!Progress
<1>3. CASE \E p \in FewPublications, t \in {} \cup {None} : Rethrowing!Publish(p, t)
  BY <1>3 DEF Rethrowing!Publish
<1>4. CASE \/ \E h \in Handlers : Rethrowing!Unsubscribe(h)
           \/ \E h \in Handlers, c \in {} \cup {None} : Rethrowing!Subscribe(h, c)
           \/ Rethrowing!ClearHandlers
  BY <1>4 DEF Rethrowing!Unsubscribe, Rethrowing!Subscribe, Rethrowing!ClearHandlers
<1> QED
  BY <1>2, <1>3, <1>4 DEF Rethrowing!Next

LEMMA RethrownStep ==
  ASSUME bus = "rethrowing" => RethrownInv /\ HeardOf(FewPublications), [BusesNext]_buses
  PROVE  (bus = "rethrowing" => RethrownInv /\ HeardOf(FewPublications))'
<1>1. bus' = bus
  BY DEF BusesNext, buses
<1>2. ASSUME RethrownInv, Rethrowing!Next PROVE RethrownInv'
  <2>1. ASSUME NEW p \in FewPublications, Rethrowing!Progress(p) PROVE RethrownInv'
    BY <1>2, <2>1, RethrownCalls, RethrownReturns, RethrownEnds, RethrownSettles
       DEF Rethrowing!Progress
  <2>2. ASSUME NEW p \in FewPublications, NEW t \in {} \cup {None}, Rethrowing!Publish(p, t)
        PROVE  RethrownInv'
    BY <1>2, <2>2, RethrownPublishes
  <2>3. CASE Rethrowing!ClearHandlers
    <3>1. PICK h \in Handlers : TRUE
      BY <1>2, <2>3 DEF Rethrowing!ClearHandlers, RethrownInv, Rethrowing!TypeOK,
                        Rethrowing!Subscribed
    <3> QED
      BY <1>2, <2>3, <3>1, RethrownSubscribes
  <2> QED
    BY <1>2, <2>1, <2>2, <2>3, RethrownSubscribes DEF Rethrowing!Next
<1>3. CASE UNCHANGED published
  BY <1>1, <1>3
     DEF published, RethrownInv, OnceEach, Rethrowing!TypeOK, Rethrowing!Subscribed,
         Rethrowing!ResolvedMeansHandled, HeardOf
<1> QED
  BY <1>1, <1>2, <1>3, RethrownHeard DEF BusesNext, buses

(* Without an error handler a publish that resolves, with no handler of    *)
(* its having thrown or rejected, waited for every promise it was given,   *)
(* and with one who published hears an error (base-event-bus.ts publish).  *)
THEOREM ResolvedIsHandled ==
  BusesSpec =>
    [](bus = "rethrowing" =>
        /\ Rethrowing!TypeOK /\ Rethrowing!ResolvedMeansHandled
        /\ Rethrowing!TroubleIsTold)
<1>1. BusesInit => (bus = "rethrowing" => RethrownInv /\ HeardOf(FewPublications))
  BY RethrownStart DEF BusesInit, Rethrowing!Init, HeardOf
<1>2. (bus = "rethrowing" => RethrownInv /\ HeardOf(FewPublications)) /\ [BusesNext]_buses
        => (bus = "rethrowing" => RethrownInv /\ HeardOf(FewPublications))'
  BY RethrownStep
<1>3. RethrownInv /\ HeardOf(FewPublications)
        => /\ Rethrowing!TypeOK /\ Rethrowing!ResolvedMeansHandled
           /\ Rethrowing!TroubleIsTold
  BY DEF RethrownInv, HeardOf, Rethrowing!TroubleIsTold
<1> QED
  BY <1>1, <1>2, <1>3, PTL DEF BusesSpec

-----------------------------------------------------------------------------
(* Calls that go through the middlewares of a bus *)

(* A set that may have got one more element counts that.                   *)
LEMMA OneMore ==
  ASSUME NEW S, IsFiniteSet(S), NEW old \in SUBSET S, NEW c \in S \ old,
         NEW new \in {old, old \cup {c}}
  PROVE  /\ Cardinality(old) \in Nat
         /\ Cardinality(new) = Cardinality(old) + (IF c \in new THEN 1 ELSE 0)
<1>1. IsFiniteSet(old)
  BY FS_Subset
<1>2. Cardinality(old) \in Nat
  BY <1>1, FS_CardinalityType
<1>3. Cardinality(old \cup {c}) = Cardinality(old) + 1
  BY <1>1, FS_AddElement
<1> QED
  BY <1>2, <1>3

LEMMA CommandFacts ==
  /\ TypeOfCommand \in [Commands -> CommandTypes]
  /\ IsFiniteSet(Commands)
  /\ MaxMiddlewares \in Nat /\ CommandNexts \in Nat /\ CommandHandlers \in Nat
BY CommandsAssumption
   DEF Bus!CommandBusAssumption, Cqrs!CqrsAssumption,
       IsFiniteSet, Bus!IsFiniteSet

LEMMA CommandCardinality ==
  ASSUME NEW S
  PROVE  Bus!Cardinality(S) = Cardinality(S)
BY DEF Cardinality, Bus!Cardinality

LEMMA ConfiguredFacts ==
  /\ TypeOfConfigured \in [ConfiguredCommands -> ConfiguredTypes]
  /\ IsFiniteSet(ConfiguredCommands)
  /\ MaxMiddlewares \in Nat /\ ConfiguredNexts \in Nat /\ ConfiguredHandlers \in Nat
BY CommandsAssumption
   DEF Cqrs!CommandBusAssumption, Cqrs!CqrsAssumption,
       IsFiniteSet, Cqrs!IsFiniteSet

LEMMA ConfiguredCardinality ==
  ASSUME NEW S
  PROVE  Cqrs!Cardinality(S) = Cardinality(S)
BY DEF Cardinality, Cqrs!Cardinality

LEMMA QueryFacts ==
  /\ TypeOfQuery \in [Queried -> QueryTypes]
  /\ IsFiniteSet(Queried)
  /\ MaxMiddlewares \in Nat /\ ConfiguredNexts \in Nat /\ ConfiguredHandlers \in Nat
BY CommandsAssumption
   DEF Cqrs!Queries!CommandBusAssumption, Cqrs!CqrsAssumption,
       IsFiniteSet, Cqrs!Queries!IsFiniteSet

LEMMA QueryCardinality ==
  ASSUME NEW S
  PROVE  Cqrs!Queries!Cardinality(S) = Cardinality(S)
BY DEF Cardinality, Cqrs!Queries!Cardinality

(* A call is inside of no more middlewares than its pipeline entered and   *)
(* the bus has, and has its handler once it runs; what the discovery under *)
(* way has left without a handler is still to visit.                       *)
CommandInv ==
  /\ Bus!TypeOK
  /\ \A c \in Commands :
       /\ depth[c] <= index[c] /\ index[c] <= middlewares
       /\ at[c] = "inside" => depth[c] > 0
       /\ at[c] \in {"validating", "next", "inside"} => handler[c] # 0
  /\ toDiscover # {} => \A t \in decorated : chosen[t] = 0 => t \in toDiscover

CommandRegistered ==
  \/ \E t \in CommandTypes :
       \/ Bus!Register(t)
       \/ Bus!Discover(t)
       \/ Bus!DiscoverThrows(t)
  \/ Bus!DiscoverHandlers \/ Bus!Use

CommandProceeds(c) ==
  \/ Bus!NoHandler(c)
  \/ Bus!Execute(c)
  \/ Bus!Valid(c)
  \/ Bus!Invalid(c)
  \/ Bus!EnterMiddleware(c)
  \/ Bus!CallNext(c)
  \/ \E v \in {"ok", "failed"} :
       \/ Bus!RunHandler(c, v)
       \/ Bus!Leave(c, v)

LEMMA CommandRegistry ==
  ASSUME CommandInv, CommandRegistered
  PROVE  /\ CommandInv' /\ middlewares' >= middlewares
         /\ UNCHANGED <<decorated, Bus!callVars, counted>>
         /\ \A t \in CommandTypes :
              chosen[t] # 0 =>
                chosen'[t] # 0 /\ (toDiscover # {} => chosen'[t] = chosen[t])
<1> USE CommandFacts DEF Bus!callVars, Bus!regVars, Bus!Running
<1>1. /\ UNCHANGED <<decorated, at, handler, index, depth, nexts,
                     reached, verdict, counted>>
      /\ middlewares' >= middlewares
  BY DEF CommandInv, Bus!TypeOK, CommandRegistered, Bus!Register,
         Bus!Discover, Bus!DiscoverThrows, Bus!DiscoverHandlers,
         Bus!Use
<1>2. /\ Bus!TypeOK'
      /\ toDiscover' # {} => \A t \in decorated : chosen'[t] = 0 => t \in toDiscover'
      /\ \A t \in CommandTypes :
           chosen[t] # 0 =>
             chosen'[t] # 0 /\ (toDiscover # {} => chosen'[t] = chosen[t])
  <2> USE DEF CommandInv, Bus!TypeOK
  <2>1. ASSUME NEW t \in CommandTypes, Bus!Register(t)
        PROVE  <1>2
    BY <2>1 DEF Bus!Register
  <2>2. ASSUME NEW t \in CommandTypes, Bus!Discover(t)
        PROVE  <1>2
    BY <2>2 DEF Bus!Discover
  <2>3. CASE \E t \in CommandTypes : Bus!DiscoverThrows(t)
    BY <2>3 DEF Bus!DiscoverThrows
  <2>4. CASE Bus!DiscoverHandlers
    BY <2>4 DEF Bus!DiscoverHandlers
  <2>5. CASE Bus!Use
    BY <2>5 DEF Bus!Use
  <2> QED
    BY <2>1, <2>2, <2>3, <2>4, <2>5 DEF CommandRegistered
<1> QED
  BY <1>1, <1>2 DEF CommandInv, Bus!TypeOK

LEMMA CommandCall ==
  ASSUME CommandInv, NEW c \in Commands, CommandProceeds(c)
  PROVE  CommandInv'
<1> USE CommandFacts DEF CommandInv, Bus!TypeOK, Bus!callVars, Bus!regVars
<1> USE DEF Bus!NotReached, Bus!Goto, Bus!Say
<1> USE DEF Bus!Settle, Bus!Count
<1>1. CASE Bus!NoHandler(c)
  BY <1>1 DEF Bus!NoHandler
<1>2. CASE Bus!Execute(c)
  BY <1>2 DEF Bus!Execute
<1>3. CASE Bus!Valid(c)
  BY <1>3 DEF Bus!Valid
<1>4. CASE Bus!Invalid(c)
  BY <1>4 DEF Bus!Invalid
<1>5. CASE Bus!EnterMiddleware(c)
  BY <1>5 DEF Bus!EnterMiddleware
<1>6. CASE Bus!CallNext(c)
  BY <1>6 DEF Bus!CallNext
<1>7. ASSUME NEW v \in {"ok", "failed"}, Bus!RunHandler(c, v) PROVE CommandInv'
  BY <1>7 DEF Bus!RunHandler
<1>8. ASSUME NEW v \in {"ok", "failed"}, Bus!Leave(c, v) PROVE CommandInv'
  BY <1>8 DEF Bus!Leave
<1> QED
  BY <1>1, <1>2, <1>3, <1>4, <1>5, <1>6, <1>7, <1>8 DEF CommandProceeds

(* Of a call that is not settled another step tells what it comes to; the  *)
(* other calls stay.                                                       *)
LEMMA CommandCallMoves ==
  ASSUME CommandInv, NEW c \in Commands, CommandProceeds(c)
  PROVE  /\ at[c] # "settled" /\ UNCHANGED <<Bus!regVars, middlewares>>
         /\ \A d \in Commands \ {c} :
              at'[d] = at[d] /\ verdict'[d] = verdict[d] /\ reached'[d] = reached[d]
         /\ \/ at'[c] # "settled" /\ UNCHANGED counted
            \/ at'[c] = "settled" /\ verdict'[c] = "ok"
               /\ counted' = [ok |-> counted.ok + 1, errors |-> counted.errors]
            \/ at'[c] = "settled" /\ verdict'[c] = "failed"
               /\ counted' = [ok |-> counted.ok, errors |-> counted.errors + 1]
         /\ reached'[c] # reached[c] => reached'[c] = middlewares /\ handler[c] # 0
<1> USE CommandFacts DEF CommandInv, Bus!TypeOK, Bus!callVars, Bus!regVars
<1> USE DEF Bus!NotReached, Bus!Goto, Bus!Say
<1> USE DEF Bus!Settle, Bus!Count
<1>1. CASE Bus!NoHandler(c)
  BY <1>1 DEF Bus!NoHandler
<1>2. CASE Bus!Execute(c)
  BY <1>2 DEF Bus!Execute
<1>3. CASE Bus!Valid(c)
  BY <1>3 DEF Bus!Valid
<1>4. CASE Bus!Invalid(c)
  BY <1>4 DEF Bus!Invalid
<1>5. CASE Bus!EnterMiddleware(c)
  BY <1>5 DEF Bus!EnterMiddleware
<1>6. CASE Bus!CallNext(c)
  BY <1>6 DEF Bus!CallNext
<1>7. CASE \E v \in {"ok", "failed"} : Bus!RunHandler(c, v)
  BY <1>7 DEF Bus!RunHandler
<1>8. CASE \E v \in {"ok", "failed"} : Bus!Leave(c, v)
  BY <1>8 DEF Bus!Leave
<1> QED
  BY <1>1, <1>2, <1>3, <1>4, <1>5, <1>6, <1>7, <1>8 DEF CommandProceeds

(* The settled calls stay counted.                                         *)
LEMMA CommandTally ==
  ASSUME CommandInv, Bus!Next, NEW v \in {"ok", "failed"}
  PROVE  LET told  == Cardinality({c \in Commands :
                        at[c] = "settled" /\ verdict[c] = v})
             tells == Cardinality({c \in Commands :
                        at'[c] = "settled" /\ verdict'[c] = v})
         IN  /\ told \in Nat
             /\ v = "ok" => tells = told + (counted.ok' - counted.ok)
             /\ v = "failed" => tells = told + (counted.errors' - counted.errors)
<1> DEFINE of(P, Q) == Cardinality({c \in Commands : P[c] = "settled" /\ Q[c] = v})
<1>1. PICK P, Q, P1, Q1 : P = at /\ Q = verdict /\ P1 = at' /\ Q1 = verdict'
  OBVIOUS
<1>2. counted.ok \in Nat /\ counted.errors \in Nat
  BY DEF CommandInv, Bus!TypeOK
<1>3. IsFiniteSet({c \in Commands : P[c] = "settled" /\ Q[c] = v})
  BY CommandFacts, FS_Subset
<1>4. of(P, Q) \in Nat
  BY <1>3, FS_CardinalityType
<1>5. /\ v = "ok" => of(P1, Q1) = of(P, Q) + (counted.ok' - counted.ok)
      /\ v = "failed" => of(P1, Q1) = of(P, Q) + (counted.errors' - counted.errors)
  <2>1. CASE CommandRegistered
    <3>1. P1 = P /\ Q1 = Q /\ UNCHANGED counted
      BY <1>1, <2>1, CommandRegistry DEF Bus!callVars
    <3> HIDE DEF of
    <3> QED
      BY <1>2, <1>4, <3>1
  <2>2. ASSUME NEW c \in Commands, CommandProceeds(c)
        PROVE  <1>5
    <3>1. /\ P[c] # "settled"
          /\ \A d \in Commands \ {c} : P1[d] = P[d] /\ Q1[d] = Q[d]
          /\ \/ P1[c] # "settled" /\ UNCHANGED counted
             \/ P1[c] = "settled" /\ Q1[c] = "ok"
                /\ counted' = [ok |-> counted.ok + 1, errors |-> counted.errors]
             \/ P1[c] = "settled" /\ Q1[c] = "failed"
                /\ counted' = [ok |-> counted.ok, errors |-> counted.errors + 1]
      BY <1>1, <2>2, CommandCallMoves
    <3> DEFINE old == {d \in Commands : P[d] = "settled" /\ Q[d] = v}
               new == {d \in Commands : P1[d] = "settled" /\ Q1[d] = v}
    <3>2. c \notin old /\ new \in {old, old \cup {c}}
      BY <3>1
    <3>3. c \in new <=> P1[c] = "settled" /\ Q1[c] = v
      OBVIOUS
    <3>4. /\ old \in SUBSET Commands
          /\ of(P, Q) = Cardinality(old) /\ of(P1, Q1) = Cardinality(new)
      OBVIOUS
    <3> HIDE DEF old, new
    <3>5. Cardinality(new) = Cardinality(old) + (IF c \in new THEN 1 ELSE 0)
      BY <3>2, <3>4, CommandFacts, OneMore
    <3> HIDE DEF of
    <3> QED
      BY <1>2, <1>4, <3>1, <3>3, <3>4, <3>5
  <2> QED
    BY <2>1, <2>2 DEF Bus!Next, CommandRegistered, CommandProceeds
<1> QED
  BY <1>1, <1>4, <1>5

LEMMA CommandKept ==
  ASSUME CommandInv, Bus!Next
  PROVE  /\ CommandInv' /\ middlewares' >= middlewares /\ decorated' = decorated
         /\ \A t \in CommandTypes :
              chosen[t] # 0 =>
                chosen'[t] # 0 /\ (toDiscover # {} => chosen'[t] = chosen[t])
         /\ \A c \in Commands :
              reached'[c] # reached[c] => reached'[c] = middlewares /\ handler[c] # 0
<1>1. CASE CommandRegistered
  BY <1>1, CommandRegistry DEF Bus!callVars
<1>2. ASSUME NEW c \in Commands, CommandProceeds(c)
      PROVE  /\ CommandInv' /\ middlewares' >= middlewares
             /\ UNCHANGED Bus!regVars
             /\ \A d \in Commands :
                  reached'[d] # reached[d] => reached'[d] = middlewares /\ handler[d] # 0
  BY <1>2, CommandCall, CommandCallMoves, CommandFacts DEF CommandInv, Bus!TypeOK
<1> QED
  BY <1>1, <1>2 DEF Bus!Next, Bus!regVars, CommandRegistered, CommandProceeds

(* A call is inside of no more middlewares than its pipeline entered and   *)
(* the bus has, and has its handler once it runs; what the discovery under *)
(* way has left without a handler is still to visit.                       *)
ConfiguredInv ==
  /\ Cqrs!TypeOK
  /\ \A c \in ConfiguredCommands :
       /\ cDepth[c] <= cIndex[c] /\ cIndex[c] <= cMiddlewares
       /\ cPc[c] = "inside" => cDepth[c] > 0
       /\ cPc[c] \in {"validating", "next", "inside"} => cHandler[c] # 0
  /\ cToDiscover # {} => \A t \in cDecorated : cHandlers[t] = 0 => t \in cToDiscover

ConfiguredRegistered ==
  \/ \E t \in ConfiguredTypes :
       \/ Cqrs!Register(t)
       \/ Cqrs!Discover(t)
       \/ Cqrs!DiscoverThrows(t)
  \/ Cqrs!DiscoverHandlers \/ Cqrs!Use

ConfiguredProceeds(c) ==
  \/ Cqrs!NoHandler(c)
  \/ Cqrs!Execute(c)
  \/ Cqrs!Valid(c)
  \/ Cqrs!Invalid(c)
  \/ Cqrs!EnterMiddleware(c)
  \/ Cqrs!CallNext(c)
  \/ \E v \in {"ok", "failed"} :
       \/ Cqrs!RunHandler(c, v)
       \/ Cqrs!Leave(c, v)

LEMMA ConfiguredRegistry ==
  ASSUME ConfiguredInv, ConfiguredRegistered
  PROVE  /\ ConfiguredInv' /\ cMiddlewares' >= cMiddlewares
         /\ UNCHANGED <<cDecorated, Cqrs!callVars, cCounted>>
         /\ \A t \in ConfiguredTypes :
              cHandlers[t] # 0 =>
                cHandlers'[t] # 0 /\ (cToDiscover # {} => cHandlers'[t] = cHandlers[t])
<1> USE ConfiguredFacts DEF Cqrs!callVars, Cqrs!regVars, Cqrs!Running
<1>1. /\ UNCHANGED <<cDecorated, cPc, cHandler, cIndex, cDepth, cNexts,
                     cReached, cVerdict, cCounted>>
      /\ cMiddlewares' >= cMiddlewares
  BY DEF ConfiguredInv, Cqrs!TypeOK, ConfiguredRegistered, Cqrs!Register,
         Cqrs!Discover, Cqrs!DiscoverThrows, Cqrs!DiscoverHandlers,
         Cqrs!Use
<1>2. /\ Cqrs!TypeOK'
      /\ cToDiscover' # {} => \A t \in cDecorated : cHandlers'[t] = 0 => t \in cToDiscover'
      /\ \A t \in ConfiguredTypes :
           cHandlers[t] # 0 =>
             cHandlers'[t] # 0 /\ (cToDiscover # {} => cHandlers'[t] = cHandlers[t])
  <2> USE DEF ConfiguredInv, Cqrs!TypeOK
  <2>1. ASSUME NEW t \in ConfiguredTypes, Cqrs!Register(t)
        PROVE  <1>2
    BY <2>1 DEF Cqrs!Register
  <2>2. ASSUME NEW t \in ConfiguredTypes, Cqrs!Discover(t)
        PROVE  <1>2
    BY <2>2 DEF Cqrs!Discover
  <2>3. CASE \E t \in ConfiguredTypes : Cqrs!DiscoverThrows(t)
    BY <2>3 DEF Cqrs!DiscoverThrows
  <2>4. CASE Cqrs!DiscoverHandlers
    BY <2>4 DEF Cqrs!DiscoverHandlers
  <2>5. CASE Cqrs!Use
    BY <2>5 DEF Cqrs!Use
  <2> QED
    BY <2>1, <2>2, <2>3, <2>4, <2>5 DEF ConfiguredRegistered
<1> QED
  BY <1>1, <1>2 DEF ConfiguredInv, Cqrs!TypeOK

LEMMA ConfiguredCall ==
  ASSUME ConfiguredInv, NEW c \in ConfiguredCommands, ConfiguredProceeds(c)
  PROVE  ConfiguredInv'
<1> USE ConfiguredFacts DEF ConfiguredInv, Cqrs!TypeOK, Cqrs!callVars, Cqrs!regVars
<1> USE DEF Cqrs!NotReached, Cqrs!Goto, Cqrs!Say
<1> USE DEF Cqrs!Settle, Cqrs!Count
<1>1. CASE Cqrs!NoHandler(c)
  BY <1>1 DEF Cqrs!NoHandler
<1>2. CASE Cqrs!Execute(c)
  BY <1>2 DEF Cqrs!Execute
<1>3. CASE Cqrs!Valid(c)
  BY <1>3 DEF Cqrs!Valid
<1>4. CASE Cqrs!Invalid(c)
  BY <1>4 DEF Cqrs!Invalid
<1>5. CASE Cqrs!EnterMiddleware(c)
  BY <1>5 DEF Cqrs!EnterMiddleware
<1>6. CASE Cqrs!CallNext(c)
  BY <1>6 DEF Cqrs!CallNext
<1>7. ASSUME NEW v \in {"ok", "failed"}, Cqrs!RunHandler(c, v) PROVE ConfiguredInv'
  BY <1>7 DEF Cqrs!RunHandler
<1>8. ASSUME NEW v \in {"ok", "failed"}, Cqrs!Leave(c, v) PROVE ConfiguredInv'
  BY <1>8 DEF Cqrs!Leave
<1> QED
  BY <1>1, <1>2, <1>3, <1>4, <1>5, <1>6, <1>7, <1>8 DEF ConfiguredProceeds

(* Of a call that is not settled another step tells what it comes to; the  *)
(* other calls stay.                                                       *)
LEMMA ConfiguredCallMoves ==
  ASSUME ConfiguredInv, NEW c \in ConfiguredCommands, ConfiguredProceeds(c)
  PROVE  /\ cPc[c] # "settled" /\ UNCHANGED <<Cqrs!regVars, cMiddlewares>>
         /\ \A d \in ConfiguredCommands \ {c} :
              cPc'[d] = cPc[d] /\ cVerdict'[d] = cVerdict[d] /\ cReached'[d] = cReached[d]
         /\ \/ cPc'[c] # "settled" /\ UNCHANGED cCounted
            \/ cPc'[c] = "settled" /\ cVerdict'[c] = "ok"
               /\ cCounted' = [ok |-> cCounted.ok + 1, errors |-> cCounted.errors]
            \/ cPc'[c] = "settled" /\ cVerdict'[c] = "failed"
               /\ cCounted' = [ok |-> cCounted.ok, errors |-> cCounted.errors + 1]
         /\ cReached'[c] # cReached[c] => cReached'[c] = cMiddlewares /\ cHandler[c] # 0
<1> USE ConfiguredFacts DEF ConfiguredInv, Cqrs!TypeOK, Cqrs!callVars, Cqrs!regVars
<1> USE DEF Cqrs!NotReached, Cqrs!Goto, Cqrs!Say
<1> USE DEF Cqrs!Settle, Cqrs!Count
<1>1. CASE Cqrs!NoHandler(c)
  BY <1>1 DEF Cqrs!NoHandler
<1>2. CASE Cqrs!Execute(c)
  BY <1>2 DEF Cqrs!Execute
<1>3. CASE Cqrs!Valid(c)
  BY <1>3 DEF Cqrs!Valid
<1>4. CASE Cqrs!Invalid(c)
  BY <1>4 DEF Cqrs!Invalid
<1>5. CASE Cqrs!EnterMiddleware(c)
  BY <1>5 DEF Cqrs!EnterMiddleware
<1>6. CASE Cqrs!CallNext(c)
  BY <1>6 DEF Cqrs!CallNext
<1>7. CASE \E v \in {"ok", "failed"} : Cqrs!RunHandler(c, v)
  BY <1>7 DEF Cqrs!RunHandler
<1>8. CASE \E v \in {"ok", "failed"} : Cqrs!Leave(c, v)
  BY <1>8 DEF Cqrs!Leave
<1> QED
  BY <1>1, <1>2, <1>3, <1>4, <1>5, <1>6, <1>7, <1>8 DEF ConfiguredProceeds

(* The settled calls stay counted.                                         *)
LEMMA ConfiguredTally ==
  ASSUME ConfiguredInv, Cqrs!Next, NEW v \in {"ok", "failed"}
  PROVE  LET told  == Cardinality({c \in ConfiguredCommands :
                        cPc[c] = "settled" /\ cVerdict[c] = v})
             tells == Cardinality({c \in ConfiguredCommands :
                        cPc'[c] = "settled" /\ cVerdict'[c] = v})
         IN  /\ told \in Nat
             /\ v = "ok" => tells = told + (cCounted.ok' - cCounted.ok)
             /\ v = "failed" => tells = told + (cCounted.errors' - cCounted.errors)
<1> DEFINE of(P, Q) == Cardinality({c \in ConfiguredCommands : P[c] = "settled" /\ Q[c] = v})
<1>1. PICK P, Q, P1, Q1 : P = cPc /\ Q = cVerdict /\ P1 = cPc' /\ Q1 = cVerdict'
  OBVIOUS
<1>2. cCounted.ok \in Nat /\ cCounted.errors \in Nat
  BY DEF ConfiguredInv, Cqrs!TypeOK
<1>3. IsFiniteSet({c \in ConfiguredCommands : P[c] = "settled" /\ Q[c] = v})
  BY ConfiguredFacts, FS_Subset
<1>4. of(P, Q) \in Nat
  BY <1>3, FS_CardinalityType
<1>5. /\ v = "ok" => of(P1, Q1) = of(P, Q) + (cCounted.ok' - cCounted.ok)
      /\ v = "failed" => of(P1, Q1) = of(P, Q) + (cCounted.errors' - cCounted.errors)
  <2>1. CASE ConfiguredRegistered
    <3>1. P1 = P /\ Q1 = Q /\ UNCHANGED cCounted
      BY <1>1, <2>1, ConfiguredRegistry DEF Cqrs!callVars
    <3> HIDE DEF of
    <3> QED
      BY <1>2, <1>4, <3>1
  <2>2. ASSUME NEW c \in ConfiguredCommands, ConfiguredProceeds(c)
        PROVE  <1>5
    <3>1. /\ P[c] # "settled"
          /\ \A d \in ConfiguredCommands \ {c} : P1[d] = P[d] /\ Q1[d] = Q[d]
          /\ \/ P1[c] # "settled" /\ UNCHANGED cCounted
             \/ P1[c] = "settled" /\ Q1[c] = "ok"
                /\ cCounted' = [ok |-> cCounted.ok + 1, errors |-> cCounted.errors]
             \/ P1[c] = "settled" /\ Q1[c] = "failed"
                /\ cCounted' = [ok |-> cCounted.ok, errors |-> cCounted.errors + 1]
      BY <1>1, <2>2, ConfiguredCallMoves
    <3> DEFINE old == {d \in ConfiguredCommands : P[d] = "settled" /\ Q[d] = v}
               new == {d \in ConfiguredCommands : P1[d] = "settled" /\ Q1[d] = v}
    <3>2. c \notin old /\ new \in {old, old \cup {c}}
      BY <3>1
    <3>3. c \in new <=> P1[c] = "settled" /\ Q1[c] = v
      OBVIOUS
    <3>4. /\ old \in SUBSET ConfiguredCommands
          /\ of(P, Q) = Cardinality(old) /\ of(P1, Q1) = Cardinality(new)
      OBVIOUS
    <3> HIDE DEF old, new
    <3>5. Cardinality(new) = Cardinality(old) + (IF c \in new THEN 1 ELSE 0)
      BY <3>2, <3>4, ConfiguredFacts, OneMore
    <3> HIDE DEF of
    <3> QED
      BY <1>2, <1>4, <3>1, <3>3, <3>4, <3>5
  <2> QED
    BY <2>1, <2>2 DEF Cqrs!Next, ConfiguredRegistered, ConfiguredProceeds
<1> QED
  BY <1>1, <1>4, <1>5

LEMMA ConfiguredKept ==
  ASSUME ConfiguredInv, Cqrs!Next
  PROVE  /\ ConfiguredInv' /\ cMiddlewares' >= cMiddlewares /\ cDecorated' = cDecorated
         /\ \A t \in ConfiguredTypes :
              cHandlers[t] # 0 =>
                cHandlers'[t] # 0 /\ (cToDiscover # {} => cHandlers'[t] = cHandlers[t])
         /\ \A c \in ConfiguredCommands :
              cReached'[c] # cReached[c] => cReached'[c] = cMiddlewares /\ cHandler[c] # 0
<1>1. CASE ConfiguredRegistered
  BY <1>1, ConfiguredRegistry DEF Cqrs!callVars
<1>2. ASSUME NEW c \in ConfiguredCommands, ConfiguredProceeds(c)
      PROVE  /\ ConfiguredInv' /\ cMiddlewares' >= cMiddlewares
             /\ UNCHANGED Cqrs!regVars
             /\ \A d \in ConfiguredCommands :
                  cReached'[d] # cReached[d] => cReached'[d] = cMiddlewares /\ cHandler[d] # 0
  BY <1>2, ConfiguredCall, ConfiguredCallMoves, ConfiguredFacts DEF ConfiguredInv, Cqrs!TypeOK
<1> QED
  BY <1>1, <1>2 DEF Cqrs!Next, Cqrs!regVars, ConfiguredRegistered, ConfiguredProceeds

(* A call is inside of no more middlewares than its pipeline entered and   *)
(* the bus has, and has its handler once it runs; what the discovery under *)
(* way has left without a handler is still to visit.                       *)
QueryInv ==
  /\ Cqrs!Queries!TypeOK
  /\ \A c \in Queried :
       /\ qDepth[c] <= qIndex[c] /\ qIndex[c] <= qMiddlewares
       /\ qPc[c] = "inside" => qDepth[c] > 0
       /\ qPc[c] \in {"validating", "next", "inside"} => qHandler[c] # 0
  /\ qToDiscover # {} => \A t \in qDecorated : qHandlers[t] = 0 => t \in qToDiscover

QueryRegistered ==
  \/ \E t \in QueryTypes :
       \/ Cqrs!Queries!Register(t)
       \/ Cqrs!Queries!Discover(t)
       \/ Cqrs!Queries!DiscoverThrows(t)
  \/ Cqrs!Queries!DiscoverHandlers \/ Cqrs!Queries!Use

QueryProceeds(c) ==
  \/ Cqrs!Queries!NoHandler(c)
  \/ Cqrs!Queries!Execute(c)
  \/ Cqrs!Queries!Valid(c)
  \/ Cqrs!Queries!Invalid(c)
  \/ Cqrs!Queries!EnterMiddleware(c)
  \/ Cqrs!Queries!CallNext(c)
  \/ \E v \in {"ok", "failed"} :
       \/ Cqrs!Queries!RunHandler(c, v)
       \/ Cqrs!Queries!Leave(c, v)

LEMMA QueryRegistry ==
  ASSUME QueryInv, QueryRegistered
  PROVE  /\ QueryInv' /\ qMiddlewares' >= qMiddlewares
         /\ UNCHANGED <<qDecorated, Cqrs!Queries!callVars, qCounted>>
         /\ \A t \in QueryTypes :
              qHandlers[t] # 0 =>
                qHandlers'[t] # 0 /\ (qToDiscover # {} => qHandlers'[t] = qHandlers[t])
<1> USE QueryFacts DEF Cqrs!Queries!callVars, Cqrs!Queries!regVars, Cqrs!Queries!Running
<1>1. /\ UNCHANGED <<qDecorated, qPc, qHandler, qIndex, qDepth, qNexts,
                     qReached, qVerdict, qCounted>>
      /\ qMiddlewares' >= qMiddlewares
  BY DEF QueryInv, Cqrs!Queries!TypeOK, QueryRegistered, Cqrs!Queries!Register,
         Cqrs!Queries!Discover, Cqrs!Queries!DiscoverThrows, Cqrs!Queries!DiscoverHandlers,
         Cqrs!Queries!Use
<1>2. /\ Cqrs!Queries!TypeOK'
      /\ qToDiscover' # {} => \A t \in qDecorated : qHandlers'[t] = 0 => t \in qToDiscover'
      /\ \A t \in QueryTypes :
           qHandlers[t] # 0 =>
             qHandlers'[t] # 0 /\ (qToDiscover # {} => qHandlers'[t] = qHandlers[t])
  <2> USE DEF QueryInv, Cqrs!Queries!TypeOK
  <2>1. ASSUME NEW t \in QueryTypes, Cqrs!Queries!Register(t)
        PROVE  <1>2
    BY <2>1 DEF Cqrs!Queries!Register
  <2>2. ASSUME NEW t \in QueryTypes, Cqrs!Queries!Discover(t)
        PROVE  <1>2
    BY <2>2 DEF Cqrs!Queries!Discover
  <2>3. CASE \E t \in QueryTypes : Cqrs!Queries!DiscoverThrows(t)
    BY <2>3 DEF Cqrs!Queries!DiscoverThrows
  <2>4. CASE Cqrs!Queries!DiscoverHandlers
    BY <2>4 DEF Cqrs!Queries!DiscoverHandlers
  <2>5. CASE Cqrs!Queries!Use
    BY <2>5 DEF Cqrs!Queries!Use
  <2> QED
    BY <2>1, <2>2, <2>3, <2>4, <2>5 DEF QueryRegistered
<1> QED
  BY <1>1, <1>2 DEF QueryInv, Cqrs!Queries!TypeOK

LEMMA QueryCall ==
  ASSUME QueryInv, NEW c \in Queried, QueryProceeds(c)
  PROVE  QueryInv'
<1> USE QueryFacts DEF QueryInv, Cqrs!Queries!TypeOK, Cqrs!Queries!callVars, Cqrs!Queries!regVars
<1> USE DEF Cqrs!Queries!NotReached, Cqrs!Queries!Goto, Cqrs!Queries!Say
<1> USE DEF Cqrs!Queries!Settle, Cqrs!Queries!Count
<1>1. CASE Cqrs!Queries!NoHandler(c)
  BY <1>1 DEF Cqrs!Queries!NoHandler
<1>2. CASE Cqrs!Queries!Execute(c)
  BY <1>2 DEF Cqrs!Queries!Execute
<1>3. CASE Cqrs!Queries!Valid(c)
  BY <1>3 DEF Cqrs!Queries!Valid
<1>4. CASE Cqrs!Queries!Invalid(c)
  BY <1>4 DEF Cqrs!Queries!Invalid
<1>5. CASE Cqrs!Queries!EnterMiddleware(c)
  BY <1>5 DEF Cqrs!Queries!EnterMiddleware
<1>6. CASE Cqrs!Queries!CallNext(c)
  BY <1>6 DEF Cqrs!Queries!CallNext
<1>7. ASSUME NEW v \in {"ok", "failed"}, Cqrs!Queries!RunHandler(c, v) PROVE QueryInv'
  BY <1>7 DEF Cqrs!Queries!RunHandler
<1>8. ASSUME NEW v \in {"ok", "failed"}, Cqrs!Queries!Leave(c, v) PROVE QueryInv'
  BY <1>8 DEF Cqrs!Queries!Leave
<1> QED
  BY <1>1, <1>2, <1>3, <1>4, <1>5, <1>6, <1>7, <1>8 DEF QueryProceeds

(* Of a call that is not settled another step tells what it comes to; the  *)
(* other calls stay.                                                       *)
LEMMA QueryCallMoves ==
  ASSUME QueryInv, NEW c \in Queried, QueryProceeds(c)
  PROVE  /\ qPc[c] # "settled" /\ UNCHANGED <<Cqrs!Queries!regVars, qMiddlewares>>
         /\ \A d \in Queried \ {c} :
              qPc'[d] = qPc[d] /\ qVerdict'[d] = qVerdict[d] /\ qReached'[d] = qReached[d]
         /\ \/ qPc'[c] # "settled" /\ UNCHANGED qCounted
            \/ qPc'[c] = "settled" /\ qVerdict'[c] = "ok"
               /\ qCounted' = [ok |-> qCounted.ok + 1, errors |-> qCounted.errors]
            \/ qPc'[c] = "settled" /\ qVerdict'[c] = "failed"
               /\ qCounted' = [ok |-> qCounted.ok, errors |-> qCounted.errors + 1]
         /\ qReached'[c] # qReached[c] => qReached'[c] = qMiddlewares /\ qHandler[c] # 0
<1> USE QueryFacts DEF QueryInv, Cqrs!Queries!TypeOK, Cqrs!Queries!callVars, Cqrs!Queries!regVars
<1> USE DEF Cqrs!Queries!NotReached, Cqrs!Queries!Goto, Cqrs!Queries!Say
<1> USE DEF Cqrs!Queries!Settle, Cqrs!Queries!Count
<1>1. CASE Cqrs!Queries!NoHandler(c)
  BY <1>1 DEF Cqrs!Queries!NoHandler
<1>2. CASE Cqrs!Queries!Execute(c)
  BY <1>2 DEF Cqrs!Queries!Execute
<1>3. CASE Cqrs!Queries!Valid(c)
  BY <1>3 DEF Cqrs!Queries!Valid
<1>4. CASE Cqrs!Queries!Invalid(c)
  BY <1>4 DEF Cqrs!Queries!Invalid
<1>5. CASE Cqrs!Queries!EnterMiddleware(c)
  BY <1>5 DEF Cqrs!Queries!EnterMiddleware
<1>6. CASE Cqrs!Queries!CallNext(c)
  BY <1>6 DEF Cqrs!Queries!CallNext
<1>7. CASE \E v \in {"ok", "failed"} : Cqrs!Queries!RunHandler(c, v)
  BY <1>7 DEF Cqrs!Queries!RunHandler
<1>8. CASE \E v \in {"ok", "failed"} : Cqrs!Queries!Leave(c, v)
  BY <1>8 DEF Cqrs!Queries!Leave
<1> QED
  BY <1>1, <1>2, <1>3, <1>4, <1>5, <1>6, <1>7, <1>8 DEF QueryProceeds

(* The settled calls stay counted.                                         *)
LEMMA QueryTally ==
  ASSUME QueryInv, Cqrs!Queries!Next, NEW v \in {"ok", "failed"}
  PROVE  LET told  == Cardinality({c \in Queried :
                        qPc[c] = "settled" /\ qVerdict[c] = v})
             tells == Cardinality({c \in Queried :
                        qPc'[c] = "settled" /\ qVerdict'[c] = v})
         IN  /\ told \in Nat
             /\ v = "ok" => tells = told + (qCounted.ok' - qCounted.ok)
             /\ v = "failed" => tells = told + (qCounted.errors' - qCounted.errors)
<1> DEFINE of(P, Q) == Cardinality({c \in Queried : P[c] = "settled" /\ Q[c] = v})
<1>1. PICK P, Q, P1, Q1 : P = qPc /\ Q = qVerdict /\ P1 = qPc' /\ Q1 = qVerdict'
  OBVIOUS
<1>2. qCounted.ok \in Nat /\ qCounted.errors \in Nat
  BY DEF QueryInv, Cqrs!Queries!TypeOK
<1>3. IsFiniteSet({c \in Queried : P[c] = "settled" /\ Q[c] = v})
  BY QueryFacts, FS_Subset
<1>4. of(P, Q) \in Nat
  BY <1>3, FS_CardinalityType
<1>5. /\ v = "ok" => of(P1, Q1) = of(P, Q) + (qCounted.ok' - qCounted.ok)
      /\ v = "failed" => of(P1, Q1) = of(P, Q) + (qCounted.errors' - qCounted.errors)
  <2>1. CASE QueryRegistered
    <3>1. P1 = P /\ Q1 = Q /\ UNCHANGED qCounted
      BY <1>1, <2>1, QueryRegistry DEF Cqrs!Queries!callVars
    <3> HIDE DEF of
    <3> QED
      BY <1>2, <1>4, <3>1
  <2>2. ASSUME NEW c \in Queried, QueryProceeds(c)
        PROVE  <1>5
    <3>1. /\ P[c] # "settled"
          /\ \A d \in Queried \ {c} : P1[d] = P[d] /\ Q1[d] = Q[d]
          /\ \/ P1[c] # "settled" /\ UNCHANGED qCounted
             \/ P1[c] = "settled" /\ Q1[c] = "ok"
                /\ qCounted' = [ok |-> qCounted.ok + 1, errors |-> qCounted.errors]
             \/ P1[c] = "settled" /\ Q1[c] = "failed"
                /\ qCounted' = [ok |-> qCounted.ok, errors |-> qCounted.errors + 1]
      BY <1>1, <2>2, QueryCallMoves
    <3> DEFINE old == {d \in Queried : P[d] = "settled" /\ Q[d] = v}
               new == {d \in Queried : P1[d] = "settled" /\ Q1[d] = v}
    <3>2. c \notin old /\ new \in {old, old \cup {c}}
      BY <3>1
    <3>3. c \in new <=> P1[c] = "settled" /\ Q1[c] = v
      OBVIOUS
    <3>4. /\ old \in SUBSET Queried
          /\ of(P, Q) = Cardinality(old) /\ of(P1, Q1) = Cardinality(new)
      OBVIOUS
    <3> HIDE DEF old, new
    <3>5. Cardinality(new) = Cardinality(old) + (IF c \in new THEN 1 ELSE 0)
      BY <3>2, <3>4, QueryFacts, OneMore
    <3> HIDE DEF of
    <3> QED
      BY <1>2, <1>4, <3>1, <3>3, <3>4, <3>5
  <2> QED
    BY <2>1, <2>2 DEF Cqrs!Queries!Next, QueryRegistered, QueryProceeds
<1> QED
  BY <1>1, <1>4, <1>5

LEMMA QueryKept ==
  ASSUME QueryInv, Cqrs!Queries!Next
  PROVE  /\ QueryInv' /\ qMiddlewares' >= qMiddlewares /\ qDecorated' = qDecorated
         /\ \A t \in QueryTypes :
              qHandlers[t] # 0 =>
                qHandlers'[t] # 0 /\ (qToDiscover # {} => qHandlers'[t] = qHandlers[t])
         /\ \A c \in Queried :
              qReached'[c] # qReached[c] => qReached'[c] = qMiddlewares /\ qHandler[c] # 0
<1>1. CASE QueryRegistered
  BY <1>1, QueryRegistry DEF Cqrs!Queries!callVars
<1>2. ASSUME NEW c \in Queried, QueryProceeds(c)
      PROVE  /\ QueryInv' /\ qMiddlewares' >= qMiddlewares
             /\ UNCHANGED Cqrs!Queries!regVars
             /\ \A d \in Queried :
                  qReached'[d] # qReached[d] => qReached'[d] = qMiddlewares /\ qHandler[d] # 0
  BY <1>2, QueryCall, QueryCallMoves, QueryFacts DEF QueryInv, Cqrs!Queries!TypeOK
<1> QED
  BY <1>1, <1>2 DEF Cqrs!Queries!Next, Cqrs!Queries!regVars, QueryRegistered, QueryProceeds

-----------------------------------------------------------------------------
(* The part of the command bus *)

LEMMA CommandsStart ==
  ASSUME BusesInit
  PROVE  CommandInv /\ Bus!MetricsAddUp
<1> USE CommandFacts
<1>1. Bus!Init
  BY DEF BusesInit
<1>2. CommandInv
  BY <1>1 DEF Bus!Init, CommandInv, Bus!TypeOK, Bus!NotReached
<1>3. \A v \in {"ok", "failed"} : {c \in Commands : at[c] = "settled" /\ verdict[c] = v} = {}
  BY <1>1 DEF Bus!Init
<1>4. Bus!Cardinality({}) = 0
  BY FS_EmptySet, CommandCardinality
<1>5. counted.ok = 0 /\ counted.errors = 0
  BY <1>1 DEF Bus!Init
<1> QED
  BY <1>2, <1>3, <1>4, <1>5 DEF Bus!MetricsAddUp

LEMMA CommandsStep ==
  ASSUME CommandInv, Bus!MetricsAddUp, Bus!Next
  PROVE  CommandInv' /\ Bus!MetricsAddUp'
<1> DEFINE told(v)  == Cardinality({c \in Commands : at[c] = "settled" /\ verdict[c] = v})
           tells(v) == Cardinality({c \in Commands : at'[c] = "settled" /\ verdict'[c] = v})
<1>1. CommandInv'
  BY CommandKept
<1>2. counted.ok = told("ok") /\ counted.errors = told("failed")
  BY CommandCardinality DEF Bus!MetricsAddUp
<1>3. /\ told("ok") \in Nat /\ told("failed") \in Nat
      /\ tells("ok") = told("ok") + (counted.ok' - counted.ok)
      /\ tells("failed") = told("failed") + (counted.errors' - counted.errors)
  BY CommandTally
<1>4. counted.ok' \in Nat /\ counted.errors' \in Nat
  BY <1>1 DEF CommandInv, Bus!TypeOK
<1>5. counted.ok' = tells("ok") /\ counted.errors' = tells("failed")
  <2> HIDE DEF told, tells
  <2> QED
    BY <1>2, <1>3, <1>4
<1>6. Bus!MetricsAddUp'
  BY <1>5, CommandCardinality DEF Bus!MetricsAddUp
<1> QED
  BY <1>1, <1>6

(* The command bus: no handler runs before every middleware was entered,   *)
(* only register replaces a handler, a discovery that comes to its end is  *)
(* complete, and the metrics are what the callers were told                *)
(* (command-bus.ts, enhanced-command-bus.ts).                              *)
THEOREM CommandsGoThrough == BusesSpec => CommandsThroughMiddlewares
<1> DEFINE Inv == CommandInv /\ Bus!MetricsAddUp
<1>1. BusesInit => Inv
  BY CommandsStart
<1>2. Inv /\ [BusesNext]_buses => Inv' /\ (Bus!Next \/ UNCHANGED Bus!vars)
  <2> SUFFICES ASSUME Inv, [BusesNext]_buses
               PROVE  Inv' /\ (Bus!Next \/ UNCHANGED Bus!vars)
    OBVIOUS
  <2>1. CASE Bus!Next
    BY <2>1, CommandsStep
  <2>2. CASE UNCHANGED commanded
    <3>1. UNCHANGED Bus!vars
      BY <2>2 DEF commanded, Bus!vars, Bus!regVars, Bus!callVars
    <3> QED
      BY <2>2, <3>1 DEF commanded, CommandInv, Bus!TypeOK, Bus!MetricsAddUp
  <2> QED
    BY <2>1, <2>2 DEF BusesNext, buses
<1>3. Inv => Bus!TypeOK /\ Bus!MetricsAddUp
  BY DEF CommandInv
<1>4. Inv /\ Bus!Next =>
        /\ \A c \in Commands :
             reached'[c] # reached[c] => reached'[c] = middlewares /\ handler[c] # 0
        /\ \A t \in CommandTypes : chosen[t] # 0 /\ chosen'[t] # chosen[t] => ~Bus!Running
        /\ Bus!Running /\ toDiscover' = {} /\ (\A t \in toDiscover : chosen'[t] # 0)
             => \A t \in decorated : chosen'[t] # 0
  BY CommandKept DEF CommandInv, Bus!TypeOK, Bus!Running
<1> QED
  BY <1>1, <1>2, <1>3, <1>4, PTL
     DEF BusesSpec, CommandsThroughMiddlewares, Bus!HandlerAfterMiddlewares,
         Bus!OnlyRegisterReplaces, Bus!DiscoveryCompletes

-----------------------------------------------------------------------------
(* The part of the configuration *)

(* Until the configuration is ready its buses have seen no call.           *)
NoCallsYet ==
  /\ \A c \in ConfiguredCommands :
       /\ cPc[c] = "ready" /\ cHandler[c] = 0 /\ cIndex[c] = 0 /\ cDepth[c] = 0
       /\ cReached[c] = Cqrs!NotReached
  /\ \A c \in Queried :
       /\ qPc[c] = "ready" /\ qHandler[c] = 0 /\ qIndex[c] = 0 /\ qDepth[c] = 0
       /\ qReached[c] = Cqrs!Queries!NotReached

LeftOfCommands == {t \in cDecorated : cHandlers[t] = 0}
LeftOfQueries  == {t \in qDecorated : qHandlers[t] = 0}

(* What the constructor has found where it is: of the decorated types with *)
(* no handler none is passed over.                                         *)
FoundSoFar ==
  /\ phase \in {"none", "using"} => cToDiscover = {} /\ qToDiscover = {}
  /\ phase \in {"using", "commands", "queries"} =>
       toFind = [commands |-> cDecorated, queries |-> qDecorated]
  /\ phase = "commands" => LeftOfCommands \subseteq cToDiscover /\ qToDiscover = {}
  /\ phase = "queries" =>
       LeftOfCommands = {} /\ cToDiscover = {} /\ LeftOfQueries \subseteq qToDiscover

(* Both buses have the middlewares given so far.                           *)
BothHaveThem ==
  LET least(enhanced) == used + (IF enhanced THEN 1 ELSE 0)
  IN  cMiddlewares >= least(options.commands) /\ qMiddlewares >= least(options.queries)

ConfigurationTypes ==
  /\ ConfiguredInv /\ QueryInv
  /\ phase \in {"none", "using", "commands", "queries", "ready"}
  /\ options \in [commands : BOOLEAN, queries : BOOLEAN, auto : BOOLEAN]
  /\ used \in 0 .. Given
  /\ toFind \in [commands : SUBSET ConfiguredTypes, queries : SUBSET QueryTypes]
  /\ forgotten \in [ok : Nat, errors : Nat]

ConfigurationInv ==
  /\ ConfigurationTypes
  /\ phase # "ready" => NoCallsYet
  /\ FoundSoFar /\ BothHaveThem
  /\ Cqrs!ConfiguredAlike /\ Cqrs!AllDiscovered /\ Cqrs!QueriesAddUp

LEMMA ConfigurationStart ==
  ASSUME BusesInit
  PROVE  ConfigurationInv
<1> USE ConfiguredFacts, QueryFacts, CommandsAssumption DEF Cqrs!CqrsAssumption
<1>1. Cqrs!CqrsInit
  BY DEF BusesInit
<1>2. ConfiguredInv
  BY <1>1 DEF Cqrs!CqrsInit, Cqrs!Init, ConfiguredInv, Cqrs!TypeOK, Cqrs!NotReached
<1>3. QueryInv
  BY <1>1 DEF Cqrs!CqrsInit, Cqrs!Queries!Init, QueryInv, Cqrs!Queries!TypeOK,
              Cqrs!Queries!NotReached
<1>4. ConfigurationTypes
  BY <1>1, <1>2, <1>3 DEF ConfigurationTypes, Cqrs!CqrsInit
<1>5. NoCallsYet /\ FoundSoFar /\ BothHaveThem
  BY <1>1 DEF Cqrs!CqrsInit, Cqrs!Init, Cqrs!Queries!Init, NoCallsYet, FoundSoFar,
              BothHaveThem
<1>6. Cqrs!ConfiguredAlike /\ Cqrs!AllDiscovered
  BY <1>1, <1>5 DEF Cqrs!CqrsInit, NoCallsYet, Cqrs!ConfiguredAlike, Cqrs!AllDiscovered
<1>7. Cqrs!QueriesAddUp
  <2>1. \A v \in {"ok", "failed"} : {c \in Queried : qPc[c] = "settled" /\ qVerdict[c] = v} = {}
    BY <1>5 DEF NoCallsYet
  <2>2. Cqrs!Cardinality({}) = 0
    BY FS_EmptySet, ConfiguredCardinality
  <2>3. /\ qCounted.ok = 0 /\ qCounted.errors = 0
        /\ forgotten.ok = 0 /\ forgotten.errors = 0
    BY <1>1 DEF Cqrs!CqrsInit, Cqrs!Queries!Init
  <2> QED
    BY <2>1, <2>2, <2>3 DEF Cqrs!QueriesAddUp
<1> QED
  BY <1>4, <1>5, <1>6, <1>7 DEF ConfigurationInv

(* A step that leaves the calls, their counts and the registry of both     *)
(* buses alone leaves what was said of them.                               *)
LEMMA QueriesStayCounted ==
  ASSUME Cqrs!QueriesAddUp, UNCHANGED <<qPc, qVerdict, qCounted, forgotten>>
  PROVE  Cqrs!QueriesAddUp'
BY DEF Cqrs!QueriesAddUp

LEMMA Constructs ==
  ASSUME ConfigurationInv,
         \E ofCommands, ofQueries, auto \in BOOLEAN :
           Cqrs!Construct(ofCommands, ofQueries, auto)
  PROVE  ConfigurationInv'
<1> USE ConfiguredFacts, QueryFacts, CommandsAssumption
    DEF Cqrs!CqrsAssumption, ConfigurationInv, ConfigurationTypes,
        Cqrs!Construct, Cqrs!callVars, Cqrs!qCalls
<1>1. /\ phase = "none" /\ phase' = "using" /\ NoCallsYet /\ FoundSoFar
      /\ UNCHANGED <<cManual, cDecorated, cToDiscover, cPc, cHandler, cIndex, cDepth,
                     cNexts, cReached, cVerdict, cCounted, qManual, qDecorated,
                     qToDiscover, qPc, qHandler, qIndex, qDepth, qNexts, qReached,
                     qVerdict, qCounted, forgotten>>
  OBVIOUS
<1>2. NoCallsYet'
  BY <1>1 DEF NoCallsYet, Cqrs!NotReached, Cqrs!Queries!NotReached
<1>3. /\ {cMiddlewares', qMiddlewares'} \subseteq 0 .. MaxMiddlewares
      /\ cHandlers' = [t \in ConfiguredTypes |-> 0] /\ cMade' = 0
      /\ qHandlers' = [t \in QueryTypes |-> 0] /\ qMade' = 0
  OBVIOUS
<1>4. ConfiguredInv'
  BY <1>1, <1>3 DEF ConfiguredInv, Cqrs!TypeOK, NoCallsYet, FoundSoFar, Cqrs!NotReached
<1>5. QueryInv'
  BY <1>1, <1>3 DEF QueryInv, Cqrs!Queries!TypeOK, NoCallsYet, FoundSoFar,
                    Cqrs!Queries!NotReached
<1>6. ConfigurationTypes'
  BY <1>1, <1>4, <1>5 DEF ConfiguredInv, QueryInv, Cqrs!TypeOK, Cqrs!Queries!TypeOK
<1>7. FoundSoFar' /\ BothHaveThem'
  BY <1>1 DEF FoundSoFar, BothHaveThem
<1>8. Cqrs!ConfiguredAlike' /\ Cqrs!AllDiscovered'
  BY <1>1, <1>2 DEF NoCallsYet, Cqrs!ConfiguredAlike, Cqrs!AllDiscovered
<1>9. Cqrs!QueriesAddUp'
  BY <1>1, QueriesStayCounted
<1> QED
  BY <1>2, <1>6, <1>7, <1>8, <1>9

LEMMA UsesForBoth ==
  ASSUME ConfigurationInv, Cqrs!UseForBoth
  PROVE  ConfigurationInv'
<1> USE DEF ConfigurationInv, ConfigurationTypes, Cqrs!UseForBoth
<1>1. /\ ConfiguredInv' /\ QueryInv' /\ phase = "using"
      /\ UNCHANGED <<phase, options, toFind, forgotten, Cqrs!regVars, Cqrs!callVars,
                     Cqrs!Queries!regVars, Cqrs!Queries!callVars, qCounted>>
      /\ cMiddlewares' = cMiddlewares + 1 /\ qMiddlewares' = qMiddlewares + 1
      /\ used' = used + 1 /\ used < Given
  BY ConfiguredRegistry, QueryRegistry
  DEF ConfiguredRegistered, QueryRegistered, Cqrs!Use, Cqrs!Queries!Use
<1>2. ConfigurationTypes'
  BY <1>1, CommandsAssumption DEF Cqrs!CqrsAssumption
<1>3. NoCallsYet'
  BY <1>1 DEF NoCallsYet, Cqrs!callVars, Cqrs!Queries!callVars, Cqrs!NotReached,
              Cqrs!Queries!NotReached
<1>4. FoundSoFar'
  BY <1>1 DEF FoundSoFar, LeftOfCommands, LeftOfQueries, Cqrs!regVars,
              Cqrs!Queries!regVars
<1>5. BothHaveThem'
  <2>1. cMiddlewares \in Nat /\ qMiddlewares \in Nat /\ Given \in Nat
    BY CommandsAssumption
       DEF Cqrs!CqrsAssumption, ConfiguredInv, QueryInv, Cqrs!TypeOK,
           Cqrs!Queries!TypeOK
  <2> QED
    BY <1>1, <2>1 DEF BothHaveThem
<1>6. Cqrs!ConfiguredAlike' /\ Cqrs!AllDiscovered'
  BY <1>1, <1>3 DEF NoCallsYet, Cqrs!ConfiguredAlike, Cqrs!AllDiscovered
<1>7. Cqrs!QueriesAddUp'
  BY <1>1, QueriesStayCounted DEF Cqrs!Queries!callVars
<1> QED
  BY <1>2, <1>3, <1>4, <1>5, <1>6, <1>7

(* A step of the discovery touches no call and no middleware.              *)
LEMMA DiscoveryTouchesNoCall ==
  ASSUME ConfigurationInv, phase # "ready",
         UNCHANGED <<options, used, toFind, forgotten, cMiddlewares, qMiddlewares,
                     Cqrs!callVars, Cqrs!Queries!callVars, qCounted>>,
         ConfiguredInv', QueryInv',
         phase' \in {"none", "using", "commands", "queries", "ready"}, FoundSoFar',
         phase' = "ready" /\ options.auto =>
           /\ LeftOfCommands = {} /\ LeftOfQueries = {}
           /\ UNCHANGED <<cHandlers, qHandlers>>
           /\ toFind = [commands |-> cDecorated, queries |-> qDecorated]
  PROVE  ConfigurationInv'
<1> USE DEF ConfigurationInv
<1>1. ConfigurationTypes'
  BY DEF ConfigurationTypes
<1>2. NoCallsYet'
  BY DEF NoCallsYet, Cqrs!callVars, Cqrs!Queries!callVars, Cqrs!NotReached,
         Cqrs!Queries!NotReached
<1>3. BothHaveThem'
  BY DEF BothHaveThem
<1>4. Cqrs!ConfiguredAlike'
  BY <1>2 DEF NoCallsYet, Cqrs!ConfiguredAlike
<1>5. Cqrs!AllDiscovered'
  BY DEF Cqrs!AllDiscovered, LeftOfCommands, LeftOfQueries
<1>6. Cqrs!QueriesAddUp'
  BY QueriesStayCounted DEF Cqrs!Queries!callVars
<1> QED
  BY <1>1, <1>2, <1>3, <1>4, <1>5, <1>6

LEMMA DiscoveryStarts ==
  ASSUME ConfigurationInv, Cqrs!StartDiscovery
  PROVE  ConfigurationInv'
<1> USE DEF ConfigurationInv, ConfigurationTypes, Cqrs!StartDiscovery, Cqrs!Enter
<1>1. /\ phase = "using" /\ UNCHANGED <<options, used, toFind, forgotten>>
      /\ phase' = IF options.auto THEN "commands" ELSE "ready"
      /\ UNCHANGED <<qHandlers, qManual, qDecorated, qMade, qToDiscover, qMiddlewares,
                     qPc, qHandler, qIndex, qDepth, qNexts, qReached, qVerdict, qCounted>>
  BY DEF Cqrs!queries, Cqrs!qCalls
<1>2. QueryInv'
  BY <1>1 DEF QueryInv, Cqrs!Queries!TypeOK
<1>3. CASE options.auto /\ cDecorated # {}
  <2>1. Cqrs!DiscoverHandlers
    BY <1>3
  <2>2. ConfiguredInv' /\ UNCHANGED Cqrs!callVars
    BY <2>1, ConfiguredRegistry DEF ConfiguredRegistered
  <2>3. /\ cToDiscover' = cDecorated
        /\ UNCHANGED <<cHandlers, cDecorated, cMiddlewares>>
    BY <2>1 DEF Cqrs!DiscoverHandlers
  <2>4. FoundSoFar'
    BY <1>1, <1>3, <2>3 DEF FoundSoFar, LeftOfCommands
  <2> QED
    BY <1>1, <1>2, <1>3, <2>2, <2>3, <2>4, DiscoveryTouchesNoCall DEF Cqrs!Queries!callVars
<1>4. CASE ~(options.auto /\ cDecorated # {})
  <2>1. UNCHANGED <<cHandlers, cManual, cDecorated, cMade, cToDiscover, cMiddlewares,
                    cPc, cHandler, cIndex, cDepth, cNexts, cReached, cVerdict, cCounted>>
    BY <1>4 DEF Cqrs!commands, Cqrs!vars, Cqrs!regVars, Cqrs!callVars
  <2>2. ConfiguredInv'
    BY <2>1 DEF ConfiguredInv, Cqrs!TypeOK
  <2>3. FoundSoFar'
    BY <1>1, <1>4, <2>1 DEF FoundSoFar, LeftOfCommands
  <2> QED
    BY <1>1, <1>2, <1>4, <2>1, <2>2, <2>3, DiscoveryTouchesNoCall
       DEF Cqrs!Queries!callVars, Cqrs!callVars
<1> QED
  BY <1>3, <1>4

LEMMA DiscoversCommands ==
  ASSUME ConfigurationInv, Cqrs!DiscoverCommands
  PROVE  ConfigurationInv'
<1> USE DEF ConfigurationInv, ConfigurationTypes, Cqrs!Enter
<1>1. phase = "commands"
  BY DEF Cqrs!DiscoverCommands
<1>2. ASSUME NEW t \in ConfiguredTypes, UNCHANGED Cqrs!queries,
             \/ Cqrs!Discover(t) /\ Cqrs!Enter("commands")
             \/ Cqrs!DiscoverThrows(t) /\ Cqrs!Enter("none")
      PROVE  ConfigurationInv'
  <2>1. /\ ConfiguredInv' /\ UNCHANGED <<cDecorated, Cqrs!callVars>>
        /\ \A u \in ConfiguredTypes : cHandlers[u] # 0 => cHandlers'[u] # 0
    BY <1>2, ConfiguredRegistry DEF ConfiguredRegistered
  <2>2. UNCHANGED <<qHandlers, qManual, qDecorated, qMade, qToDiscover, qMiddlewares,
                    qPc, qHandler, qIndex, qDepth, qNexts, qReached, qVerdict, qCounted,
                    options, used, toFind, forgotten, cMiddlewares>>
    BY <1>2 DEF Cqrs!queries, Cqrs!qCalls, Cqrs!Discover, Cqrs!DiscoverThrows
  <2>3. QueryInv'
    BY <2>2 DEF QueryInv, Cqrs!Queries!TypeOK
  <2>4. FoundSoFar'
    <3>1. CASE Cqrs!Discover(t) /\ Cqrs!Enter("commands")
      <4>1. cToDiscover' = cToDiscover \ {t} /\ cHandlers'[t] # 0
        BY <3>1, CommandsAssumption DEF Cqrs!Discover, ConfiguredInv, Cqrs!TypeOK
      <4>2. LeftOfCommands' \subseteq cToDiscover'
        BY <1>1, <2>1, <4>1 DEF FoundSoFar, LeftOfCommands, ConfiguredInv, Cqrs!TypeOK
      <4> QED
        BY <1>1, <2>1, <2>2, <3>1, <4>2 DEF FoundSoFar
    <3>2. CASE Cqrs!DiscoverThrows(t) /\ Cqrs!Enter("none")
      BY <1>1, <2>2, <3>2 DEF FoundSoFar, Cqrs!DiscoverThrows
    <3> QED
      BY <1>2, <3>1, <3>2
  <2> QED
    BY <1>1, <1>2, <2>1, <2>2, <2>3, <2>4, DiscoveryTouchesNoCall
       DEF Cqrs!Queries!callVars
<1>3. CASE /\ ~Cqrs!Running /\ Cqrs!Enter("queries") /\ UNCHANGED Cqrs!commands
           /\ IF qDecorated # {} THEN Cqrs!Queries!DiscoverHandlers
              ELSE UNCHANGED Cqrs!queries
  <2>1. /\ UNCHANGED <<cHandlers, cManual, cDecorated, cMade, cToDiscover, cMiddlewares,
                       cPc, cHandler, cIndex, cDepth, cNexts, cReached, cVerdict,
                       cCounted>>
        /\ UNCHANGED <<options, used, toFind, forgotten>> /\ cToDiscover = {}
    BY <1>3 DEF Cqrs!commands, Cqrs!vars, Cqrs!regVars, Cqrs!callVars, Cqrs!Running
  <2>2. ConfiguredInv'
    BY <2>1 DEF ConfiguredInv, Cqrs!TypeOK
  <2>3. /\ QueryInv'
        /\ UNCHANGED <<qHandlers, qDecorated, qMiddlewares, Cqrs!Queries!callVars,
                       qCounted>>
        /\ LeftOfQueries \subseteq qToDiscover'
    <3>1. CASE qDecorated # {}
      <4>1. Cqrs!Queries!DiscoverHandlers
        BY <1>3, <3>1
      <4> QED
        BY <4>1, QueryRegistry DEF QueryRegistered, Cqrs!Queries!DiscoverHandlers, LeftOfQueries
    <3>2. CASE qDecorated = {}
      BY <1>3, <3>2
         DEF Cqrs!queries, Cqrs!qCalls, Cqrs!Queries!callVars, QueryInv,
             Cqrs!Queries!TypeOK, LeftOfQueries
    <3> QED
      BY <3>1, <3>2
  <2>4. FoundSoFar'
    BY <1>1, <1>3, <2>1, <2>3 DEF FoundSoFar, LeftOfCommands, LeftOfQueries
  <2> QED
    BY <1>1, <1>3, <2>1, <2>2, <2>3, <2>4, DiscoveryTouchesNoCall DEF Cqrs!callVars
<1> QED
  BY <1>2, <1>3 DEF Cqrs!DiscoverCommands

LEMMA DiscoversQueries ==
  ASSUME ConfigurationInv, Cqrs!DiscoverQueries
  PROVE  ConfigurationInv'
<1> USE DEF ConfigurationInv, ConfigurationTypes, Cqrs!Enter
<1>1. /\ phase = "queries"
      /\ UNCHANGED <<cHandlers, cManual, cDecorated, cMade, cToDiscover, cMiddlewares,
                     cPc, cHandler, cIndex, cDepth, cNexts, cReached, cVerdict, cCounted>>
  BY DEF Cqrs!DiscoverQueries, Cqrs!commands, Cqrs!vars, Cqrs!regVars, Cqrs!callVars
<1>2. ConfiguredInv' /\ UNCHANGED Cqrs!callVars
  BY <1>1 DEF ConfiguredInv, Cqrs!TypeOK, Cqrs!callVars
<1>3. ASSUME NEW t \in QueryTypes,
             \/ Cqrs!Queries!Discover(t) /\ Cqrs!Enter("queries")
             \/ Cqrs!Queries!DiscoverThrows(t) /\ Cqrs!Enter("none")
      PROVE  ConfigurationInv'
  <2>1. /\ QueryInv' /\ UNCHANGED <<qDecorated, Cqrs!Queries!callVars, qCounted>>
        /\ \A u \in QueryTypes : qHandlers[u] # 0 => qHandlers'[u] # 0
    BY <1>3, QueryRegistry DEF QueryRegistered
  <2>2. UNCHANGED <<options, used, toFind, forgotten, qMiddlewares>>
    BY <1>3 DEF Cqrs!Queries!Discover, Cqrs!Queries!DiscoverThrows
  <2>3. FoundSoFar'
    <3>1. CASE Cqrs!Queries!Discover(t) /\ Cqrs!Enter("queries")
      <4>1. qToDiscover' = qToDiscover \ {t} /\ qHandlers'[t] # 0
        BY <3>1 DEF Cqrs!Queries!Discover, QueryInv, Cqrs!Queries!TypeOK
      <4>2. LeftOfQueries' \subseteq qToDiscover'
        BY <1>1, <2>1, <4>1 DEF FoundSoFar, LeftOfQueries, QueryInv, Cqrs!Queries!TypeOK
      <4> QED
        BY <1>1, <2>1, <2>2, <3>1, <4>2 DEF FoundSoFar, LeftOfCommands
    <3>2. CASE Cqrs!Queries!DiscoverThrows(t) /\ Cqrs!Enter("none")
      BY <1>1, <2>2, <3>2 DEF FoundSoFar, Cqrs!Queries!DiscoverThrows
    <3> QED
      BY <1>3, <3>1, <3>2
  <2> QED
    BY <1>1, <1>2, <1>3, <2>1, <2>2, <2>3, DiscoveryTouchesNoCall
<1>4. CASE ~Cqrs!Queries!Running /\ Cqrs!Enter("ready") /\ UNCHANGED Cqrs!queries
  <2>1. /\ UNCHANGED <<qHandlers, qManual, qDecorated, qMade, qToDiscover, qMiddlewares,
                       qPc, qHandler, qIndex, qDepth, qNexts, qReached, qVerdict,
                       qCounted>>
        /\ UNCHANGED <<options, used, toFind, forgotten>> /\ qToDiscover = {}
    BY <1>4 DEF Cqrs!queries, Cqrs!qCalls, Cqrs!Queries!Running
  <2>2. QueryInv' /\ UNCHANGED Cqrs!Queries!callVars
    BY <2>1 DEF QueryInv, Cqrs!Queries!TypeOK, Cqrs!Queries!callVars
  <2>3. FoundSoFar'
    BY <1>1, <1>4, <2>1 DEF FoundSoFar
  <2>4. LeftOfCommands = {} /\ LeftOfQueries = {}
    BY <1>1, <2>1 DEF FoundSoFar
  <2> QED
    BY <1>1, <1>2, <1>4, <2>1, <2>2, <2>3, <2>4, DiscoveryTouchesNoCall DEF FoundSoFar
<1> QED
  BY <1>3, <1>4 DEF Cqrs!DiscoverQueries

LEMMA Decorates ==
  ASSUME ConfigurationInv, NEW ofCommands \in SUBSET ConfiguredTypes,
         NEW ofQueries \in SUBSET QueryTypes, Cqrs!SetDecorated(ofCommands, ofQueries)
  PROVE  ConfigurationInv'
<1> USE DEF ConfigurationInv, ConfigurationTypes
<1>1. /\ phase \in {"none", "ready"} /\ cToDiscover = {} /\ qToDiscover = {}
      /\ cDecorated' = ofCommands /\ qDecorated' = ofQueries
      /\ UNCHANGED <<cHandlers, cManual, cMade, cToDiscover, cMiddlewares, cPc, cHandler,
                     cIndex, cDepth, cNexts, cReached, cVerdict, cCounted, qHandlers,
                     qManual, qMade, qToDiscover, qMiddlewares, qPc, qHandler, qIndex,
                     qDepth, qNexts, qReached, qVerdict, qCounted, phase, options, used,
                     toFind, forgotten>>
  BY DEF Cqrs!SetDecorated, Cqrs!Free, Cqrs!Running, Cqrs!Queries!Running,
         Cqrs!callVars, Cqrs!qCalls, Cqrs!configuration
<1>2. ConfiguredInv' /\ QueryInv'
  BY <1>1 DEF ConfiguredInv, QueryInv, Cqrs!TypeOK, Cqrs!Queries!TypeOK
<1>3. ConfigurationTypes' /\ FoundSoFar' /\ BothHaveThem'
  BY <1>1, <1>2 DEF FoundSoFar, BothHaveThem
<1>4. phase' # "ready" => NoCallsYet'
  BY <1>1 DEF NoCallsYet, Cqrs!NotReached, Cqrs!Queries!NotReached
<1>5. Cqrs!ConfiguredAlike' /\ Cqrs!AllDiscovered' /\ Cqrs!QueriesAddUp'
  BY <1>1, QueriesStayCounted
     DEF Cqrs!ConfiguredAlike, Cqrs!AllDiscovered, Cqrs!NotReached, Cqrs!Queries!NotReached
<1> QED
  BY <1>3, <1>4, <1>5

LEMMA CommandSteps ==
  ASSUME ConfigurationInv, Cqrs!CommandStep
  PROVE  ConfigurationInv'
<1> USE DEF ConfigurationInv, ConfigurationTypes
<1>1. /\ phase = "ready" /\ Cqrs!Next
      /\ UNCHANGED <<qHandlers, qManual, qDecorated, qMade, qToDiscover, qMiddlewares,
                     qPc, qHandler, qIndex, qDepth, qNexts, qReached, qVerdict, qCounted,
                     phase, options, used, toFind, forgotten>>
  BY DEF Cqrs!CommandStep, Cqrs!queries, Cqrs!qCalls, Cqrs!configuration
<1>2. QueryInv'
  BY <1>1 DEF QueryInv, Cqrs!Queries!TypeOK
<1>3. /\ ConfiguredInv'
      /\ \A t \in ConfiguredTypes : cHandlers[t] # 0 => cHandlers'[t] # 0
      /\ \A c \in ConfiguredCommands : cReached'[c] # cReached[c] => cReached'[c] = cMiddlewares
      /\ cMiddlewares' >= cMiddlewares
  BY <1>1, ConfiguredKept
<1>4. ConfigurationTypes' /\ FoundSoFar'
  BY <1>1, <1>2, <1>3 DEF FoundSoFar
<1>5. BothHaveThem' /\ Cqrs!ConfiguredAlike'
  <2>1. cMiddlewares \in Nat /\ cMiddlewares' \in Nat /\ used \in Nat
    BY <1>3, CommandsAssumption DEF Cqrs!CqrsAssumption, ConfiguredInv, Cqrs!TypeOK
  <2> QED
    BY <1>1, <1>3, <2>1 DEF BothHaveThem, Cqrs!ConfiguredAlike, Cqrs!NotReached,
                            Cqrs!Queries!NotReached
<1>6. Cqrs!AllDiscovered' /\ Cqrs!QueriesAddUp'
  BY <1>1, <1>3, QueriesStayCounted DEF Cqrs!AllDiscovered
<1> QED
  BY <1>1, <1>4, <1>5, <1>6

LEMMA QuerySteps ==
  ASSUME ConfigurationInv, Cqrs!QueryStep
  PROVE  ConfigurationInv'
<1> USE DEF ConfigurationInv, ConfigurationTypes
<1>1. /\ phase = "ready" /\ Cqrs!Queries!Next
      /\ UNCHANGED <<cHandlers, cManual, cDecorated, cMade, cToDiscover, cMiddlewares,
                     cPc, cHandler, cIndex, cDepth, cNexts, cReached, cVerdict, cCounted,
                     phase, options, used, toFind, forgotten>>
  BY DEF Cqrs!QueryStep, Cqrs!commands, Cqrs!vars, Cqrs!regVars, Cqrs!callVars,
         Cqrs!configuration
<1>2. ConfiguredInv'
  BY <1>1 DEF ConfiguredInv, Cqrs!TypeOK
<1>3. /\ QueryInv'
      /\ \A t \in QueryTypes : qHandlers[t] # 0 => qHandlers'[t] # 0
      /\ \A c \in Queried : qReached'[c] # qReached[c] => qReached'[c] = qMiddlewares
      /\ qMiddlewares' >= qMiddlewares
  BY <1>1, QueryKept
<1>4. ConfigurationTypes' /\ FoundSoFar'
  BY <1>1, <1>2, <1>3 DEF FoundSoFar
<1>5. BothHaveThem' /\ Cqrs!ConfiguredAlike'
  <2>1. qMiddlewares \in Nat /\ qMiddlewares' \in Nat /\ used \in Nat
    BY <1>3, CommandsAssumption DEF Cqrs!CqrsAssumption, QueryInv, Cqrs!Queries!TypeOK
  <2> QED
    BY <1>1, <1>3, <2>1 DEF BothHaveThem, Cqrs!ConfiguredAlike, Cqrs!NotReached,
                            Cqrs!Queries!NotReached
<1>6. Cqrs!AllDiscovered'
  BY <1>1, <1>3 DEF Cqrs!AllDiscovered
<1>7. Cqrs!QueriesAddUp'
  <2> DEFINE told(v)  == Cardinality({c \in Queried : qPc[c] = "settled" /\ qVerdict[c] = v})
             tells(v) == Cardinality({c \in Queried : qPc'[c] = "settled" /\ qVerdict'[c] = v})
  <2>1. /\ qCounted.ok + forgotten.ok = told("ok")
        /\ qCounted.errors + forgotten.errors = told("failed")
    BY ConfiguredCardinality DEF Cqrs!QueriesAddUp
  <2>2. /\ tells("ok") = told("ok") + (qCounted.ok' - qCounted.ok)
        /\ tells("failed") = told("failed") + (qCounted.errors' - qCounted.errors)
    BY <1>1, QueryTally
  <2>3. /\ qCounted.ok \in Nat /\ qCounted.errors \in Nat
        /\ qCounted'.ok \in Nat /\ qCounted'.errors \in Nat
        /\ forgotten.ok \in Nat /\ forgotten.errors \in Nat
    BY <1>3 DEF QueryInv, Cqrs!Queries!TypeOK
  <2>4. /\ qCounted'.ok + forgotten.ok = tells("ok")
        /\ qCounted'.errors + forgotten.errors = tells("failed")
    <3> HIDE DEF told, tells
    <3> QED
      BY <2>1, <2>2, <2>3
  <2> QED
    BY <1>1, <2>4, ConfiguredCardinality DEF Cqrs!QueriesAddUp
<1> QED
  BY <1>1, <1>4, <1>5, <1>6, <1>7

LEMMA MetricsAreReset ==
  ASSUME ConfigurationInv, Cqrs!ResetMetrics
  PROVE  ConfigurationInv'
<1> USE DEF ConfigurationInv, ConfigurationTypes
<1>1. UNCHANGED <<cHandlers, cManual, cDecorated, cMade, cToDiscover, cMiddlewares, cPc,
                  cHandler, cIndex, cDepth, cNexts, cReached, cVerdict, cCounted,
                  qHandlers, qManual, qDecorated, qMade, qToDiscover, qMiddlewares, qPc,
                  qHandler, qIndex, qDepth, qNexts, qReached, qVerdict, phase, options,
                  used, toFind>>
  BY DEF Cqrs!ResetMetrics, Cqrs!commands, Cqrs!vars, Cqrs!regVars, Cqrs!callVars,
         Cqrs!qCalls, Cqrs!configuration
<1>2. /\ qCounted.ok \in Nat /\ qCounted.errors \in Nat
      /\ forgotten.ok \in Nat /\ forgotten.errors \in Nat
  BY DEF QueryInv, Cqrs!Queries!TypeOK
<1>3. /\ qCounted' = [ok |-> 0, errors |-> 0]
      /\ forgotten' = [ok |-> forgotten.ok + qCounted.ok,
                       errors |-> forgotten.errors + qCounted.errors]
  BY DEF Cqrs!ResetMetrics
<1>4. ConfiguredInv' /\ QueryInv'
  BY <1>1, <1>3 DEF ConfiguredInv, QueryInv, Cqrs!TypeOK, Cqrs!Queries!TypeOK
<1>5. ConfigurationTypes' /\ FoundSoFar' /\ BothHaveThem'
  BY <1>1, <1>2, <1>3, <1>4
     DEF FoundSoFar, LeftOfCommands, LeftOfQueries, BothHaveThem
<1>6. phase' # "ready" => NoCallsYet'
  BY <1>1 DEF NoCallsYet, Cqrs!NotReached, Cqrs!Queries!NotReached
<1>7. Cqrs!ConfiguredAlike' /\ Cqrs!AllDiscovered'
  BY <1>1 DEF Cqrs!ConfiguredAlike, Cqrs!AllDiscovered, Cqrs!NotReached,
              Cqrs!Queries!NotReached
<1>8. Cqrs!QueriesAddUp'
  BY <1>1, <1>2, <1>3 DEF Cqrs!QueriesAddUp
<1> QED
  BY <1>5, <1>6, <1>7, <1>8

LEMMA ConfigurationStep ==
  ASSUME ConfigurationInv, Cqrs!CqrsNext
  PROVE  ConfigurationInv'
<1>1. cDecorated \in SUBSET ConfiguredTypes /\ qDecorated \in SUBSET QueryTypes
  BY DEF ConfigurationInv, ConfigurationTypes, ConfiguredInv, QueryInv, Cqrs!TypeOK,
         Cqrs!Queries!TypeOK
<1>2. ASSUME \/ \E t \in ConfiguredTypes : Cqrs!SetDecorated(cDecorated \cup {t}, qDecorated)
             \/ \E t \in QueryTypes : Cqrs!SetDecorated(cDecorated, qDecorated \cup {t})
             \/ Cqrs!SetDecorated({}, {})
      PROVE  ConfigurationInv'
  <2>1. PICK ofCommands \in SUBSET ConfiguredTypes, ofQueries \in SUBSET QueryTypes :
               Cqrs!SetDecorated(ofCommands, ofQueries)
    BY <1>1, <1>2
  <2> QED
    BY <2>1, Decorates
<1> QED
  BY <1>2, Constructs, UsesForBoth, DiscoveryStarts, DiscoversCommands, DiscoversQueries,
     CommandSteps, QuerySteps, MetricsAreReset DEF Cqrs!CqrsNext

(* Commands and queries under one configuration, made at once or again     *)
(* after a failure: each goes through every middleware of the options,     *)
(* everything decorated before has its handler, and what queries came to   *)
(* is counted over a reset (cqrs-configuration.ts, cqrs-module.ts).        *)
THEOREM ConfigurationIsMade == BusesSpec => []ConfigurationHolds
<1>1. BusesInit => ConfigurationInv
  BY ConfigurationStart
<1>2. ConfigurationInv /\ [BusesNext]_buses => ConfigurationInv'
  <2> SUFFICES ASSUME ConfigurationInv, [BusesNext]_buses
               PROVE  ConfigurationInv'
    OBVIOUS
  <2>1. CASE Cqrs!CqrsNext
    BY <2>1, ConfigurationStep
  <2>2. CASE UNCHANGED configured
    <3>1. UNCHANGED <<phase, options, used, toFind,
                      forgotten>> /\ NoCallsYet' = NoCallsYet
      BY <2>2 DEF configured, NoCallsYet, Cqrs!NotReached, Cqrs!Queries!NotReached
    <3>2. ConfiguredInv' /\ QueryInv'
      BY <2>2 DEF configured, ConfigurationInv, ConfigurationTypes, ConfiguredInv, QueryInv,
                  Cqrs!TypeOK, Cqrs!Queries!TypeOK
    <3>3. ConfigurationTypes' /\ FoundSoFar' /\ BothHaveThem'
      BY <2>2, <3>2 DEF configured, ConfigurationInv, ConfigurationTypes, FoundSoFar,
                        LeftOfCommands, LeftOfQueries, BothHaveThem
    <3>4. Cqrs!ConfiguredAlike' /\ Cqrs!AllDiscovered' /\ Cqrs!QueriesAddUp'
      BY <2>2 DEF configured, ConfigurationInv, Cqrs!ConfiguredAlike, Cqrs!AllDiscovered,
                  Cqrs!QueriesAddUp, Cqrs!NotReached, Cqrs!Queries!NotReached
    <3> QED
      BY <3>1, <3>3, <3>4 DEF ConfigurationInv
  <2> QED
    BY <2>1, <2>2 DEF BusesNext, buses
<1>3. ConfigurationInv => ConfigurationHolds
  BY DEF ConfigurationInv, ConfigurationTypes, ConfiguredInv, ConfigurationHolds
<1> QED
  BY <1>1, <1>2, <1>3, PTL DEF BusesSpec

=============================================================================
