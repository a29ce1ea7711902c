-------------------------- MODULE MessageProcessor --------------------------
(***************************************************************************)
(* StandardMessageProcessor (message-processor/message-processor.ts) over  *)
(* an IOutboxRepository.  The repository is only an interface in the       *)
(* library: its operations are modelled from how the processor calls them. *)
(*                                                                         *)
(* A "run" is one asynchronous activation of processMessages or            *)
(* processMessage.  Every await is a step boundary, so two runs (two ticks *)
(* of the setInterval timer whose first batch is still being processed)    *)
(* interleave at each call to the repository and each call to a handler.   *)
(***************************************************************************)
EXTENDS Integers, Sequences, FiniteSets, FiniteSetsExt, Functions, OutboxStatus

CONSTANTS
  Messages,          \* outbox messages
  Types,             \* message types
  TypeOf,            \* [Messages -> Types]
  Priority,          \* [Messages -> Int], larger is fetched first
  Runs,              \* how many activations may be in flight
  BatchSize,         \* defaultBatchSize
  FetchStatuses,     \* the statuses the repository deems "unprocessed"
  DirectCalls,       \* BOOLEAN: callers also use the public methods directly
  MaxDisruptions,    \* bound: failed calls, crashes and stops together
  MaxCount           \* bound: history counters and attempts saturate here

ASSUME ProcessorAssumption ==
  /\ IsFiniteSet(Messages)
  /\ TypeOf \in [Messages -> Types]
  /\ Priority \in [Messages -> Int]
  /\ BatchSize \in Nat \ {0}
  /\ FetchStatuses \subseteq StoredStatus
  /\ DirectCalls \in BOOLEAN
  /\ MaxDisruptions \in Nat
  /\ MaxCount \in Nat \ {0}

VARIABLES
  status,            \* the outbox: [Messages -> Status]
  attempts,          \* the outbox: [Messages -> Nat]
  handlers,          \* the types registerHandler was called for
  isRunning,         \* the processor's flag: "yes" or "no"
  timers,            \* live setInterval timers
  pc,                \* [Runs -> Steps]: what each run does next
  queue,             \* [Runs -> Seq(Messages)]: the rest of its batch
  handled,           \* history: times a handler completed the message
  unmarked,          \* history: completions whose PROCESSED was never stored
  disruptions        \* history: disruptions so far, bounded

store  == <<status, attempts>>
activations == <<pc, queue>>
vars   == <<status, attempts, handlers, isRunning, timers, pc, queue, handled,
            unmarked, disruptions>>

\* The steps of a run: those of Loop work on the first message of its queue.
Loop  == {"pick", "handle", "mark", "increment", "fail"}
Steps == {"idle", "fetch"} \cup Loop

Bump(n) == IF n < MaxCount THEN n + 1 ELSE n

-----------------------------------------------------------------------------
(* The repository *)

Fetchable == {m \in Messages : status[m] \in FetchStatuses}

(* getUnprocessedMessages(limit): at most limit unprocessed messages, the  *)
(* more urgent first, none left out for a less urgent one.                 *)
IsFetch(q) ==
  /\ IsInjective(q)
  /\ \A i, j \in DOMAIN q : i < j => Priority[q[i]] >= Priority[q[j]]
  /\ \A i \in DOMAIN q, m \in Fetchable \ Range(q) : Priority[q[i]] >= Priority[m]

FetchResults ==
  {q \in [1 .. Min({BatchSize, Cardinality(Fetchable)}) -> Fetchable] : IsFetch(q)}

Disrupt == /\ disruptions < MaxDisruptions
           /\ disruptions' = disruptions + 1

Calm == UNCHANGED disruptions

(* updateStatus(m, s): stored, or rejected with nothing stored.            *)
UpdateStatus(m, s) == status' = [status EXCEPT ![m] = s]

SaveMessage(m) ==
  /\ status[m] = Absent
  /\ UpdateStatus(m, Pending)
  /\ UNCHANGED <<attempts, handlers, isRunning, timers, activations, handled, unmarked,
                 disruptions>>

-----------------------------------------------------------------------------
(* The processor's life *)

Goto(r, step) == /\ pc' = [pc EXCEPT ![r] = step]
                 /\ UNCHANGED queue

RegisterHandler(t) ==
  /\ t \notin handlers
  /\ handlers' = handlers \cup {t}
  /\ UNCHANGED <<store, isRunning, timers, activations, handled, unmarked, disruptions>>

(* Mutant: a second start is not refused.                                  *)
StartProcessing_Unguarded ==
  /\ timers < 3
  /\ isRunning' = "yes"
  /\ timers' = timers + 1
  /\ UNCHANGED <<store, handlers, activations, handled, unmarked, disruptions>>

StartProcessing ==
  /\ isRunning = "no"
  /\ isRunning' = "yes"
  /\ timers' = timers + 1
  /\ UNCHANGED <<store, handlers, activations, handled, unmarked, disruptions>>

(* Mutant: the timer is cleared but the flag keeps refusing a restart.     *)
StopProcessing_KeepsFlag ==
  /\ isRunning = "yes"
  /\ timers > 0
  /\ Disrupt
  /\ timers' = timers - 1
  /\ UNCHANGED <<store, handlers, isRunning, activations, handled, unmarked>>

(* clearInterval stops the ticks, not the batch already in flight.         *)
StopProcessing ==
  /\ isRunning = "yes"
  /\ Disrupt
  /\ isRunning' = "no"
  /\ timers' = timers - 1
  /\ UNCHANGED <<store, handlers, activations, handled, unmarked>>

(* The timer does not wait for the previous batch: any idle slot will do.  *)
Tick(r) ==
  /\ timers > 0
  /\ pc[r] = "idle"
  /\ Goto(r, "fetch")
  /\ UNCHANGED <<store, handlers, isRunning, timers, handled, unmarked, disruptions>>

CallProcessMessages(r) ==
  /\ DirectCalls
  /\ pc[r] = "idle"
  /\ Goto(r, "fetch")
  /\ UNCHANGED <<store, handlers, isRunning, timers, handled, unmarked, disruptions>>

CallProcessMessage(r, m) ==
  /\ DirectCalls
  /\ pc[r] = "idle"
  /\ status[m] # Absent
  /\ pc' = [pc EXCEPT ![r] = "handle"]
  /\ queue' = [queue EXCEPT ![r] = <<m>>]
  /\ UNCHANGED <<store, handlers, isRunning, timers, handled, unmarked, disruptions>>

(* The process dies: only the outbox survives.                             *)
Crash ==
  /\ Disrupt
  /\ handlers' = {}
  /\ isRunning' = "no"
  /\ timers' = 0
  /\ pc' = [r \in Runs |-> "idle"]
  /\ queue' = [r \in Runs |-> <<>>]
  /\ unmarked' = [m \in Messages |->
       IF \E r \in Runs : pc[r] = "mark" /\ Head(queue[r]) = m
       THEN Bump(unmarked[m]) ELSE unmarked[m]]
  /\ UNCHANGED <<store, handled>>

-----------------------------------------------------------------------------
(* The steps of a run *)

Current(r) == Head(queue[r])

(* Mutant: the loop does not stop at the end of the batch.                 *)
Proceed_Overrun(r) ==
  /\ queue' = [queue EXCEPT ![r] = Tail(@)]
  /\ pc' = [pc EXCEPT ![r] = "pick"]

(* The loop goes on with the rest of the batch, or the run ends.           *)
Proceed(r) ==
  /\ queue' = [queue EXCEPT ![r] = Tail(@)]
  /\ pc' = [pc EXCEPT ![r] = IF Tail(queue[r]) = <<>> THEN "idle" ELSE "pick"]

Fetch(r) ==
  /\ pc[r] = "fetch"
  /\ \/ /\ Calm
        /\ \E q \in FetchResults :
             /\ queue' = [queue EXCEPT ![r] = q]
             /\ pc' = [pc EXCEPT ![r] = IF q = <<>> THEN "idle" ELSE "pick"]
     \/ Disrupt /\ Goto(r, "idle")                    \* rejected: no batch
  /\ UNCHANGED <<store, handlers, isRunning, timers, handled, unmarked>>

(* updateStatus(PROCESSING); a rejection is logged and the loop goes on.   *)
PickUp(r) ==
  /\ pc[r] = "pick"
  /\ \/ Calm /\ UpdateStatus(Current(r), Processing) /\ Goto(r, "handle")
     \/ Disrupt /\ Proceed(r) /\ UNCHANGED status
  /\ UNCHANGED <<attempts, handlers, isRunning, timers, handled, unmarked>>

(* Mutant: a message without a handler is taken as done.                   *)
Handle_Unrouted(r) ==
  LET m == Current(r)
  IN  /\ pc[r] = "handle"
      /\ Calm
      /\ handled' = IF TypeOf[m] \in handlers
                    THEN [handled EXCEPT ![m] = Bump(@)] ELSE handled
      /\ Goto(r, "mark")
      /\ UNCHANGED <<store, handlers, isRunning, timers, unmarked>>

(* The handler behind the middlewares; no handler, or a handler or         *)
(* middleware that throws, leads to the catch block.                       *)
Handle(r) ==
  LET m == Current(r)
  IN  /\ pc[r] = "handle"
      /\ \/ /\ TypeOf[m] \in handlers
            /\ Calm
            /\ handled' = [handled EXCEPT ![m] = Bump(@)]
            /\ Goto(r, "mark")
         \/ /\ \/ TypeOf[m] \notin handlers /\ Calm
               \/ TypeOf[m] \in handlers /\ Disrupt
            /\ Goto(r, "increment")
            /\ UNCHANGED handled
      /\ UNCHANGED <<store, handlers, isRunning, timers, unmarked>>

(* Mutant: completion is not stored.                                       *)
MarkProcessed_Forgets(r) ==
  /\ pc[r] = "mark"
  /\ Proceed(r)
  /\ UNCHANGED <<store, handlers, isRunning, timers, handled, unmarked, disruptions>>

(* updateStatus(PROCESSED) is inside the same try block as the handler.    *)
MarkProcessed(r) ==
  LET m == Current(r)
  IN  /\ pc[r] = "mark"
      /\ \/ Calm /\ UpdateStatus(m, Processed) /\ Proceed(r) /\ UNCHANGED unmarked
         \/ /\ Disrupt
            /\ unmarked' = [unmarked EXCEPT ![m] = Bump(@)]
            /\ Goto(r, "increment")
            /\ UNCHANGED status
      /\ UNCHANGED <<attempts, handlers, isRunning, timers, handled>>

(* The catch block: a rejection of either call replaces the error and      *)
(* leaves the block, so FAILED may never be stored.                        *)
IncrementAttempt(r) ==
  LET m == Current(r)
  IN  /\ pc[r] = "increment"
      /\ \/ Calm /\ attempts' = [attempts EXCEPT ![m] = Bump(@)] /\ Goto(r, "fail")
         \/ Disrupt /\ Proceed(r) /\ UNCHANGED attempts
      /\ UNCHANGED <<status, handlers, isRunning, timers, handled, unmarked>>

MarkFailed(r) ==
  /\ pc[r] = "fail"
  /\ \/ Calm /\ UpdateStatus(Current(r), Failed) /\ Proceed(r)
     \/ Disrupt /\ Proceed(r) /\ UNCHANGED status
  /\ UNCHANGED <<attempts, handlers, isRunning, timers, handled, unmarked>>

RunStep(r) ==
  \/ Fetch(r) \/ PickUp(r) \/ Handle(r) \/ MarkProcessed(r)
  \/ IncrementAttempt(r) \/ MarkFailed(r)

-----------------------------------------------------------------------------

Init ==
  /\ status = [m \in Messages |-> Absent]
  /\ attempts = [m \in Messages |-> 0]
  /\ handlers = {}
  /\ isRunning = "no"
  /\ timers = 0
  /\ pc = [r \in Runs |-> "idle"]
  /\ queue = [r \in Runs |-> <<>>]
  /\ handled = [m \in Messages |-> 0]
  /\ unmarked = [m \in Messages |-> 0]
  /\ disruptions = 0

Next ==
  \/ \E m \in Messages : SaveMessage(m)
  \/ \E t \in Types : RegisterHandler(t)
  \/ StartProcessing
  \/ StopProcessing
  \/ Crash
  \/ \E r \in Runs : Tick(r) \/ CallProcessMessages(r) \/ RunStep(r)
  \/ \E r \in Runs, m \in Messages : CallProcessMessage(r, m)

Spec == Init /\ [][Next]_vars

(* Promises settle, the timer fires while it is armed, and the application *)
(* registers its handlers and starts the processor when it comes up.       *)
(* Nothing is assumed of the callers.                                      *)
Fairness ==
  /\ \A r \in Runs : WF_vars(RunStep(r)) /\ WF_vars(Tick(r))
  /\ \A t \in Types : WF_vars(RegisterHandler(t))
  /\ WF_vars(StartProcessing)

FairSpec == Spec /\ Fairness

-----------------------------------------------------------------------------
(* Properties *)

TypeOK ==
  /\ status \in [Messages -> Status]
  /\ attempts \in [Messages -> 0 .. MaxCount]
  /\ handlers \subseteq Types
  /\ isRunning \in {"yes", "no"}
  /\ timers \in Int
  /\ pc \in [Runs -> Steps]
  /\ queue \in [Runs -> Seq(Messages)]
  /\ \A r \in Runs : queue[r] # <<>> <=> pc[r] \in Loop
  /\ handled \in [Messages -> 0 .. MaxCount]
  /\ unmarked \in [Messages -> 0 .. MaxCount]
  /\ disruptions \in 0 .. MaxDisruptions

(* A message the outbox shows as PROCESSED has been completed by a handler *)
(* at least once, whatever overlapped, failed or crashed on the way        *)
(* (processMessage stores PROCESSED last).                                 *)
ProcessedWasHandled ==
  \A m \in Messages : status[m] = Processed => handled[m] > 0

(* The flag and the timers agree: however start and stop alternate, no     *)
(* timer outlives stopProcessing, and a running processor has one.         *)
OneTimer == timers = IF isRunning = "yes" THEN 1 ELSE 0

(* A message is handed to a handler again only because an earlier          *)
(* completion could not be recorded: redelivery needs a crash or a         *)
(* rejected update between the handler and PROCESSED.                      *)
RedeliveryNeedsLoss ==
  \A m \in Messages : handled[m] <= unmarked[m] + 1

(* PROCESSED is final: no later step takes a message out of it.            *)
ProcessedIsFinal ==
  [][\A m \in Messages : status[m] = Processed => status'[m] = Processed]_vars

(* The outbox lifecycle that the processor implements.                     *)
Lifecycle == INSTANCE OutboxLifecycle
               WITH delivered <- {m \in Messages : handled[m] > 0}

ImplementsLifecycle == Lifecycle!Spec

(* Every saved message is processed in the end (its type has a handler and *)
(* disruptions cease).                                                     *)
EveryMessageProcessed ==
  \A m \in Messages : status[m] # Absent ~> status[m] = Processed

=============================================================================
