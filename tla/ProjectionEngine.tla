-------------------------- MODULE ProjectionEngine --------------------------
(***************************************************************************)
(* One projection's engine (core/domain/projections/projection-engine.ts): *)
(* the plain engine and the enhanced one, which retries; with the          *)
(* checkpoint (or snapshot) and dead letter capabilities.  Several calls   *)
(* may be under way, each in a worker; every await is a step boundary.     *)
(*                                                                         *)
(* A read model is the sequence of the events applied to it; events are    *)
(* numbered by their position.                                             *)
(***************************************************************************)
EXTENDS Integers, Sequences, FiniteSets, SequencesExt

CONSTANTS
  Workers,           \* concurrent calls of processEvent and rebuild
  Overlapping,       \* BOOLEAN: a call may start while another is under way
  Enhanced,          \* BOOLEAN: EnhancedProjectionEngine
  RetryableErrors,   \* retryConfig.retryableErrors
  MaxAttempts,       \* retryConfig.maxAttempts
  Interval,          \* of the checkpoint capability; 0: it is not attached
  DeadLetterFrom,    \* attempts that make the default dead letter rule apply
  MaxEvents,         \* bound: events published
  MaxRebuilds,       \* bound: rebuilds
  MaxFailures        \* bound: rejected calls and throwing apply functions

ProjectionAssumption ==
  /\ Overlapping \in BOOLEAN /\ Enhanced \in BOOLEAN
  /\ MaxAttempts \in Nat \ {0}
  /\ {Interval, DeadLetterFrom, MaxEvents, MaxRebuilds, MaxFailures} \subseteq Nat

Position == 1 .. MaxEvents
Nothing  == <<0>>        \* no read model, or no checkpoint, is stored
Steps    == {"idle", "reset", "load", "init", "save", "after", "checkpoint", "error"}

VARIABLES
  stored,            \* the projection store: Nothing or a read model
  checkpoint,        \* [state |-> a read model or Nothing, position |-> Nat]
  counter,           \* eventCounter of the checkpoint capability
  deadLetters,       \* positions given to the dead letter store
  published,         \* how many events were published so far
  pc,                \* [Workers -> Steps]
  rest,              \* [Workers -> Seq(Position)]: events of the call, current first
  local,             \* [Workers -> read model]: currentState, then newState
  attempt,           \* [Workers -> Nat]
  failed,            \* positions whose processing ended in an error
  torn,              \* positions for which a checkpoint was rejected
  rebuilds, failures

vars == <<stored, checkpoint, counter, deadLetters, published, pc, rest, local,
          attempt, failed, torn, rebuilds, failures>>

Current(w) == Head(rest[w])

Goto(w, step) == pc' = [pc EXCEPT ![w] = step]

Quiet == \A w \in Workers : pc[w] = "idle"

Fail(w) ==
  /\ failures < MaxFailures
  /\ failures' = failures + 1
  /\ Goto(w, "error")

-----------------------------------------------------------------------------

Init ==
  /\ stored = Nothing
  /\ checkpoint = [state |-> Nothing, position |-> 0]
  /\ counter = 0
  /\ deadLetters = {}
  /\ published = 0
  /\ pc = [w \in Workers |-> "idle"]
  /\ rest = [w \in Workers |-> <<>>]
  /\ local = [w \in Workers |-> <<>>]
  /\ attempt = [w \in Workers |-> 0]
  /\ failed = {}
  /\ torn = {}
  /\ rebuilds = 0
  /\ failures = 0

(* The projection processor hands the next event to the engine.            *)
ProcessEvent(w) ==
  /\ pc[w] = "idle"
  /\ Quiet \/ Overlapping
  /\ published < MaxEvents
  /\ published' = published + 1
  /\ rest' = [rest EXCEPT ![w] = <<published + 1>>]
  /\ attempt' = [attempt EXCEPT ![w] = 1]
  /\ Goto(w, "load")
  /\ UNCHANGED <<stored, checkpoint, counter, deadLetters, local, failed, torn,
                 rebuilds, failures>>

Rebuild(w) ==
  /\ pc[w] = "idle"
  /\ Quiet \/ Overlapping
  /\ rebuilds < MaxRebuilds
  /\ rebuilds' = rebuilds + 1
  /\ rest' = [rest EXCEPT ![w] = [i \in 1 .. published |-> i]]
  /\ Goto(w, "reset")
  /\ UNCHANGED <<stored, checkpoint, counter, deadLetters, published, local,
                 attempt, failed, torn, failures>>

(* reset saves the initial state; then the events are gone through.        *)
Reset(w) ==
  /\ pc[w] = "reset"
  /\ stored' = <<>>
  /\ failed' = {}
  /\ torn' = {}
  /\ attempt' = [attempt EXCEPT ![w] = 1]
  /\ Goto(w, IF rest[w] = <<>> THEN "idle" ELSE "load")
  /\ UNCHANGED <<checkpoint, counter, deadLetters, published, rest, local,
                 rebuilds, failures>>

(* The enhanced engine loads twice; the first answer only goes to hooks.   *)
Load(w) ==
  /\ pc[w] = "load"
  /\ \/ /\ IF stored = Nothing
           THEN Goto(w, "init") /\ UNCHANGED local
           ELSE Goto(w, "save") /\ local' = [local EXCEPT ![w] = stored]
        /\ UNCHANGED failures
     \/ Fail(w) /\ UNCHANGED local
  /\ UNCHANGED <<stored, checkpoint, counter, deadLetters, published, rest,
                 attempt, failed, torn, rebuilds>>

(* getState saves the initial state when none is stored.                   *)
InitState(w) ==
  /\ pc[w] = "init"
  /\ \/ /\ stored' = <<>>
        /\ local' = [local EXCEPT ![w] = <<>>]
        /\ Goto(w, "save")
        /\ UNCHANGED failures
     \/ Fail(w) /\ UNCHANGED <<stored, local>>
  /\ UNCHANGED <<checkpoint, counter, deadLetters, published, rest, attempt,
                 failed, torn, rebuilds>>

ApplyAndSave_Unsaved(w) ==
  /\ pc[w] = "save"
  /\ local' = [local EXCEPT ![w] = Append(local[w], Current(w))]
  /\ Goto(w, "after")
  /\ UNCHANGED <<stored, checkpoint, counter, deadLetters, published, rest,
                 attempt, failed, torn, rebuilds, failures>>

(* apply to what was loaded, and store.save, which takes effect or is      *)
(* rejected.                                                               *)
ApplyAndSave(w) ==
  /\ pc[w] = "save"
  /\ \/ /\ LET new == Append(local[w], Current(w))
           IN  stored' = new /\ local' = [local EXCEPT ![w] = new]
        /\ Goto(w, "after")
        /\ UNCHANGED failures
     \/ /\ Fail(w)
        /\ UNCHANGED <<stored, local>>
  /\ UNCHANGED <<checkpoint, counter, deadLetters, published, rest, attempt,
                 failed, torn, rebuilds>>

(* The call goes on to its next event, or ends.                            *)
Advance(w) ==
  /\ rest' = [rest EXCEPT ![w] = Tail(@)]
  /\ attempt' = [attempt EXCEPT ![w] = 1]
  /\ Goto(w, IF Len(rest[w]) = 1 THEN "idle" ELSE "load")

(* onAfterApply of the checkpoint capability counts the event.             *)
AfterApply(w) ==
  /\ pc[w] = "after"
  /\ IF Interval = 0
     THEN Advance(w) /\ UNCHANGED counter
     ELSE /\ counter' = counter + 1
          /\ IF counter + 1 < Interval
             THEN Advance(w)
             ELSE Goto(w, "checkpoint") /\ UNCHANGED <<rest, attempt>>
  /\ UNCHANGED <<stored, checkpoint, deadLetters, published, local, failed, torn,
                 rebuilds, failures>>

(* The counter is reset only once the checkpoint is stored.                *)
SaveCheckpoint(w) ==
  /\ pc[w] = "checkpoint"
  /\ \/ /\ checkpoint' = [state |-> local[w], position |-> Current(w)]
        /\ counter' = 0
        /\ Advance(w)
        /\ UNCHANGED <<torn, failures>>
     \/ /\ Fail(w)
        /\ torn' = torn \cup {Current(w)}
        /\ UNCHANGED <<checkpoint, counter, rest, attempt>>
  /\ UNCHANGED <<stored, deadLetters, published, local, failed, rebuilds>>

(* Every error reaches the strategy wrapped in a ProjectionError, which    *)
(* the default lists do not retry.                                         *)
ShouldRetry(w) ==
  /\ Enhanced
  /\ attempt[w] < MaxAttempts
  /\ "ProjectionError" \in RetryableErrors

Retry(w) ==
  /\ pc[w] = "error"
  /\ ShouldRetry(w)
  /\ attempt' = [attempt EXCEPT ![w] = @ + 1]
  /\ Goto(w, "load")
  /\ UNCHANGED <<stored, checkpoint, counter, deadLetters, published, rest, local,
                 failed, torn, rebuilds, failures>>

GiveUp_Silently(w) ==
  /\ pc[w] = "error"
  /\ ~ShouldRetry(w)
  /\ Advance(w)
  /\ UNCHANGED <<stored, checkpoint, counter, deadLetters, published, local,
                 failed, torn, rebuilds, failures>>

(* onError, and the error leaves the call: the processor swallows it, a    *)
(* rebuild stops.  The plain engine counts no attempts.                    *)
GiveUp(w) ==
  /\ pc[w] = "error"
  /\ ~ShouldRetry(w)
  /\ deadLetters' = IF attempt[w] >= DeadLetterFrom THEN deadLetters \cup {Current(w)}
                    ELSE deadLetters
  /\ failed' = failed \cup ToSet(rest[w])
  /\ rest' = [rest EXCEPT ![w] = <<>>]
  /\ Goto(w, "idle")
  /\ UNCHANGED <<stored, checkpoint, counter, published, local, attempt,
                 torn, rebuilds, failures>>

Step(w) ==
  \/ Reset(w) \/ Load(w) \/ InitState(w) \/ ApplyAndSave(w) \/ AfterApply(w)
  \/ SaveCheckpoint(w) \/ Retry(w) \/ GiveUp(w)

Next == \E w \in Workers : ProcessEvent(w) \/ Rebuild(w) \/ Step(w)

Spec == Init /\ [][Next]_vars

FairSpec == Spec /\ \A w \in Workers : WF_vars(Step(w))

-----------------------------------------------------------------------------
(* Properties *)

Pending == UNION {ToSet(rest[w]) : w \in Workers}

Settled == (1 .. published) \ (Pending \cup failed)

InModel == IF stored = Nothing THEN {} ELSE ToSet(stored)

Occurrences(e) == Cardinality({i \in DOMAIN stored : stored[i] = e})

TypeOK ==
  /\ stored = Nothing \/ stored \in Seq(Position)
  /\ checkpoint.state = Nothing \/ checkpoint.state \in Seq(Position)
  /\ checkpoint.position \in 0 .. MaxEvents
  /\ counter \in Nat
  /\ deadLetters \subseteq Position
  /\ published \in 0 .. MaxEvents
  /\ pc \in [Workers -> Steps]
  /\ rest \in [Workers -> Seq(Position)]
  /\ \A w \in Workers :
       rest[w] = <<>> => pc[w] \in {"idle", "reset"}
  /\ local \in [Workers -> Seq(Position)]
  /\ attempt \in [Workers -> 0 .. MaxAttempts]
  /\ failed \subseteq Position
  /\ torn \subseteq Position
  /\ rebuilds \in 0 .. MaxRebuilds
  /\ failures \in 0 .. MaxFailures

(* An event whose processing ended well is in the read model, after        *)
(* failures of other events and rebuilds too.                              *)
NoUpdateLost == Settled \subseteq InModel

(* An event is applied once, unless its checkpoint was rejected and the    *)
(* engine retried: the read model had been saved.                          *)
AppliedOnce == \A e \in Position : e \notin torn => Occurrences(e) <= 1

(* The read model is built in the order of the events, whatever failed.    *)
AppliedInOrder ==
  \A i, j \in DOMAIN stored : i < j => stored[i] <= stored[j]

(* Resuming from the checkpoint loses nothing: every event up to its       *)
(* position is in its state or had failed.                                 *)
CheckpointResumes ==
  [][checkpoint' # checkpoint =>
       \A e \in 1 .. checkpoint'.position :
         e \in ToSet(checkpoint'.state) \/ e \in failed]_vars

(* A dead letter can be processed again: the read model lacks it.          *)
DeadLettersUnapplied == deadLetters \cap InModel = {}

(* Every published event is processed or its failure is reported.          *)
EveryEventSettles ==
  \A e \in Position : published >= e ~> (e \in InModel \/ e \in failed)

=============================================================================
