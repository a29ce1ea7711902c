--------------------------- MODULE RepositorySave ---------------------------
(***************************************************************************)
(* IBaseRepository.save (core/repositories/base-repository.ts) of one      *)
(* aggregate by several callers, each holding its own copy, together with  *)
(* the dispatch of the saved events (UniversalEventDispatcher,             *)
(* core/events/event-dispatcher.ts).  Every await is a step boundary.      *)
(*                                                                         *)
(* The persistence handler is the application's: it appends one event at a *)
(* time to a stream and reports the stream's length as current version.    *)
(***************************************************************************)
EXTENDS AggregateState

CONSTANTS
  Callers,           \* who loads, changes and saves the aggregate
  Exclusive,         \* BOOLEAN: the application serialises the saves
  ApplyDuringSave,   \* BOOLEAN: the aggregate may change while being saved
  MaxEvents,         \* bound: events ever applied
  MaxFailures        \* bound: rejected calls

ASSUME RepositoryAssumption ==
  /\ Exclusive \in BOOLEAN
  /\ ApplyDuringSave \in BOOLEAN
  /\ MaxEvents \in Nat
  /\ MaxFailures \in Nat

VARIABLES
  agg,               \* [Callers -> Aggregate(Id)]: each caller's copy
  pc,                \* [Callers -> Steps]: where its save is
  todo,              \* [Callers -> Seq(Event(Id))]: events its loop has left
  outcome,           \* [Callers -> Outcomes]: how its last save ended
  stream,            \* Seq(Event(Id)): what is persisted
  published,         \* Seq(Event(Id)): what the buses were given, in order
  applied,           \* how many events were applied so far; their ids
  dropped,           \* ids discarded by loading over unsaved changes
  failures           \* how many calls were rejected

vars == <<agg, pc, todo, outcome, stream, published, applied, dropped, failures>>

Id       == 1 .. MaxEvents
Steps    == {"idle", "check", "persist", "dispatch"}
Outcomes == {"none", "saved", "conflict", "failed"}

Ids(events) == {events[i].id : i \in DOMAIN events}

Fail == /\ failures < MaxFailures
        /\ failures' = failures + 1

-----------------------------------------------------------------------------

Init ==
  /\ agg = [c \in Callers |-> New(0)]
  /\ pc = [c \in Callers |-> "idle"]
  /\ todo = [c \in Callers |-> <<>>]
  /\ outcome = [c \in Callers |-> "none"]
  /\ stream = <<>>
  /\ published = <<>>
  /\ applied = 0
  /\ dropped = {}
  /\ failures = 0

(* findById gives the caller a copy of the persisted aggregate.            *)
Load(c) ==
  /\ pc[c] = "idle"
  /\ agg' = [agg EXCEPT ![c] = New(Len(stream))]
  /\ dropped' = dropped \cup Ids(agg[c].events)
  /\ outcome' = [outcome EXCEPT ![c] = "none"]
  /\ UNCHANGED <<pc, todo, stream, published, applied, failures>>

Apply(c) ==
  /\ pc[c] = "idle" \/ ApplyDuringSave
  /\ applied < MaxEvents
  /\ applied' = applied + 1
  /\ agg' = [agg EXCEPT ![c] = Applied(@, applied + 1)]
  /\ UNCHANGED <<pc, todo, outcome, stream, published, dropped, failures>>

(* save without changes returns at once; otherwise the events to persist   *)
(* are read before the first await.                                        *)
Save(c) ==
  /\ pc[c] = "idle"
  /\ HasChanges(agg[c])
  /\ Exclusive => \A d \in Callers : pc[d] = "idle"
  /\ todo' = [todo EXCEPT ![c] = agg[c].events]
  /\ pc' = [pc EXCEPT ![c] = "check"]
  /\ outcome' = [outcome EXCEPT ![c] = "none"]
  /\ UNCHANGED <<agg, stream, published, applied, dropped, failures>>

Finish_KeepsTodo(c, how) ==
  /\ pc' = [pc EXCEPT ![c] = "idle"]
  /\ outcome' = [outcome EXCEPT ![c] = how]
  /\ UNCHANGED todo

(* The save ends; nothing it did is undone.                                *)
Finish(c, how) ==
  /\ pc' = [pc EXCEPT ![c] = "idle"]
  /\ todo' = [todo EXCEPT ![c] = <<>>]
  /\ outcome' = [outcome EXCEPT ![c] = how]

CheckVersion_Skipped(c) ==
  /\ pc[c] = "check"
  /\ pc' = [pc EXCEPT ![c] = "persist"]
  /\ UNCHANGED <<agg, todo, outcome, stream, published, applied, dropped, failures>>

CheckVersion_Commits(c) ==
  /\ pc[c] = "check"
  /\ IF agg[c].initialVersion = Len(stream)
     THEN /\ pc' = [pc EXCEPT ![c] = "persist"]
          /\ UNCHANGED <<agg, todo, outcome>>
     ELSE /\ Finish(c, "conflict")
          /\ agg' = [agg EXCEPT ![c] = Committed(@)]
  /\ UNCHANGED <<stream, published, applied, dropped, failures>>

(* getCurrentVersion, and the optimistic check on its answer.              *)
CheckVersion(c) ==
  /\ pc[c] = "check"
  /\ \/ /\ agg[c].initialVersion = Len(stream)
        /\ pc' = [pc EXCEPT ![c] = "persist"]
        /\ UNCHANGED <<todo, outcome, failures>>
     \/ /\ agg[c].initialVersion # Len(stream)
        /\ Finish(c, "conflict")
        /\ UNCHANGED failures
     \/ Fail /\ Finish(c, "failed")
  /\ UNCHANGED <<agg, stream, published, applied, dropped>>

PersistEvent_Swallows(c) ==
  /\ pc[c] = "persist"
  /\ stream' \in {stream, Append(stream, Head(todo[c]))}
  /\ IF Tail(todo[c]) = <<>>
     THEN /\ pc' = [pc EXCEPT ![c] = "dispatch"]
          /\ todo' = [todo EXCEPT ![c] = agg[c].events]
     ELSE /\ todo' = [todo EXCEPT ![c] = Tail(@)]
          /\ UNCHANGED pc
  /\ UNCHANGED <<agg, outcome, published, applied, dropped, failures>>

PersistEvent_NoDispatch(c) ==
  /\ pc[c] = "persist"
  /\ stream' = Append(stream, Head(todo[c]))
  /\ IF Tail(todo[c]) = <<>>
     THEN /\ Finish(c, "saved")
          /\ agg' = [agg EXCEPT ![c] = Committed(@)]
     ELSE /\ todo' = [todo EXCEPT ![c] = Tail(@)]
          /\ UNCHANGED <<agg, pc, outcome>>
  /\ UNCHANGED <<published, applied, dropped, failures>>

(* handleEvent of the next event; one that is rejected may have been       *)
(* stored.  After the last one the dispatcher reads the aggregate's events *)
(* anew.                                                                   *)
PersistEvent(c) ==
  /\ pc[c] = "persist"
  /\ \/ /\ stream' = Append(stream, Head(todo[c]))
        /\ IF Tail(todo[c]) = <<>>
           THEN /\ pc' = [pc EXCEPT ![c] = "dispatch"]
                /\ todo' = [todo EXCEPT ![c] = agg[c].events]
           ELSE /\ todo' = [todo EXCEPT ![c] = Tail(@)]
                /\ UNCHANGED pc
        /\ UNCHANGED <<outcome, failures>>
     \/ /\ Fail
        /\ Finish(c, "failed")
        /\ stream' \in {stream, Append(stream, Head(todo[c]))}
  /\ UNCHANGED <<agg, published, applied, dropped>>

(* dispatchEvent of the next event: domain bus, then processors; a failure *)
(* may come before or after subscribers saw it.  commit ends a dispatch in *)
(* which no event failed.                                                  *)
DispatchEvent(c) ==
  /\ pc[c] = "dispatch"
  /\ \/ /\ published' = Append(published, Head(todo[c]))
        /\ IF Tail(todo[c]) = <<>>
           THEN /\ agg' = [agg EXCEPT ![c] = Committed(@)]
                /\ Finish(c, "saved")
           ELSE /\ todo' = [todo EXCEPT ![c] = Tail(@)]
                /\ UNCHANGED <<agg, pc, outcome>>
        /\ UNCHANGED failures
     \/ /\ Fail
        /\ Finish(c, "failed")
        /\ published' \in {published, Append(published, Head(todo[c]))}
        /\ UNCHANGED agg
  /\ UNCHANGED <<stream, applied, dropped>>

SaveStep(c) == CheckVersion(c) \/ PersistEvent(c) \/ DispatchEvent(c)

Next == \E c \in Callers : Load(c) \/ Apply(c) \/ Save(c) \/ SaveStep(c)

Spec == Init /\ [][Next]_vars

(* Promises settle, and a caller with unsaved changes tries to save them   *)
(* again and again.                                                        *)
Fairness == \A c \in Callers : WF_vars(SaveStep(c)) /\ WF_vars(Save(c))

FairSpec == Spec /\ Fairness

-----------------------------------------------------------------------------
(* Properties *)

TypeOK ==
  /\ agg \in [Callers -> Aggregate(Id)]
  /\ pc \in [Callers -> Steps]
  /\ todo \in [Callers -> Seq(Event(Id))]
  /\ \A c \in Callers : todo[c] # <<>> <=> pc[c] # "idle"
  /\ outcome \in [Callers -> Outcomes]
  /\ stream \in Seq(Event(Id))
  /\ published \in Seq(Event(Id))
  /\ applied \in 0 .. MaxEvents
  /\ dropped \subseteq Id
  /\ failures \in 0 .. MaxFailures

(* Whatever a save did or failed to do, each copy's version, its initial   *)
(* version and its pending events agree.                                   *)
CopiesConsistent ==
  \A c \in Callers : Accounted(agg[c]) /\ Numbered(agg[c])

(* The persisted stream has no gap and no event stamped twice: no two      *)
(* saves that started from the same version both got through.              *)
StreamNumbered == \A i \in DOMAIN stream : stream[i].version = i

(* Nothing is published that is not persisted.                             *)
PublishedArePersisted == Ids(published) \subseteq Ids(stream)

(* A recorded event is still pending in its copy, or persisted, or was     *)
(* dropped by a reload: a save never loses it.                             *)
NoEventLost ==
  \A e \in 1 .. applied :
    \/ e \in Ids(stream) \cup dropped
    \/ \E c \in Callers : e \in Ids(agg[c].events)

(* No event is published twice, however often a save is retried.           *)
PublishedOnce ==
  \A i, j \in DOMAIN published : published[i].id = published[j].id => i = j

(* A save that ends well leaves its copy at the version that is persisted, *)
(* whatever happened to the copy and to the stream meanwhile.              *)
SavesCurrent ==
  \A c \in Callers :
    outcome[c] # "saved" /\ outcome'[c] = "saved"
      => agg'[c].initialVersion = Len(stream')

SavesEndCurrent == [][SavesCurrent]_vars

(* Events are dispatched after save: what is persisted gets published.     *)
PersistedGetPublished ==
  \A e \in Id : e \in Ids(stream) ~> e \in Ids(published)

=============================================================================
