--------------------------- MODULE AggregateRoot ---------------------------
(***************************************************************************)
(* One aggregate with its capabilities (core/domain/aggregates): what it   *)
(* records, the audit wrappers around its apply, its snapshots, and the    *)
(* calls of the event sourcing capability to the event store, whose awaits *)
(* are step boundaries.                                                    *)
(***************************************************************************)
EXTENDS AggregateState, FiniteSets, SequencesExt

CONSTANTS
  Calls,             \* concurrent calls of the event sourcing capability
  Builds,            \* the capability sets aggregates are built with
  Offered,           \* the capabilities it may attach later
  Liberties,         \* what the application allows itself, see Allowed
  MaxEvents,         \* bound: events ever applied
  MaxState,          \* bound: length of a state that is loaded over
  MaxWrappers,       \* bound: audit capabilities attached to one aggregate
  MaxFailures        \* bound: throwing handlers and rejected calls

Capabilities == {"snapshot", "audit", "eventSourcing"}

(* overlap: use the aggregate while a call awaits the store.               *)
(* reload: load or rebuild whatever the state the aggregate is in, and     *)
(* rebuild from whatever version.                                          *)
(* dirty: take snapshots with changes pending.                             *)
(* reuse: go on with an aggregate whose replay threw half way.             *)
ASSUME AggregateAssumption ==
  /\ Builds \subseteq SUBSET Capabilities
  /\ Offered \subseteq Capabilities
  /\ Liberties \subseteq {"overlap", "reload", "dirty", "reuse"}
  /\ MaxEvents \in Nat
  /\ MaxState \in Nat
  /\ MaxWrappers \in Nat
  /\ MaxFailures \in Nat

VARIABLES
  agg,               \* Aggregate(Id): version, initialVersion, events
  state,             \* Seq(Id): the events its handlers have been through
  caps,              \* the attached capabilities
  wrappers,          \* Seq({"live", "dead"}): audit wrappers, innermost first
  logs,              \* Seq([since : Nat, entries : SUBSET Id]), one for each
  snapshot,          \* <<>> or <<the last snapshot taken>>
  store,             \* Seq(Event(Id)): what the event store holds
  pc,                \* [Calls -> Steps]
  kind,              \* [Calls -> Kinds]: what the call is for
  carried,           \* [Calls -> Seq(Event(Id))]: events sent or received
  base,              \* [Calls -> Nat]: the version passed to the store
  orphans,           \* calls whose capability was removed meanwhile
  poison,            \* ids whose handler throws
  discarded,         \* ids whose changes were given up unsaved
  applied,           \* how many events were applied so far; their ids
  failures           \* how many handlers threw and calls were rejected

vars == <<agg, state, caps, wrappers, logs, snapshot, store, pc, kind,
          carried, base, orphans, poison, discarded, applied, failures>>

object == <<agg, state, discarded>>
audit  == <<wrappers, logs>>
call   == <<pc, kind, carried, base, orphans>>

Id    == 1 .. MaxEvents
Steps == {"idle", "called", "answered"}
Kinds == {"save", "load", "rebuild"}

Ids(events) == {events[i].id : i \in DOMAIN events}

IdsInOrder(events) == [i \in DOMAIN events |-> events[i].id]

(* A sequence of ids without some of them.                                 *)
Without(ids, some) ==
  LET rest[n \in 0 .. Len(ids)] ==
        IF n = 0 THEN <<>>
        ELSE IF ids[n] \in some THEN rest[n - 1] ELSE Append(rest[n - 1], ids[n])
  IN  rest[Len(ids)]

Fail == /\ failures < MaxFailures
        /\ failures' = failures + 1

Quiet == \A k \in Calls : pc[k] = "idle"

(* The discipline of an application that takes no liberties.               *)
Allowed ==
  /\ Quiet \/ "overlap" \in Liberties
  /\ Accounted(agg) \/ "reuse" \in Liberties

-----------------------------------------------------------------------------

Wrapped(build) == IF "audit" \in build THEN <<"live">> ELSE <<>>

Log(since) == [since |-> since, entries |-> {}]

Init ==
  /\ agg = New(0)
  /\ state = <<>>
  /\ caps \in Builds
  /\ wrappers = Wrapped(caps)
  /\ logs = [i \in DOMAIN wrappers |-> Log(0)]
  /\ snapshot = <<>>
  /\ store = <<>>
  /\ pc = [k \in Calls |-> "idle"]
  /\ kind = [k \in Calls |-> "save"]
  /\ carried = [k \in Calls |-> <<>>]
  /\ base = [k \in Calls |-> 0]
  /\ orphans = {}
  /\ poison = {}
  /\ discarded = {}
  /\ applied = 0
  /\ failures = 0

(* A new object for the same aggregate, after a restart too.               *)
Construct ==
  /\ agg' = New(0)
  /\ state' = <<>>
  /\ caps' \in Builds
  /\ wrappers' = Wrapped(caps')
  /\ logs' = [i \in DOMAIN wrappers' |-> Log(applied)]
  /\ pc' = [k \in Calls |-> "idle"]
  /\ carried' = [k \in Calls |-> <<>>]
  /\ orphans' = {}
  /\ discarded' = discarded \cup Ids(agg.events)
  /\ UNCHANGED <<snapshot, store, kind, base, poison, applied, failures>>

(* Each audit capability wraps apply, whatever it finds there.             *)
AddCapability(name) ==
  /\ name \in Offered
  /\ caps' = caps \cup {name}
  /\ IF name = "audit"
     THEN /\ Len(wrappers) < MaxWrappers
          /\ wrappers' = Append(wrappers, "live")
          /\ logs' = Append(logs, Log(applied))
     ELSE UNCHANGED <<wrappers, logs>>
  /\ UNCHANGED <<object, snapshot, store, call, poison, applied, failures>>

(* detach leaves the capability without its aggregate: the last audit      *)
(* wrapper stays in place, calls under way go on.                          *)
RemoveCapability(name) ==
  /\ name \in caps
  /\ caps' = caps \ {name}
  /\ IF name = "audit"
     THEN /\ wrappers' = [wrappers EXCEPT ![Len(wrappers)] = "dead"]
          /\ logs' = [logs EXCEPT ![Len(logs)] = Log(applied)]
     ELSE UNCHANGED <<wrappers, logs>>
  /\ orphans' = IF name = "eventSourcing" THEN {k \in Calls : pc[k] # "idle"}
                ELSE orphans
  /\ UNCHANGED <<object, snapshot, store, pc, kind, carried, base,
                 poison, applied, failures>>

(* A wrapper throws before it calls on: one that lost its aggregate, and   *)
(* every one when there is a snapshot capability, whose saveSnapshot it    *)
(* calls without the serializer.  Nothing was recorded then, so such an    *)
(* apply is no step.                                                       *)
Blocked ==
  \/ wrappers # <<>> /\ "snapshot" \in caps
  \/ \E i \in DOMAIN wrappers : wrappers[i] = "dead"

(* The event is recorded, then handled, then audited by every wrapper.     *)
Apply ==
  /\ Allowed
  /\ ~Blocked
  /\ applied < MaxEvents
  /\ applied' = applied + 1
  /\ agg' = Applied(agg, applied + 1)
  /\ \/ /\ state' = Append(state, applied + 1)
        /\ logs' = [i \in DOMAIN logs |->
                      [logs[i] EXCEPT !.entries = @ \cup {applied + 1}]]
        /\ UNCHANGED <<poison, failures>>
     \/ /\ Fail
        /\ poison' = poison \cup {applied + 1}
        /\ UNCHANGED <<state, logs>>
  /\ UNCHANGED <<caps, wrappers, snapshot, store, call, discarded>>

CreateSnapshot ==
  /\ "snapshot" \in caps
  /\ Accounted(agg) \/ "reuse" \in Liberties
  /\ ~HasChanges(agg) \/ "dirty" \in Liberties
  /\ snapshot' = <<[version |-> agg.version, state |-> state]>>
  /\ UNCHANGED <<object, caps, audit, store, call, poison, applied, failures>>

RestoreFromSnapshot_KeepsVersion ==
  /\ "snapshot" \in caps
  /\ snapshot # <<>>
  /\ Quiet \/ "overlap" \in Liberties
  /\ state' = snapshot[1].state
  /\ agg' = New(agg.version)
  /\ discarded' = discarded \cup Ids(agg.events)
  /\ UNCHANGED <<caps, audit, snapshot, store, call, poison, applied, failures>>

RestoreFromSnapshot ==
  /\ "snapshot" \in caps
  /\ snapshot # <<>>
  /\ Quiet \/ "overlap" \in Liberties
  /\ state' = snapshot[1].state
  /\ agg' = New(snapshot[1].version)
  /\ discarded' = discarded \cup Ids(agg.events)
  /\ UNCHANGED <<caps, audit, snapshot, store, call, poison, applied, failures>>

-----------------------------------------------------------------------------
(* The event sourcing capability *)

Call(k, what, events, version) ==
  /\ "eventSourcing" \in caps
  /\ pc[k] = "idle"
  /\ Allowed
  /\ pc' = [pc EXCEPT ![k] = "called"]
  /\ kind' = [kind EXCEPT ![k] = what]
  /\ carried' = [carried EXCEPT ![k] = events]
  /\ base' = [base EXCEPT ![k] = version]
  /\ UNCHANGED <<object, caps, audit, snapshot, store, orphans, poison,
                 applied, failures>>

(* The store is told the version the events lead to.                       *)
SaveToEventStore(k) ==
  HasChanges(agg) /\ Call(k, "save", agg.events, agg.version)

LoadFromEventStore(k) ==
  /\ (agg = New(0) /\ state = <<>>) \/ "reload" \in Liberties
  /\ Len(state) <= MaxState
  /\ Call(k, "load", <<>>, 0)

(* From any version of the stream; without liberties, from the aggregate's. *)
RebuildFromVersion(k) ==
  /\ Len(state) <= MaxState
  /\ \E from \in 0 .. Len(store) :
       /\ (~HasChanges(agg) /\ from = agg.initialVersion) \/ "reload" \in Liberties
       /\ Call(k, "rebuild", <<>>, from)

(* The store takes events that lead from its version to the one it is      *)
(* told, and rejects others.                                               *)
StoreAnswers(k) ==
  /\ pc[k] = "called"
  /\ \/ /\ kind[k] = "save"
        /\ base[k] = Len(store) + Len(carried[k])
        /\ store' = store \o carried[k]
        /\ pc' = [pc EXCEPT ![k] = "answered"]
        /\ UNCHANGED <<carried, failures, orphans>>
     \/ /\ kind[k] # "save"
        /\ carried' = [carried EXCEPT ![k] = SubSeq(store, base[k] + 1, Len(store))]
        /\ pc' = [pc EXCEPT ![k] = "answered"]
        /\ UNCHANGED <<store, failures, orphans>>
     \/ /\ \/ Fail
           \/ /\ kind[k] = "save"
              /\ base[k] # Len(store) + Len(carried[k])
              /\ UNCHANGED failures
        /\ pc' = [pc EXCEPT ![k] = "idle"]
        /\ carried' = [carried EXCEPT ![k] = <<>>]
        /\ orphans' = orphans \ {k}
        /\ UNCHANGED store
  /\ UNCHANGED <<object, caps, audit, snapshot, kind, base, poison, applied>>

(* loadFromHistory: the changes pending are given up, not undone.          *)
Replay(events) ==
  LET handled == {n \in 0 .. Len(events) :
                    \A i \in 1 .. n : events[i].id \notin poison}
      n       == CHOOSE n \in handled : \A o \in handled : o <= n
  IN  /\ state' = state \o IdsInOrder(SubSeq(events, 1, n))
      /\ agg' = IF n = Len(events) THEN Replayed(agg, n) ELSE ReplayAborted(agg, n)
      /\ discarded' = discarded \cup Ids(agg.events)

(* The continuation after the await.  A call without its aggregate throws  *)
(* here; loading an empty stream does nothing.                             *)
Return(k) ==
  /\ pc[k] = "answered"
  /\ pc' = [pc EXCEPT ![k] = "idle"]
  /\ carried' = [carried EXCEPT ![k] = <<>>]
  /\ orphans' = orphans \ {k}
  /\ \/ /\ kind[k] = "save" /\ k \notin orphans
        /\ agg' = Committed(agg)
        /\ UNCHANGED <<state, discarded>>
     \/ /\ k \notin orphans
        /\ \/ kind[k] = "rebuild"
           \/ kind[k] = "load" /\ carried[k] # <<>>
        /\ Replay(carried[k])
     \/ /\ k \in orphans \/ (kind[k] = "load" /\ carried[k] = <<>>)
        /\ UNCHANGED object
  /\ UNCHANGED <<caps, audit, snapshot, store, kind, base, poison, applied,
                 failures>>

-----------------------------------------------------------------------------

Next ==
  \/ Construct
  \/ \E name \in Capabilities : AddCapability(name) \/ RemoveCapability(name)
  \/ Apply
  \/ CreateSnapshot \/ RestoreFromSnapshot
  \/ \E k \in Calls :
       \/ SaveToEventStore(k) \/ LoadFromEventStore(k) \/ RebuildFromVersion(k)
       \/ StoreAnswers(k) \/ Return(k)

Spec == Init /\ [][Next]_vars

-----------------------------------------------------------------------------
(* Properties *)

TypeOK ==
  /\ agg \in Aggregate(Id)
  /\ state \in Seq(Id)
  /\ caps \subseteq Capabilities
  /\ wrappers \in Seq({"live", "dead"})
  /\ logs \in Seq([since : 0 .. MaxEvents, entries : SUBSET Id])
  /\ Len(logs) = Len(wrappers)
  /\ "audit" \in caps => wrappers # <<>>
  /\ snapshot \in Seq([version : Nat, state : Seq(Id)])
  /\ store \in Seq(Event(Id))
  /\ pc \in [Calls -> Steps]
  /\ kind \in [Calls -> Kinds]
  /\ carried \in [Calls -> Seq(Event(Id))]
  /\ base \in [Calls -> Nat]
  /\ orphans \subseteq Calls
  /\ poison \subseteq Id
  /\ discarded \subseteq Id
  /\ applied \in 0 .. MaxEvents
  /\ failures \in 0 .. MaxFailures

(* Whatever liberties are taken, the store's events are numbered without   *)
(* gap or repetition: overlapping saves and outdated objects are turned    *)
(* away.                                                                   *)
StoreNumbered == \A i \in DOMAIN store : store[i].version = i

(* Without liberties the state is the fold of the history it claims: the   *)
(* stored events up to initialVersion, then the pending ones, but for      *)
(* those whose handler threw.                                              *)
History == IdsInOrder(SubSeq(store, 1, agg.initialVersion) \o agg.events)

StateIsHistory ==
  Accounted(agg) =>
    /\ agg.initialVersion <= Len(store)
    /\ state = Without(History, poison)

(* An event that was applied is pending, stored, or was given up by a      *)
(* reload, a restore or a new object; a save never loses it.               *)
NoEventLost ==
  1 .. applied \subseteq Ids(agg.events) \cup Ids(store) \cup discarded

(* An audit log holds every event applied since it was attached, but for   *)
(* those whose handler threw.                                              *)
AuditTrail ==
  \A i \in DOMAIN wrappers :
    wrappers[i] = "live" =>
      logs[i].entries = (logs[i].since + 1 .. applied) \ poison

=============================================================================
