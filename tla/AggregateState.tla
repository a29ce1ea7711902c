--------------------------- MODULE AggregateState ---------------------------
(***************************************************************************)
(* The state AggregateRoot keeps about its own history                     *)
(* (core/domain/aggregates/aggregate-root.ts) and what each operation      *)
(* makes of it.  An event is what it identifies and the aggregateVersion   *)
(* it was stamped with.                                                    *)
(***************************************************************************)
EXTENDS Integers, Sequences

Event(Id) == [id : Id, version : Nat]

Aggregate(Id) ==
  [version : Nat, initialVersion : Nat, events : Seq(Event(Id))]

(* new AggregateRoot({ id, version: v })                                   *)
New(v) == [version |-> v, initialVersion |-> v, events |-> <<>>]

HasChanges(a) == a.events # <<>>

Applied_StampsFirst(a, e) ==
  [version        |-> a.version + 1,
   initialVersion |-> a.initialVersion,
   events         |-> Append(a.events, [id |-> e, version |-> a.version])]

(* apply: the version is raised and the event recorded before its handler  *)
(* runs, so they stay when the handler throws.                             *)
Applied(a, e) ==
  [version        |-> a.version + 1,
   initialVersion |-> a.initialVersion,
   events         |-> Append(a.events, [id |-> e, version |-> a.version + 1])]

Committed_KeepsVersion(a) == [a EXCEPT !.events = <<>>]

(* commit                                                                  *)
Committed(a) == New(a.version)

(* loadFromHistory with n events: they are counted from initialVersion,    *)
(* wherever that stands.                                                   *)
Replayed(a, n) == New(a.initialVersion + n)

(* ... and when the handler of event n + 1 throws.                         *)
ReplayAborted(a, n) ==
  [a EXCEPT !.version = a.initialVersion + n, !.events = <<>>]

(* The version counts the events recorded since initialVersion ...         *)
Accounted(a) == a.version = a.initialVersion + Len(a.events)

(* ... and they are stamped one after the other.                           *)
Numbered(a) ==
  \A i \in DOMAIN a.events : a.events[i].version = a.initialVersion + i

=============================================================================
