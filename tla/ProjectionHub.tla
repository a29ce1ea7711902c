---------------------------- MODULE ProjectionHub ----------------------------
(***************************************************************************)
(* What surrounds the engines of the projections (core/domain/projections):*)
(* builders that make engines and give them capabilities, the registry of  *)
(* engines by projection name, the processor that hands an event to every  *)
(* interested engine at once, and the snapshots an engine takes every      *)
(* Interval events and resumes from.  ProjectionEngine has the inside of   *)
(* an engine; here an engine loads, applies and saves in one step.         *)
(*                                                                         *)
(* Engines are numbered as they are made and live until the process stops. *)
(* An event is its number; a read model is the sequence of those applied.  *)
(***************************************************************************)
EXTENDS Naturals, Sequences, FiniteSets, SequencesExt

CONSTANTS
  Projections,   \* the names of the projections
  Handled,       \* [Projections -> SUBSET Nat]: the events whose type is among
                 \* projection.eventTypes
  Interval,      \* of the snapshot capability
  Careful,       \* BOOLEAN: an engine that takes snapshots is resumed and put
                 \* into service between events, and not built on afterwards
  MaxEngines,    \* bound: engines made by one process
  MaxEvents,     \* bound: events dispatched
  MaxFailures,   \* bound: rejected calls of stores and of other capabilities
  MaxRestarts    \* bound: restarts of the process

HubAssumption ==
  /\ Handled \in [Projections -> SUBSET Nat]
  /\ Interval \in Nat \ {0}      \* BaseIntervalCapability refuses others
  /\ Careful \in BOOLEAN
  /\ {MaxEngines, MaxEvents, MaxFailures, MaxRestarts} \subseteq Nat

VARIABLES
  engines,       \* Seq([projection, snapshots, counter, version])
  builders,      \* [Projections -> Nat]: the engine being built, 0: none
  registered,    \* [Projections -> Nat]: ProjectionEngineRegistry, 0: none
  events,        \* how many events were dispatched
  at,            \* [engine at work -> "apply", "snapshot"], process not ended
  reported,      \* <<event, projection>>: errors the processor swallowed
  owed,          \* <<event, projection>>: registered and interested, history
  stored,        \* [Projections -> read model]
  snapshots,     \* [Projections -> Seq([state, position, version])]
  failures, restarts

vars == <<engines, builders, registered, events, at, reported, owed, stored,
          snapshots, failures, restarts>>

Serving == {registered[p] : p \in Projections} \ {0}

Newest(p) == IF snapshots[p] = <<>> THEN 0 ELSE Last(snapshots[p]).version

Init ==
  /\ engines = <<>> /\ events = 0 /\ at = <<>>
  /\ builders = [p \in Projections |-> 0]
  /\ registered = [p \in Projections |-> 0]
  /\ reported = {} /\ owed = {}
  /\ stored = [p \in Projections |-> <<>>]
  /\ snapshots = [p \in Projections |-> <<>>]
  /\ failures = 0 /\ restarts = 0

-----------------------------------------------------------------------------
(* Building and registering, also while an event is being processed.       *)

(* create(), and withRetryStrategy(), which starts over with an engine     *)
(* that has none of the capabilities given so far.                         *)
NewEngine(p) ==
  /\ Len(engines) < MaxEngines
  /\ engines' = Append(engines, [projection |-> p, snapshots |-> FALSE,
                                 counter |-> 0, version |-> 0])
  /\ builders' = [builders EXCEPT ![p] = Len(engines) + 1]
  /\ UNCHANGED <<registered, events, at, reported, owed, stored, snapshots,
                 failures, restarts>>

(* withSnapshots(): a capability of the same name is replaced by a new one *)
(* that has counted nothing.  The builder's engine may be in service, but  *)
(* is not at work: what it counts then is left out.                        *)
WithSnapshots(p) ==
  /\ builders[p] # 0
  /\ builders[p] \notin DOMAIN at
  /\ Careful => builders[p] \notin Serving
  /\ engines' = [engines EXCEPT ![builders[p]].snapshots = TRUE,
                                ![builders[p]].counter = 0,
                                ![builders[p]].version = 0]
  /\ UNCHANGED <<builders, registered, events, at, reported, owed, stored,
                 snapshots, failures, restarts>>

LoadLatestSnapshot(e) ==
  /\ engines[e].snapshots
  /\ Careful => DOMAIN at = {}
  /\ snapshots[engines[e].projection] # <<>>
  /\ engines' = [engines EXCEPT ![e].version = Newest(engines[e].projection)]
  /\ UNCHANGED <<builders, registered, events, at, reported, owed, stored,
                 snapshots, failures, restarts>>

(* register(): under its projection's name, in place of the one before.    *)
Register(e) ==
  /\ Careful /\ engines[e].snapshots =>
       /\ engines[e].version = Newest(engines[e].projection)
       /\ DOMAIN at = {}
  /\ registered' = [registered EXCEPT ![engines[e].projection] = e]
  /\ UNCHANGED <<engines, builders, events, at, reported, owed, stored,
                 snapshots, failures, restarts>>

(* unregister(), and clear() for every name.                               *)
Unregister(names) ==
  /\ registered' = [p \in Projections |-> IF p \in names THEN 0 ELSE registered[p]]
  /\ UNCHANGED <<engines, builders, events, at, reported, owed, stored,
                 snapshots, failures, restarts>>

-----------------------------------------------------------------------------
(* ProjectionProcessor.process().  The dispatcher awaits it before the     *)
(* next event.                                                             *)

Interested(n) == {e \in Serving : n \in Handled[engines[e].projection]}

Process ==
  /\ DOMAIN at = {} /\ events < MaxEvents
  /\ events' = events + 1
  /\ at' = [e \in Interested(events') |-> "apply"]
  /\ owed' = owed \cup {<<events', engines[e].projection>> : e \in Interested(events')}
  /\ UNCHANGED <<engines, builders, registered, reported, stored, snapshots,
                 failures, restarts>>

Ends(e) == at' = [other \in DOMAIN at \ {e} |-> at[other]]

(* The error of one engine is logged and swallowed.                        *)
Rejected(e) ==
  /\ failures < MaxFailures /\ failures' = failures + 1
  /\ reported' = reported \cup {<<events, engines[e].projection>>}
  /\ Ends(e)

(* processEvent of one engine: the hooks before, load, apply and save; then *)
(* the snapshot capability counts the event, and raises its version before  *)
(* it saves.                                                               *)
Apply(e) ==
  /\ e \in DOMAIN at /\ at[e] = "apply"
  /\ LET p    == engines[e].projection
         full == engines[e].snapshots /\ engines[e].counter + 1 >= Interval
     IN  \/ /\ stored' = [stored EXCEPT ![p] = Append(@, events)]
            /\ engines' = IF engines[e].snapshots
                          THEN [engines EXCEPT ![e].counter = @ + 1,
                                               ![e].version = IF full THEN @ + 1 ELSE @]
                          ELSE engines
            /\ IF full THEN at' = [at EXCEPT ![e] = "snapshot"] ELSE Ends(e)
            /\ UNCHANGED <<reported, failures>>
         \/ Rejected(e) /\ UNCHANGED <<stored, engines>>
  /\ UNCHANGED <<builders, registered, events, owed, snapshots, restarts>>

SaveSnapshot_ResetsVersion(e) ==
  /\ e \in DOMAIN at /\ at[e] = "snapshot"
  /\ LET p == engines[e].projection
     IN  snapshots' = [snapshots EXCEPT ![p] =
              Append(@, [state |-> stored[p], position |-> events,
                         version |-> engines[e].version])]
  /\ engines' = [engines EXCEPT ![e].counter = 0, ![e].version = 0]
  /\ Ends(e)
  /\ UNCHANGED <<builders, registered, events, reported, owed, stored, failures,
                 restarts>>

(* handleInterval(): only a snapshot that is saved resets the counter.     *)
SaveSnapshot(e) ==
  /\ e \in DOMAIN at /\ at[e] = "snapshot"
  /\ LET p == engines[e].projection
     IN  \/ /\ snapshots' = [snapshots EXCEPT ![p] =
                  Append(@, [state |-> stored[p], position |-> events,
                             version |-> engines[e].version])]
            /\ engines' = [engines EXCEPT ![e].counter = 0]
            /\ Ends(e)
            /\ UNCHANGED <<reported, failures>>
         \/ Rejected(e) /\ UNCHANGED <<snapshots, engines>>
  /\ UNCHANGED <<builders, registered, events, owed, stored, restarts>>

(* The process stops: the stores alone remain, and whoever dispatched the  *)
(* event at work gets no answer, which counts as an error.                 *)
Restart ==
  /\ restarts < MaxRestarts /\ restarts' = restarts + 1
  /\ engines' = <<>> /\ at' = <<>>
  /\ builders' = [p \in Projections |-> 0]
  /\ registered' = [p \in Projections |-> 0]
  /\ reported' = reported \cup {<<events, engines[e].projection>> : e \in DOMAIN at}
  /\ UNCHANGED <<events, owed, stored, snapshots, failures>>

Next ==
  \/ \E p \in Projections : NewEngine(p) \/ WithSnapshots(p)
  \/ \E e \in DOMAIN engines :
       LoadLatestSnapshot(e) \/ Register(e) \/ Apply(e) \/ SaveSnapshot(e)
  \/ \E names \in SUBSET Projections \ {{}} : Unregister(names)
  \/ Process
  \/ Restart

Spec == Init /\ [][Next]_vars

-----------------------------------------------------------------------------
(* Properties *)

(* Engines are at work only on the last event, one for each projection, and *)
(* what is stored is made of events dispatched.                             *)
TypeOK ==
  /\ \A e \in DOMAIN engines : engines[e].projection \in Projections
  /\ \A p \in Projections : registered[p] # 0 => engines[registered[p]].projection = p
  /\ DOMAIN at \subseteq DOMAIN engines /\ Range(at) \subseteq {"apply", "snapshot"}
  /\ \A e, f \in DOMAIN at : engines[e].projection = engines[f].projection => e = f
  /\ \A p \in Projections : Range(stored[p]) \subseteq 1 .. events
  /\ \A p \in Projections : \A s \in Range(snapshots[p]) : s.position \in 1 .. events

Delivered(n, p) == n \in Range(stored[p]) \/ <<n, p>> \in reported

(* When process() returns, each engine that was registered and interested   *)
(* when it was called has applied the event or had its own error swallowed, *)
(* whatever the other engines, the registry and the builders did meanwhile  *)
(* (ProjectionProcessor.process, processWithErrorHandling).                 *)
EveryEngineServed ==
  \A d \in owed : \/ Delivered(d[1], d[2])
                  \/ /\ d[1] = events
                     /\ \E e \in DOMAIN at : engines[e].projection = d[2]

(* A snapshot is the read model at its position, and careful applications   *)
(* get versions that grow, through rejected saves, restarts and engines in  *)
(* place of others: loadLatest() finds the last snapshot taken              *)
(* (SnapshotProjectionCapability.handleInterval, loadLatestSnapshot).       *)
SnapshotsResume ==
  \A p \in Projections : \A i \in DOMAIN snapshots[p] :
    LET s == snapshots[p][i]
    IN  /\ IsPrefix(s.state, stored[p])
        /\ s.position = Last(s.state)
        /\ \A k \in Len(s.state) + 1 .. Len(stored[p]) : stored[p][k] > s.position
        /\ Careful => \A j \in 1 .. i - 1 : snapshots[p][j].version < s.version

=============================================================================
