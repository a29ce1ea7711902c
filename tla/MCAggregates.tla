---------------------------- MODULE MCAggregates ----------------------------
(***************************************************************************)
(* The aggregates for TLC, in one run of four parts: an aggregate used     *)
(* with discipline, one whose application takes every liberty, the raising *)
(* of events, and the utilities that work on many aggregates.  The parts   *)
(* share no state, so a behaviour moves one of them and leaves the others  *)
(* where they began.                                                       *)
(***************************************************************************)
EXTENDS AggregateRoot

CONSTANTS k1, k2, MaxVersion,
  Configs, Processors, MaxAggregates, MaxLength, MaxJobs, MaxChanges  \* of the utilities

VARIABLES part,
  upcasters, handlers, step, origin, source, current, path, outcome,
  given, jobs, processors, changes

Upcasting == INSTANCE EventUpcasting WITH pc <- step

Tools == INSTANCE AggregateTools WITH caps <- given, calls <- processors

ASSUME ToolsAssumption == Tools!ToolsAssumption
ASSUME UpcastingAssumption == Upcasting!MaxVersionAssumption

Free == INSTANCE AggregateRoot
  WITH Calls <- {k1, k2}, Builds <- {{"eventSourcing"}},
       Offered <- {"eventSourcing"},
       Liberties <- {"overlap", "reload", "dirty", "reuse"},
       MaxEvents <- 2, MaxState <- 2, MaxWrappers <- 0

Sourced == {{"snapshot", "eventSourcing"}}
Processed == {{"snapshot", "versioning", "eventSourcing"}}

upcasting == <<upcasters, handlers, step, origin, source, current, path, outcome>>
tools == <<given, jobs, processors, changes>>
mcvars == <<part, vars, upcasting, tools>>

MCInit ==
  /\ Upcasting!Init /\ Tools!Init
  /\ \/ part \in {"disciplined", "upcasting", "tools"} /\ Init
     \/ part = "free" /\ Free!Init

MCNext ==
  /\ UNCHANGED part
  /\ \/ part = "disciplined" /\ Next /\ UNCHANGED <<upcasting, tools>>
     \/ part = "free" /\ Free!Next /\ UNCHANGED <<upcasting, tools>>
     \/ part = "upcasting" /\ Upcasting!Next /\ UNCHANGED <<vars, tools>>
     \/ part = "tools" /\ Tools!Next /\ UNCHANGED <<vars, upcasting>>

MCSpec == MCInit /\ [][MCNext]_mcvars

-----------------------------------------------------------------------------
(* The properties of the parts they are stated for. *)

\* Used with discipline, an aggregate's state is the fold of the history it claims, and its
\* audit log is complete while audits come and go; no applied event disappears in a save
\* (aggregate-root.ts apply, loadFromHistory, commit; AuditCapability; saveToEventStore).
\* The variables of every part keep their types.
DisciplinedHistory ==
  /\ part = "disciplined" => TypeOK /\ StateIsHistory /\ AuditTrail /\ NoEventLost
  /\ part = "free" => Free!TypeOK
  /\ part = "upcasting" => Upcasting!TypeOK

\* When processAggregatesWithCapabilities resolves, the processors of every aggregate that had
\* the capability have settled, with an aggregate that is passed twice and capabilities that
\* change meanwhile (aggregate-utilities.ts).
AllWereProcessed == part = "tools" => Tools!TypeOK /\ Tools!ResolvedMeansProcessed

\* A raised event went through every version once, is handled in the latest one, and only a
\* gap above it stops it (VersioningCapability.upcastEvent).
EventsAreRaised ==
  /\ [](Upcasting!RaisedStepByStep /\ Upcasting!HandledAtLatest)
  /\ Upcasting!MissingIsAGap
=============================================================================
