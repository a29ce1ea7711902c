----------------------------- MODULE EventUpcasting -----------------------------
(***************************************************************************)
(* VersioningCapability of an aggregate (core/domain/aggregates/           *)
(* capabilities/versioning-capability.ts), for one event type: upcasters   *)
(* are registered over time, in any order, and stored events of any        *)
(* version are raised step by step to the latest version and then handled. *)
(* Raising an event is synchronous, but the steps are shown: each is an    *)
(* upcaster of the application, which may throw.                           *)
(***************************************************************************)
EXTENDS Naturals, Sequences

CONSTANTS MaxVersion \* bound: the greatest version of an event

MaxVersionAssumption == MaxVersion \in Nat \ {0}

EventVersions == 1..MaxVersion
Unversioned == 0 \* metadata without an eventVersion; also the default handler

VARIABLES upcasters, \* source versions an upcaster is registered for
          handlers,  \* versions a handler is registered for, Unversioned the default one
          pc,        \* "idle", "raising", "raised"
          origin,    \* where the event comes from: "stored", or "applied" just now
          source,    \* the event's version in its metadata
          current,   \* its version by now
          path,      \* the upcasters it went through
          outcome    \* what became of the last event: "none", "missing", "threw", "ignored", "handled"

vars == <<upcasters, handlers, pc, origin, source, current, path, outcome>>

Init ==
  /\ upcasters = {} /\ handlers = {}
  /\ pc = "idle" /\ origin = "stored" /\ source = Unversioned /\ current = Unversioned /\ path = <<>>
  /\ outcome = "none"

----------------------------------------------------------------------------
\* A second upcaster for a version throws and changes nothing.
RegisterUpcaster(v) ==
  /\ pc = "idle" /\ v \notin upcasters
  /\ upcasters' = upcasters \union {v}
  /\ UNCHANGED <<handlers, pc, origin, source, current, path, outcome>>

RegisterHandler(v) ==
  /\ pc = "idle" /\ v \notin handlers
  /\ handlers' = handlers \union {v}
  /\ UNCHANGED <<upcasters, pc, origin, source, current, path, outcome>>

\* Disabling versioning detaches the capability, which forgets its upcasters.
Detach ==
  /\ pc = "idle" /\ upcasters # {}
  /\ upcasters' = {}
  /\ UNCHANGED <<handlers, pc, origin, source, current, path, outcome>>

----------------------------------------------------------------------------
Greatest(S) == CHOOSE v \in S : \A w \in S : w <= v
LatestVersion == IF upcasters = {} THEN 1 ELSE Greatest(upcasters) + 1
Starting(v) == IF v = Unversioned THEN 1 ELSE v
Raised(v) == upcasters = {} \/ Starting(v) >= LatestVersion

\* An event that needs no raising keeps its metadata, without a version if it had none.
Begin(v) ==
  /\ pc = "idle"
  /\ source' = v /\ path' = <<>> /\ outcome' = "none"
  /\ IF Raised(v) THEN pc' = "raised" /\ current' = v
     ELSE pc' = "raising" /\ current' = Starting(v)
  /\ UNCHANGED <<upcasters, handlers>>

\* loadFromHistory hands over a stored event of any version; apply one that the present code has
\* just written, in the latest form and without a version in its metadata.
Load(v) == Begin(v) /\ origin' = "stored"
Apply == Begin(Unversioned) /\ origin' = "applied"

Fail(how) == pc' = "idle" /\ outcome' = how /\ UNCHANGED <<upcasters, handlers, origin, source, current, path>>
Missing == pc = "raising" /\ current \notin upcasters /\ Fail("missing")
UpcasterThrows == pc = "raising" /\ current \in upcasters /\ Fail("threw")

Upcast_SkipsGaps ==
  /\ pc = "raising"
  /\ path' = IF current \in upcasters THEN Append(path, current) ELSE path
  /\ current' = current + 1
  /\ pc' = IF current' < LatestVersion THEN "raising" ELSE "raised"
  /\ UNCHANGED <<upcasters, handlers, origin, source, outcome>>
Upcast ==
  /\ pc = "raising" /\ current \in upcasters
  /\ path' = Append(path, current) /\ current' = current + 1
  /\ pc' = IF current' < LatestVersion THEN "raising" ELSE "raised"
  /\ UNCHANGED <<upcasters, handlers, origin, source, outcome>>

\* The handler for the version of the event, or the default one, or none.
Handle ==
  /\ pc = "raised" /\ pc' = "idle"
  /\ outcome' = IF current \in handlers \/ Unversioned \in handlers THEN "handled" ELSE "ignored"
  /\ UNCHANGED <<upcasters, handlers, origin, source, current, path>>

Next ==
  \/ \E v \in EventVersions : RegisterUpcaster(v)
  \/ \E v \in EventVersions \union {Unversioned} : RegisterHandler(v) \/ Load(v)
  \/ Apply \/ Detach \/ Missing \/ UpcasterThrows \/ Upcast \/ Handle
Spec == Init /\ [][Next]_vars

----------------------------------------------------------------------------
(* Properties. *)

\* Every variable has its type; an event is never raised beyond the version after the last upcaster.
TypeOK ==
  /\ upcasters \subseteq EventVersions /\ handlers \subseteq EventVersions \union {Unversioned}
  /\ pc \in {"idle", "raising", "raised"}
  /\ origin \in {"stored", "applied"} /\ source \in 0..MaxVersion /\ current \in 0..MaxVersion + 1 /\ path \in Seq(EventVersions)
  /\ outcome \in {"none", "missing", "threw", "ignored", "handled"}

\* An event went through the upcasters of its own version and of every one after it, each once.
RaisedStepByStep ==
  pc # "idle" => path = [i \in 1..Len(path) |-> Starting(source) + i - 1]

\* An event is handled in the latest version its upcasters know, or in the later one it came in.
HandledAtLatest ==
  pc = "raised" => Starting(current) >= LatestVersion /\ (path # <<>> => current = LatestVersion)

\* An upcaster is reported missing only between the event's version and the latest: an event
\* that is newer than a gap is not disturbed by it.
MissingIsAGap ==
  [][pc = "raising" /\ outcome' = "missing" =>
       \E v \in Starting(source)..(LatestVersion - 1) : v \notin upcasters]_vars
=============================================================================
