--------------------------- MODULE ErrorProjection ---------------------------
(***************************************************************************)
(* The read model of the system's errors (error-projection.ts), with the   *)
(* helpers of its base class (projection-base.ts): how many errors there   *)
(* were, by projection and by type, and the recent ones, newest first.     *)
(* Time passes in units; an error keeps the time it was applied at.        *)
(***************************************************************************)
EXTENDS Naturals, Sequences, FiniteSets, SequencesExt

CONSTANTS
  Projections, ErrorTypes,
  MaxRecent,     \* maxRecentErrors
  MaxAge,        \* maxErrorAge
  MaxErrors,     \* bound: errors
  MaxTime        \* bound: time

VARIABLES
  model,         \* [total, byProjection, byType, recent]
  now,
  history        \* every error there was, in order: [projection, type, at]

vars == <<model, now, history>>

\* slice(0, MaxRecent - 1) counts from the end when MaxRecent is 0.
ErrorsAssumption ==
  {MaxRecent, MaxAge} \subseteq Nat \ {0} /\ {MaxErrors, MaxTime} \subseteq Nat

EventTypes == {"ProjectionErrorOccurred"}

Handles(eventType) == eventType \in EventTypes

InitialState ==
  [total |-> 0, recent |-> <<>>,
   byProjection |-> [p \in Projections |-> 0], byType |-> [t \in ErrorTypes |-> 0]]

Init == model = InitialState /\ now = 0 /\ history = <<>>

Counted(state, error) ==
  [state EXCEPT !.total = @ + 1, !.byProjection[error.projection] = @ + 1,
                !.byType[error.type] = @ + 1]

\* The error in front of those that are not too old, MaxRecent of them at most.
Remembered(recent, error, time) ==
  LET young == SelectSeq(recent, LAMBDA e : time - e.at < MaxAge)
  IN  SubSeq(<<error>> \o young, 1,
             IF Len(young) < MaxRecent THEN Len(young) + 1 ELSE MaxRecent)

\* apply(): when() hands other events through.
Applied(state, eventType, error) ==
  IF Handles(eventType)
  THEN [Counted(state, error) EXCEPT !.recent = Remembered(@, error, now)]
  ELSE state

Apply(eventType, p, t) ==
  LET error == [projection |-> p, type |-> t, at |-> now]
  IN  /\ Len(history) < MaxErrors
      /\ model' = Applied(model, eventType, error)
      /\ history' = IF eventType \in EventTypes THEN Append(history, error) ELSE history
      /\ UNCHANGED now

Tick == now < MaxTime /\ now' = now + 1 /\ UNCHANGED <<model, history>>

Next ==
  \/ \E p \in Projections, t \in ErrorTypes :
       \E eventType \in EventTypes \cup {"another event"} : Apply(eventType, p, t)
  \/ Tick

Spec == Init /\ [][Next]_vars

-----------------------------------------------------------------------------
NewestFirst(s) == Reverse(s)

\* The counts are those of all errors, and the recent errors are the newest,
\* without a gap: whatever was young enough when the last error came, unless
\* MaxRecent newer ones pushed it out (ErrorProjection.apply).
ErrorsAreAccounted ==
  LET young == SelectSeq(history, LAMBDA e : Last(history).at - e.at < MaxAge)
      kept  == NewestFirst(young)
  IN  /\ model.total = Len(history)
      /\ \A p \in Projections : model.byProjection[p] =
           Cardinality({i \in DOMAIN history : history[i].projection = p})
      /\ \A t \in ErrorTypes : model.byType[t] =
           Cardinality({i \in DOMAIN history : history[i].type = t})
      /\ model.recent = SubSeq(kept, 1, IF Len(kept) < MaxRecent THEN Len(kept)
                                        ELSE MaxRecent)

=============================================================================
