-------------------------- MODULE OutboxLifecycle --------------------------
(***************************************************************************)
(* What the outbox promises of one message, whoever processes it: the      *)
(* states and transitions of outbox/outbox-interfaces.ts (MessageStatus)   *)
(* as outbox/HOW-TO-outbox.md lists them, and that a message is completed  *)
(* only after a handler took it.  MessageProcessor implements this when    *)
(* its batches do not overlap.                                             *)
(***************************************************************************)

EXTENDS OutboxStatus

CONSTANT Messages   \* the messages that may ever be saved

VARIABLES
  status,           \* [Messages -> Status]
  delivered         \* the messages some handler has completed

vars == <<status, delivered>>

-----------------------------------------------------------------------------

Move(m, from, to) ==
  /\ status[m] \in from
  /\ status' = [status EXCEPT ![m] = to]

Save(m)     == Move(m, {Absent}, Pending) /\ UNCHANGED delivered

PickUp(m)   == Move(m, {Pending, Failed}, Processing) /\ UNCHANGED delivered

Deliver(m)  == /\ status[m] = Processing
               /\ delivered' = delivered \cup {m}
               /\ UNCHANGED status

Complete(m) == /\ m \in delivered
               /\ Move(m, {Processing}, Processed)
               /\ UNCHANGED delivered

Reject(m)   == Move(m, {Processing}, Failed) /\ UNCHANGED delivered

Init == /\ status = [m \in Messages |-> Absent]
        /\ delivered = {}

Next == \E m \in Messages :
          Save(m) \/ PickUp(m) \/ Deliver(m) \/ Complete(m) \/ Reject(m)

Spec == Init /\ [][Next]_vars

=============================================================================
