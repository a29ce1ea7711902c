--------------------------- MODULE ServiceTransaction ---------------------------
(***************************************************************************)
(* UnitOfWorkAwareDomainService.executeInTransaction                       *)
(* (services/base-domain-service.ts) called by several requests on one     *)
(* service.  The unit of work is a field of the service, read again after  *)
(* every await: setUnitOfWork and clearUnitOfWork change it under a        *)
(* running call.  Units of work are external; they keep the contract of    *)
(* IUnitOfWork: begin throws when a transaction is in progress, commit and *)
(* rollback when none is, and each of them may fail on its own.            *)
(***************************************************************************)
EXTENDS Naturals

CONSTANTS Calls,      \* calls of executeInTransaction, each made once
          Units,      \* the units of work
          NoUnit,     \* the value of a cleared field
          MaxChanges, \* bound: changes of the field
          MaxFaults   \* bound: failures of the units of work

ASSUME TransactionAssumption ==
  /\ NoUnit \notin Units
  /\ "none" \notin Calls
  /\ MaxChanges \in Nat /\ MaxFaults \in Nat

VARIABLES field,   \* the service's unitOfWork
          open,    \* of each unit: whose transaction is in progress, a call or "none"
          ended,   \* of each call: how the transaction it began ended
          pc,      \* of each call: where it is
          began,   \* of each call: the unit begin was called on
          worked,  \* of each call: the units whose repositories its operation used
          changes, \* changes of the field so far
          faults   \* failures of units so far

vars == <<field, open, ended, pc, began, worked, changes, faults>>

Init ==
  /\ field \in Units \union {NoUnit}
  /\ open = [u \in Units |-> "none"]
  /\ ended = [c \in Calls |-> "no"]
  /\ pc = [c \in Calls |-> "ready"]
  /\ began = [c \in Calls |-> NoUnit]
  /\ worked = [c \in Calls |-> {}]
  /\ changes = 0 /\ faults = 0

Goto(c, to) == pc' = [pc EXCEPT ![c] = to]
Fault == faults < MaxFaults /\ faults' = faults + 1

----------------------------------------------------------------------------
(* The field. *)

SetUnitOfWork(u) ==
  /\ changes < MaxChanges /\ u # field
  /\ field' = u /\ changes' = changes + 1
  /\ UNCHANGED <<open, ended, pc, began, worked, faults>>

ClearUnitOfWork ==
  /\ changes < MaxChanges /\ field # NoUnit
  /\ field' = NoUnit /\ changes' = changes + 1
  /\ UNCHANGED <<open, ended, pc, began, worked, faults>>

----------------------------------------------------------------------------
(* executeInTransaction. *)

\* Without a unit of work it throws at once.
NotSet(c) ==
  /\ pc[c] = "ready" /\ field = NoUnit
  /\ Goto(c, "refused")
  /\ UNCHANGED <<field, open, ended, began, worked, changes, faults>>

Begin_NotAwaited(c) ==
  /\ pc[c] = "ready" /\ field # NoUnit
  /\ began' = [began EXCEPT ![c] = field]
  /\ open' = IF open[field] = "none" THEN [open EXCEPT ![field] = c] ELSE open
  /\ Goto(c, "operating")
  /\ UNCHANGED <<field, ended, worked, changes, faults>>
Begin(c) ==
  /\ pc[c] = "ready" /\ field # NoUnit
  /\ began' = [began EXCEPT ![c] = field]
  /\ Goto(c, "beginning")
  /\ UNCHANGED <<field, open, ended, worked, changes, faults>>

\* begin resolves, and the operation starts.
Began(c) ==
  /\ pc[c] = "beginning" /\ open[began[c]] = "none"
  /\ open' = [open EXCEPT ![began[c]] = c]
  /\ Goto(c, "operating")
  /\ UNCHANGED <<field, ended, began, worked, changes, faults>>

\* begin rejects outside the try: there is nothing to roll back.
BeginRejects(c) ==
  /\ pc[c] = "beginning"
  /\ \/ open[began[c]] # "none" /\ UNCHANGED faults
     \/ Fault
  /\ Goto(c, "refused")
  /\ UNCHANGED <<field, open, ended, began, worked, changes>>

\* getRepository reads the field anew, and throws (into the operation) when it is cleared.
Work(c) ==
  /\ pc[c] = "operating" /\ field # NoUnit /\ field \notin worked[c]
  /\ worked' = [worked EXCEPT ![c] = @ \union {field}]
  /\ UNCHANGED <<field, open, ended, pc, began, changes, faults>>

\* commit and rollback are called on what the field holds by then; on a cleared field the call throws.
Refuses == field \in Units => open[field] = "none"
EndsOn(how) ==
  /\ ~Refuses
  /\ ended' = [ended EXCEPT ![open[field]] = how]
  /\ open' = [open EXCEPT ![field] = "none"]

OperationResolves(c) ==
  /\ pc[c] = "operating"
  /\ \/ EndsOn("committed") /\ Goto(c, "resolved") /\ UNCHANGED faults
     \/ Refuses /\ Goto(c, "catching") /\ UNCHANGED <<open, ended, faults>>
     \/ Fault /\ Goto(c, "catching") /\ UNCHANGED <<open, ended>>
  /\ UNCHANGED <<field, began, worked, changes>>

OperationRejects(c) ==
  /\ pc[c] = "operating"
  /\ Goto(c, "catching")
  /\ UNCHANGED <<field, open, ended, began, worked, changes, faults>>

Rollback_Skipped(c) ==
  /\ pc[c] = "catching"
  /\ Goto(c, "rejected")
  /\ UNCHANGED <<field, open, ended, began, worked, changes, faults>>
\* The rejection is rethrown when rollback resolves; otherwise rollback's own error hides it.
Rollback(c) ==
  /\ pc[c] = "catching"
  /\ \/ EndsOn("rolled back") /\ Goto(c, "rejected") /\ UNCHANGED faults
     \/ Refuses /\ Goto(c, "masked") /\ UNCHANGED <<open, ended, faults>>
     \/ Fault /\ Goto(c, "masked") /\ UNCHANGED <<open, ended>>
  /\ UNCHANGED <<field, began, worked, changes>>

----------------------------------------------------------------------------
Step(c) ==
  \/ NotSet(c) \/ Begin(c) \/ Began(c) \/ BeginRejects(c)
  \/ OperationResolves(c) \/ OperationRejects(c) \/ Rollback(c)
Next ==
  \/ \E u \in Units : SetUnitOfWork(u)
  \/ ClearUnitOfWork
  \/ \E c \in Calls : Step(c) \/ Work(c)
Spec == Init /\ [][Next]_vars

----------------------------------------------------------------------------
(* Properties. *)

\* Every variable has its type.
TypeOK ==
  /\ field \in Units \union {NoUnit} /\ open \in [Units -> Calls \union {"none"}]
  /\ ended \in [Calls -> {"no", "committed", "rolled back"}]
  /\ pc \in [Calls -> {"ready", "beginning", "operating", "catching",
                       "resolved", "rejected", "masked", "refused"}]
  /\ began \in [Calls -> Units \union {NoUnit}] /\ worked \in [Calls -> SUBSET Units]
  /\ changes \in 0..MaxChanges /\ faults \in 0..MaxFaults

\* While the field was not changed, a call that resolves has committed the transaction it began
\* and one that rejects with the operation's own error has rolled it back, however the calls on
\* the service overlap and whatever begin, commit and rollback do; and no call that was refused,
\* or that told its outcome, has a transaction left in progress (executeInTransaction).
Outcomes ==
  \A c \in Calls : /\ pc[c] = "resolved" => ended[c] = "committed"
                   /\ pc[c] = "rejected" => ended[c] = "rolled back"
Closed ==
  \A u \in Units : open[u] # "none" => pc[open[u]] \in {"operating", "catching", "masked"}
OutcomeIsTold == changes = 0 => Outcomes /\ Closed

\* While the field was not changed, no call ends the transaction of another one, and what an
\* operation does in repositories is part of the transaction its own call began (getRepository).
OnItsOwn ==
  \A c \in Calls :
    /\ ended'[c] # ended[c] => pc[c] \in {"operating", "catching"} /\ pc'[c] # pc[c]
    /\ worked'[c] # worked[c] => open[field] = c
KeepsToItsOwn == [][changes' = 0 => OnItsOwn]_vars
=============================================================================
