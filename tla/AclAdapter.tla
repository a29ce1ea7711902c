------------------------------- MODULE AclAdapter -------------------------------
(***************************************************************************)
(* BaseACLAdapter (acl/base-acl-adapter.ts) and its subclass               *)
(* SimpleACLAdapter: the construction of an adapter, then one call of      *)
(* execute through the middleware pipeline to the external system, with    *)
(* the race of its answer against the timeout.  The pipeline is a closure  *)
(* over one index that every call of next moves on, so a middleware that   *)
(* calls next again does not meet the middleware after it a second time.   *)
(* Middleware and the external system are external: a middleware calls     *)
(* next any number of times up to MaxNext, returns a Result or throws, and *)
(* the external system answers whenever it likes, or never.                *)
(***************************************************************************)
EXTENDS Naturals, Sequences

CONSTANTS NumMiddlewares, \* middlewares of the adapter
          MaxNext,        \* bound: times one middleware calls next
          OwnResults,     \* what a middleware may resolve to on its own
          Timeouts        \* the timeouts calls are made with: "none", "given"

AdapterAssumption ==
  /\ NumMiddlewares \in Nat /\ MaxNext \in Nat \ {0}
  /\ OwnResults \subseteq {"ok", "failed"} /\ Timeouts \subseteq {"none", "given"}

VARIABLES kind,      \* "own": a subclass with its operations in its code; "simple": SimpleACLAdapter
          phase,     \* construction: "base", "fields", "ready", "threw"
          supported, \* operations registered: "none" or "all"
          timeout,   \* options.timeout of the call
          index,     \* the pipeline's next middleware, 0-based
          stack,     \* the calls of next not returned from, as [mw, nexts], mw 0 for executeCore
          entered,   \* the middlewares entered, in order
          sent,      \* the requests to the external system
          pc,        \* "idle", "next", "middleware", "core", "waiting", "settled"
          result     \* what the last next or execute resolved to

callVars == <<timeout, index, stack, entered, sent, pc, result>>
vars == <<kind, phase, supported, callVars>>

Init ==
  /\ kind \in {"own", "simple"} /\ phase = "base" /\ supported = "none"
  /\ timeout = "none" /\ index = 0 /\ stack = <<>> /\ entered = <<>> /\ sent = <<>>
  /\ pc = "idle" /\ result = "none"

----------------------------------------------------------------------------
(* Construction. *)

\* The constructor of BaseACLAdapter calls registerSupportedOperations of the subclass before
\* the subclass has assigned its own fields: SimpleACLAdapter finds no operations there.
RegisterOperations ==
  /\ phase = "base"
  /\ IF kind = "simple" THEN phase' = "threw" /\ UNCHANGED supported
     ELSE phase' = "fields" /\ supported' = "all"
  /\ UNCHANGED <<kind, callVars>>

AssignFields ==
  /\ phase = "fields"
  /\ phase' = "ready"
  /\ UNCHANGED <<kind, supported, callVars>>

----------------------------------------------------------------------------
(* The pipeline. *)

Unchanged == UNCHANGED <<kind, phase, supported, timeout>>
Active == stack[Len(stack)]
Resolve(r) ==
  /\ result' = r
  /\ stack' = SubSeq(stack, 1, Len(stack) - 1)
  /\ pc' = IF Len(stack) = 1 THEN "settled" ELSE "middleware"

Execute ==
  /\ phase = "ready" /\ pc = "idle"
  /\ timeout' \in Timeouts
  /\ pc' = "next"
  /\ UNCHANGED <<kind, phase, supported, index, stack, entered, sent, result>>

\* next: the next middleware, or executeCore past the last one.
EnterMiddleware ==
  /\ pc = "next" /\ index < NumMiddlewares
  /\ index' = index + 1
  /\ stack' = Append(stack, [mw |-> index + 1, nexts |-> 0])
  /\ entered' = Append(entered, index + 1)
  /\ pc' = "middleware" /\ result' = "none"
  /\ UNCHANGED sent /\ Unchanged

EnterCore ==
  /\ pc = "next" /\ index >= NumMiddlewares
  /\ stack' = Append(stack, [mw |-> 0, nexts |-> 0])
  /\ pc' = "core" /\ result' = "none"
  /\ UNCHANGED <<index, entered, sent>> /\ Unchanged

CallNext ==
  /\ pc = "middleware" /\ Active.nexts < MaxNext
  /\ stack' = [stack EXCEPT ![Len(stack)].nexts = @ + 1]
  /\ pc' = "next"
  /\ UNCHANGED <<index, entered, sent, result>> /\ Unchanged

\* A middleware answers: with what next gave it, or with a Result of its own.
MiddlewareReturns ==
  /\ pc = "middleware"
  /\ \E r \in OwnResults \union (IF Active.nexts > 0 THEN {result} ELSE {}) : Resolve(r)
  /\ UNCHANGED <<index, entered, sent>> /\ Unchanged

\* A middleware throws: nothing in the pipeline turns that into a Result.
MiddlewareThrows ==
  /\ pc = "middleware"
  /\ stack' = <<>> /\ pc' = "settled" /\ result' = "threw"
  /\ UNCHANGED <<index, entered, sent>> /\ Unchanged

----------------------------------------------------------------------------
(* executeCore. *)

\* The operation is not supported, or the translation throws: a failed Result, nothing is sent.
CoreFails ==
  /\ pc = "core" /\ Resolve("failed")
  /\ UNCHANGED <<index, entered, sent>> /\ Unchanged

Send ==
  /\ pc = "core" /\ supported = "all"
  /\ sent' = Append(sent, [answer |-> "none", timer |-> timeout, told |-> "no"])
  /\ pc' = "waiting"
  /\ UNCHANGED <<index, stack, entered, result>> /\ Unchanged

\* The latest request decides what executeCore resolves to: its answer or its timer, whichever is first.
Latest(k) == k = Len(sent) /\ pc = "waiting"
Undecided(k) == sent[k].answer = "none" /\ sent[k].timer # "fired"
Decide(k, r) == IF Latest(k) /\ Undecided(k) THEN Resolve(r) ELSE UNCHANGED <<result, stack, pc>>
Told(k, r) == IF Undecided(k) THEN r ELSE sent[k].told

Answers_Late(k, r) ==
  /\ k \in 1..Len(sent) /\ sent[k].answer = "none"
  /\ sent' = [sent EXCEPT ![k].answer = r, ![k].told = r]
  /\ Decide(k, r)
  /\ UNCHANGED <<index, entered>> /\ Unchanged
Answers(k, r) ==
  /\ k \in 1..Len(sent) /\ sent[k].answer = "none"
  /\ sent' = [sent EXCEPT ![k].answer = r, ![k].told = Told(k, r)]
  /\ Decide(k, r)
  /\ UNCHANGED <<index, entered>> /\ Unchanged

\* The timer is not cleared by an answer.
TimerFires(k) ==
  /\ k \in 1..Len(sent) /\ sent[k].timer = "given"
  /\ sent' = [sent EXCEPT ![k].timer = "fired", ![k].told = Told(k, "failed")]
  /\ Decide(k, "failed")
  /\ UNCHANGED <<index, entered>> /\ Unchanged

----------------------------------------------------------------------------
Pipeline ==
  EnterMiddleware \/ EnterCore \/ CallNext \/ MiddlewareReturns \/ MiddlewareThrows \/ CoreFails \/ Send
Timers == \E k \in 1..Len(sent) : TimerFires(k)
Next ==
  \/ RegisterOperations \/ AssignFields \/ Execute \/ Pipeline \/ Timers
  \/ \E k \in 1..Len(sent) : \E r \in {"ok", "failed"} : Answers(k, r)

\* The adapter's own steps and its timers happen; the external system owes no answer.
Fairness == WF_vars(Pipeline) /\ WF_vars(Timers)
Spec == Init /\ [][Next]_vars
FairSpec == Spec /\ Fairness

----------------------------------------------------------------------------
(* Properties. *)

Requests == [answer : {"none", "ok", "failed"}, timer : {"none", "given", "fired"}, told : {"no", "ok", "failed"}]

\* Every variable has its type, and the index never passes the end of the pipeline.
TypeOK ==
  /\ kind \in {"own", "simple"} /\ phase \in {"base", "fields", "ready", "threw"}
  /\ supported \in {"none", "all"} /\ timeout \in {"none", "given"} /\ index \in 0..NumMiddlewares
  /\ stack \in Seq([mw : 0..NumMiddlewares, nexts : 0..MaxNext])
  /\ entered \in Seq(1..NumMiddlewares) /\ sent \in Seq(Requests)
  /\ pc \in {"idle", "next", "middleware", "core", "waiting", "settled"}
  /\ result \in {"none", "ok", "failed", "threw"}

\* The middlewares are entered in their order and at most once, however often next is called:
\* a middleware that retries does not run the later ones again.
EnteredInOrder == entered = [i \in 1..Len(entered) |-> i]

\* Nothing is sent to the external system before every middleware was entered.
AllEnteredBeforeSending == sent # <<>> => Len(entered) = NumMiddlewares

\* What a request resolved to is its first outcome: an answer after the timeout, or a timer
\* after the answer, changes nothing the caller was told.
FirstOutcomeStands ==
  [][\A k \in 1..Len(sent) : sent[k].told # "no" => sent'[k].told = sent[k].told]_vars

\* Where middleware invents no success of its own, a call that resolves with success was told so by the request it sent last, and in time.
SuccessWasAnswered ==
  pc = "settled" /\ result = "ok" => sent # <<>> /\ sent[Len(sent)].told = "ok" /\ sent[Len(sent)].answer = "ok"

\* A call with a timeout settles even if the external system never answers.
TimedSettles == pc = "next" /\ timeout = "given" ~> pc = "settled"
=============================================================================
