------------------------------ MODULE EventBus ------------------------------
(***************************************************************************)
(* One event type on a bus (core/events/base-event-bus.ts) and on the      *)
(* integration bus (integration/in-memory-integraton-event-bus.ts), which  *)
(* also filters by context.  publish calls the handlers one after another  *)
(* without an await, so that handlers (which may subscribe, unsubscribe    *)
(* and publish) run nested; then it awaits the promises they returned.     *)
(* The handlers of a type are a JavaScript Set, iterated live in the order *)
(* of insertion: an insertion is stamped by a clock.  All that the types   *)
(* of a bus share is the context of a handler, so that the other types are *)
(* in the model as subscriptions that set it (SubscribeElsewhere).         *)
(***************************************************************************)
EXTENDS Integers, Sequences, FiniteSets, FiniteSetsExt

CONSTANTS
  Handlers,
  Publications,      \* calls of publish
  Contexts,          \* bounded contexts
  None,              \* no context
  Filtering,         \* BOOLEAN: the bus is the integration bus
  OnError,           \* BOOLEAN: options.onError is given, and does not throw
  MaxStamps,         \* bound: insertions
  MaxSets,           \* bound: Set objects created
  MaxFailures        \* bound: handlers that throw or reject

BusAssumption ==
  /\ None \notin Contexts
  /\ Filtering \in BOOLEAN /\ OnError \in BOOLEAN
  /\ {MaxStamps, MaxSets, MaxFailures} \subseteq Nat

VARIABLES
  sets,              \* [1 .. MaxSets -> [Handlers -> stamp, 0: absent]]
  created,           \* how many Sets were created
  current,           \* the Set in the map `handlers', 0: none
  clock,             \* the last stamp
  contextOf,         \* handlerContexts: [Handlers -> Contexts \cup {None}]
  given,             \* the context each subscription in force was made with
  elsewhere,         \* the context given under another type since, if any
  stack,             \* publications in their synchronous part, top first
  pc,                \* [Publications -> Steps]
  target,            \* [Publications -> metadata.targetContext]
  over,              \* [Publications -> the Set iterated over]
  cursor,            \* [Publications -> stamp of the handler reached]
  promises,          \* [Publications -> stamps of calls not settled]
  calls,             \* [Publications -> {<<handler, stamp>>}]
  expected,          \* [Publications -> handlers subscribed since its start]
  renewed,           \* [Publications -> handlers subscribed anew since then]
  troubled,          \* publications some handler of which threw or rejected
  informed,          \* publications an error of which onError or the caller got
  failures

vars == <<sets, created, current, clock, contextOf, given, elsewhere, stack, pc, target,
          over, cursor, promises, calls, expected, renewed, troubled, informed, failures>>

registry == <<sets, created, current, clock, contextOf, given, elsewhere>>

Steps   == {"idle", "calling", "inside", "awaiting", "resolved", "rejected", "abandoned"}
Settled == {"resolved", "rejected", "abandoned"}

Subscribed == IF current = 0 THEN {} ELSE {h \in Handlers : sets[current][h] > 0}

(* User code runs outside of any publish, or in the handler just called.   *)
UserCode == stack # <<>> => pc[Head(stack)] = "inside"

OnTop(p) == stack # <<>> /\ Head(stack) = p

Goto(p, step) == pc' = [pc EXCEPT ![p] = step]

Wants(h, t) == ~Filtering \/ t = None \/ given[h] \in {None, t}

Init ==
  /\ sets = [i \in 1 .. MaxSets |-> [h \in Handlers |-> 0]]
  /\ created = 0 /\ current = 0 /\ clock = 0
  /\ contextOf = [h \in Handlers |-> None]
  /\ given = [h \in Handlers |-> None]
  /\ elsewhere = [h \in Handlers |-> None]
  /\ stack = <<>>
  /\ pc = [p \in Publications |-> "idle"]
  /\ target = [p \in Publications |-> None]
  /\ over = [p \in Publications |-> 0]
  /\ cursor = [p \in Publications |-> 0]
  /\ promises = [p \in Publications |-> {}]
  /\ calls = [p \in Publications |-> {}]
  /\ expected = [p \in Publications |-> {}]
  /\ renewed = [p \in Publications |-> {}]
  /\ troubled = {} /\ informed = {} /\ failures = 0

-----------------------------------------------------------------------------

(* Set.add: nothing happens when the handler is there.                     *)
Insert(h) ==
  IF h \in Subscribed
  THEN UNCHANGED <<sets, created, current, clock, renewed>>
  ELSE LET i == IF current = 0 THEN created + 1 ELSE current
       IN  /\ i <= MaxSets /\ clock < MaxStamps
           /\ created' = IF current = 0 THEN i ELSE created
           /\ current' = i
           /\ clock' = clock + 1
           /\ sets' = [sets EXCEPT ![i][h] = clock + 1]
           /\ renewed' = [p \in Publications |-> renewed[p] \cup {h}]

Subscribe(h, c) ==
  /\ UserCode
  /\ Insert(h)
  /\ contextOf' = IF c = None THEN contextOf ELSE [contextOf EXCEPT ![h] = c]
  /\ given' = IF c = None /\ h \in Subscribed THEN given ELSE [given EXCEPT ![h] = c]
  /\ elsewhere' = IF c = None THEN elsewhere ELSE [elsewhere EXCEPT ![h] = None]
  /\ UNCHANGED <<stack, pc, target, over, cursor, promises, calls, expected,
                 troubled, informed, failures>>

(* The handler is subscribed under another type of event, for a context:   *)
(* handlerContexts has the handler for its key and not the type.           *)
SubscribeElsewhere(h, c) ==
  /\ UserCode
  /\ contextOf' = [contextOf EXCEPT ![h] = c]
  /\ elsewhere' = [elsewhere EXCEPT ![h] = c]
  /\ UNCHANGED <<sets, created, current, clock, given, stack, pc, target, over, cursor,
                 promises, calls, expected, renewed, troubled, informed, failures>>

Unsubscribe(h) ==
  /\ UserCode
  /\ h \in Subscribed
  /\ sets' = [sets EXCEPT ![current][h] = 0]
  /\ current' = IF Subscribed = {h} THEN 0 ELSE current
  /\ expected' = [p \in Publications |-> expected[p] \ {h}]
  /\ UNCHANGED <<created, clock, contextOf, given, elsewhere, stack, pc, target, over,
                 cursor, promises, calls, renewed, troubled, informed, failures>>

(* A publication under way goes on over the Set that left the map.         *)
ClearHandlers ==
  /\ UserCode
  /\ current # 0
  /\ current' = 0
  /\ expected' = [p \in Publications |-> {}]
  /\ UNCHANGED <<sets, created, clock, contextOf, given, elsewhere, stack, pc, target,
                 over, cursor, promises, calls, renewed, troubled, informed, failures>>

Publish(p, t) ==
  /\ UserCode
  /\ pc[p] = "idle"
  /\ target' = [target EXCEPT ![p] = t]
  /\ over' = [over EXCEPT ![p] = current]
  /\ expected' = [expected EXCEPT ![p] = {h \in Subscribed : Wants(h, t)}]
  /\ renewed' = [renewed EXCEPT ![p] = {}]
  /\ IF Subscribed = {}
     THEN Goto(p, "resolved") /\ UNCHANGED stack
     ELSE Goto(p, "calling") /\ stack' = <<p>> \o stack
  /\ UNCHANGED <<registry, cursor, promises, calls, troubled, informed, failures>>

Ahead(p) == {h \in Handlers : sets[over[p]][h] > cursor[p]}

Accepts(h, t) == ~Filtering \/ t = None \/ contextOf[h] \in {None, t}

(* The next handler of the Set is called, or filtered out.                 *)
CallHandler(p) ==
  /\ OnTop(p) /\ pc[p] = "calling"
  /\ \E h \in Ahead(p) :
       LET s == sets[over[p]][h]
       IN  /\ \A other \in Ahead(p) : s <= sets[over[p]][other]
           /\ cursor' = [cursor EXCEPT ![p] = s]
           /\ IF Accepts(h, target[p])
              THEN /\ Goto(p, "inside")
                   /\ calls' = [calls EXCEPT ![p] = @ \cup {<<h, s>>}]
              ELSE UNCHANGED <<pc, calls>>
  /\ UNCHANGED <<registry, stack, target, over, promises, expected, renewed,
                 troubled, informed, failures>>

Returns(p) ==
  /\ OnTop(p) /\ pc[p] = "inside"
  /\ Goto(p, "calling")
  /\ \/ promises' = [promises EXCEPT ![p] = @ \cup {cursor[p]}]
     \/ UNCHANGED promises
  /\ UNCHANGED <<registry, stack, target, over, cursor, calls, expected, renewed,
                 troubled, informed, failures>>

Throws_EndsLoop(p) ==
  /\ OnTop(p) /\ pc[p] = "inside"
  /\ failures < MaxFailures
  /\ failures' = failures + 1
  /\ troubled' = troubled \cup {p} /\ informed' = informed \cup {p}
  /\ stack' = Tail(stack)
  /\ Goto(p, IF promises[p] = {} THEN "resolved" ELSE "awaiting")
  /\ UNCHANGED <<registry, target, over, cursor, promises, calls, expected, renewed>>

(* Without onError the error ends the loop: promises already there are not *)
(* awaited by anybody.                                                     *)
Throws(p) ==
  /\ OnTop(p) /\ pc[p] = "inside"
  /\ failures < MaxFailures
  /\ failures' = failures + 1
  /\ troubled' = troubled \cup {p} /\ informed' = informed \cup {p}
  /\ IF OnError
     THEN Goto(p, "calling") /\ UNCHANGED stack
     ELSE Goto(p, "abandoned") /\ stack' = Tail(stack)
  /\ UNCHANGED <<registry, target, over, cursor, promises, calls, expected, renewed>>

EndLoop(p) ==
  /\ OnTop(p) /\ pc[p] = "calling"
  /\ Ahead(p) = {}
  /\ stack' = Tail(stack)
  /\ Goto(p, IF promises[p] = {} THEN "resolved" ELSE "awaiting")
  /\ UNCHANGED <<registry, target, over, cursor, promises, calls, expected, renewed,
                 troubled, informed, failures>>

Fulfil_Miscounts(p, s) ==
  /\ stack = <<>>
  /\ s \in promises[p]
  /\ promises' = [promises EXCEPT ![p] = @ \ {s}]
  /\ IF pc[p] = "awaiting" /\ promises[p] = {} THEN Goto(p, "resolved") ELSE UNCHANGED pc
  /\ UNCHANGED <<registry, stack, target, over, cursor, calls, expected, renewed,
                 troubled, informed, failures>>

Fulfil(p, s) ==
  /\ stack = <<>>
  /\ s \in promises[p]
  /\ promises' = [promises EXCEPT ![p] = @ \ {s}]
  /\ IF pc[p] = "awaiting" /\ promises[p] = {s} THEN Goto(p, "resolved") ELSE UNCHANGED pc
  /\ UNCHANGED <<registry, stack, target, over, cursor, calls, expected, renewed,
                 troubled, informed, failures>>

(* Promise.all rejects with the first rejection, which the integration bus *)
(* does not take to onError; of those after it nobody hears.               *)
Reject(p, s) ==
  /\ stack = <<>>
  /\ s \in promises[p]
  /\ failures < MaxFailures
  /\ failures' = failures + 1
  /\ promises' = [promises EXCEPT ![p] = @ \ {s}]
  /\ troubled' = troubled \cup {p}
  /\ IF pc[p] = "awaiting"
     THEN /\ Goto(p, IF OnError /\ ~Filtering THEN "resolved" ELSE "rejected")
          /\ informed' = informed \cup {p}
     ELSE UNCHANGED <<pc, informed>>
  /\ UNCHANGED <<registry, stack, target, over, cursor, calls, expected, renewed>>

Progress(p) ==
  \/ CallHandler(p) \/ Returns(p) \/ Throws(p) \/ EndLoop(p)
  \/ \E s \in 1 .. MaxStamps : Fulfil(p, s) \/ Reject(p, s)

Next ==
  \/ \E h \in Handlers : Unsubscribe(h)
  \/ \E h \in Handlers, c \in Contexts \cup {None} : Subscribe(h, c)
  \/ \E h \in Handlers, c \in Contexts : SubscribeElsewhere(h, c)
  \/ ClearHandlers
  \/ \E p \in Publications, t \in Contexts \cup {None} : Publish(p, t)
  \/ \E p \in Publications : Progress(p)

Spec == Init /\ [][Next]_vars

(* Handlers return and their promises settle.                              *)
FairSpec == Spec /\ \A p \in Publications : WF_vars(Progress(p))

-----------------------------------------------------------------------------
(* Properties *)

TypeOK ==
  /\ sets \in [1 .. MaxSets -> [Handlers -> 0 .. MaxStamps]]
  /\ current \in 0 .. created /\ created \in 0 .. MaxSets
  /\ clock \in 0 .. MaxStamps
  /\ {contextOf, given, elsewhere} \subseteq [Handlers -> Contexts \cup {None}]
  /\ pc \in [Publications -> Steps]
  /\ \A p \in Publications :
       /\ p \in {stack[i] : i \in DOMAIN stack} <=> pc[p] \in {"calling", "inside"}
       /\ promises[p] \subseteq 1 .. cursor[p]
  /\ current # 0 => Subscribed # {}

(* "Publish an event to all subscribed handlers": when the calls are over, *)
(* each handler subscribed from the start on was called, whoever threw,    *)
(* subscribed or unsubscribed meanwhile.                                   *)
EveryHandlerCalled ==
  \A p \in Publications :
    pc[p] \in {"awaiting"} \cup Settled
      => expected[p] \subseteq {call[1] : call \in calls[p]}

(* A publication calls a handler a second time only when it was subscribed *)
(* anew while the calls were made.                                         *)
CalledOnce ==
  \A p \in Publications : \A c, d \in calls[p] :
    c[1] = d[1] /\ c # d => c[1] \in renewed[p]

(* Handlers are called in the order in which they subscribed.              *)
CalledInOrder ==
  \A p \in Publications :
    OnTop(p) /\ pc[p] = "calling" =>
      \A h \in expected[p] :
        \A c \in calls[p] :
          over[p] = current /\ sets[current][h] < c[2]
            => \E d \in calls[p] : d[1] = h

(* A publication that resolved without an error waited for every handler.  *)
ResolvedMeansHandled ==
  \A p \in Publications :
    pc[p] = "resolved" /\ p \notin troubled => promises[p] = {}

(* Of every publication with a handler that threw or rejected somebody     *)
(* hears an error, onError or who published: the handler is still running  *)
(* while the promises are awaited, or one before it had an error as well.  *)
(* Of the errors after the first rejection nobody hears.                   *)
TroubleIsTold == troubled \subseteq informed

(* onError takes the errors of the handlers: publish does not reject.      *)
OnErrorTakesErrors ==
  OnError => \A p \in Publications : pc[p] \notin {"rejected", "abandoned"}

(* A handler gets no event targeted at another context than the one it was *)
(* subscribed for, unless it was subscribed for that context under another *)
(* type of event since: then the bus takes the later context for both.     *)
NoForeignEvents ==
  [][\A p \in Publications : \A call \in calls'[p] \ calls[p] :
       Wants(call[1], target[p]) \/ elsewhere[call[1]] = target[p]]_vars

(* When insertions come to an end, as they do here at MaxStamps, every     *)
(* publication settles.  The hypothesis is needed: the loop goes over a    *)
(* live Set, and a handler that leaves and subscribes again is called      *)
(* again, for ever if it always does so.                                   *)
PublicationsSettle ==
  <>[][clock' = clock]_clock =>
    \A p \in Publications : pc[p] = "calling" ~> pc[p] \in Settled

=============================================================================
