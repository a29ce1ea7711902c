--------------------------- MODULE CircuitBreaker ---------------------------
(***************************************************************************)
(* The circuit breaker capability of a projection engine                   *)
(* (capabilities/circuit-breaker-capability.ts) and the calls it guards:   *)
(* each processEvent runs onBeforeApply, then the event, then onAfterApply *)
(* or onError, and several may be under way.                               *)
(***************************************************************************)
EXTENDS Integers

CONSTANTS
  Workers,           \* concurrent calls of processEvent
  FailureThreshold, HalfOpenMaxAttempts,      \* of the configuration
  RecoveryTimeout,   \* recoveryTimeoutMs, in ticks of the clock
  Traffic,           \* how events arrive: "any", "steady" or "pausing"
  MaxCount           \* bound: where failureCount and probed saturate

BreakerAssumption ==
  /\ FailureThreshold \in Nat \ {0}
  /\ HalfOpenMaxAttempts \in Nat \ {0}
  /\ RecoveryTimeout \in Nat
  /\ Traffic \in {"any", "steady", "pausing"}
  /\ MaxCount \in Nat /\ MaxCount >= FailureThreshold
  /\ MaxCount >= HalfOpenMaxAttempts

VARIABLES
  circuit,           \* "CLOSED", "OPEN" or "HALF_OPEN"
  failureCount,
  halfOpenAttempts,
  age,               \* ticks since lastFailureTime, or Never
  pc,                \* [Workers -> Steps]
  probed,            \* calls that ended well since the circuit became half open
  healthy,           \* the projection works again, and from now on
  due                \* an event of a steady flow is to be delivered

vars == <<circuit, failureCount, halfOpenAttempts, age, pc, probed, healthy, due>>

Circuits == {"CLOSED", "OPEN", "HALF_OPEN"}
Steps    == {"idle", "running", "failing"}
Never    == RecoveryTimeout + 2

Bump(n) == IF n < MaxCount THEN n + 1 ELSE MaxCount

Goto(w, step) == pc' = [pc EXCEPT ![w] = step]

-----------------------------------------------------------------------------

Init ==
  /\ circuit = "CLOSED"
  /\ failureCount = 0
  /\ halfOpenAttempts = 0
  /\ age = Never
  /\ pc = [w \in Workers |-> "idle"]
  /\ probed = 0
  /\ healthy = FALSE
  /\ due = FALSE

(* Date.now() - lastFailureTime > recoveryTimeoutMs                        *)
ShouldAttemptReset == age # Never /\ age > RecoveryTimeout

Admit_KeepsAttempts(w) ==
  /\ Goto(w, "running")
  /\ IF circuit = "OPEN"
     THEN circuit' = "HALF_OPEN" /\ probed' = 0
     ELSE UNCHANGED <<circuit, probed>>
  /\ UNCHANGED halfOpenAttempts

Admit_Restarts(w) ==
  /\ Goto(w, "running")
  /\ IF circuit # "CLOSED"
     THEN circuit' = "HALF_OPEN" /\ halfOpenAttempts' = 0 /\ probed' = 0
     ELSE UNCHANGED <<circuit, halfOpenAttempts, probed>>

Admit(w) ==
  /\ Goto(w, "running")
  /\ IF circuit = "OPEN"
     THEN circuit' = "HALF_OPEN" /\ halfOpenAttempts' = 0 /\ probed' = 0
     ELSE UNCHANGED <<circuit, halfOpenAttempts, probed>>

(* An open circuit rejects the call, which reports that like any failure.  *)
(* Traffic that pauses gives an open circuit the time to recover.          *)
OnBeforeApply(w) ==
  /\ pc[w] = "idle"
  /\ Traffic = "pausing" /\ circuit = "OPEN" => ShouldAttemptReset
  /\ due' = FALSE
  /\ IF circuit = "OPEN" /\ ~ShouldAttemptReset
     THEN Goto(w, "failing") /\ UNCHANGED <<circuit, halfOpenAttempts, probed>>
     ELSE Admit(w)
  /\ UNCHANGED <<failureCount, age, healthy>>

(* The event is applied and saved: it calls onAfterApply.                  *)
OnAfterApply(w) ==
  /\ pc[w] = "running"
  /\ Goto(w, "idle")
  /\ CASE circuit = "HALF_OPEN" ->
            /\ probed' = Bump(probed)
            /\ IF halfOpenAttempts + 1 >= HalfOpenMaxAttempts
               THEN circuit' = "CLOSED" /\ failureCount' = 0
               ELSE UNCHANGED <<circuit, failureCount>>
            /\ halfOpenAttempts' = halfOpenAttempts + 1
       [] circuit = "CLOSED" ->
            /\ failureCount' = 0
            /\ UNCHANGED <<circuit, halfOpenAttempts, probed>>
       [] circuit = "OPEN" ->
            UNCHANGED <<circuit, failureCount, halfOpenAttempts, probed>>
  /\ UNCHANGED <<age, healthy, due>>

Fail(w) ==
  /\ pc[w] = "running"
  /\ ~healthy
  /\ Goto(w, "failing")
  /\ UNCHANGED <<circuit, failureCount, halfOpenAttempts, age, probed,
                 healthy, due>>

OnError(w) ==
  /\ pc[w] = "failing"
  /\ Goto(w, "idle")
  /\ failureCount' = Bump(failureCount)
  /\ age' = 0
  /\ circuit' = IF circuit = "HALF_OPEN" \/ failureCount + 1 >= FailureThreshold
                THEN "OPEN" ELSE circuit
  /\ UNCHANGED <<halfOpenAttempts, probed, healthy, due>>

(* The clock.  In a steady flow an event comes in before the next tick.    *)
Tick ==
  /\ ~due
  /\ due' = (Traffic = "steady")
  /\ age' = IF age <= RecoveryTimeout THEN age + 1 ELSE age
  /\ UNCHANGED <<circuit, failureCount, halfOpenAttempts, pc, probed,
                 healthy>>

Heal ==
  /\ ~healthy
  /\ healthy' = TRUE
  /\ UNCHANGED <<circuit, failureCount, halfOpenAttempts, age, pc,
                 probed, due>>

Next ==
  \/ Tick \/ Heal
  \/ \E w \in Workers :
       OnBeforeApply(w) \/ OnAfterApply(w) \/ Fail(w) \/ OnError(w)

Spec == Init /\ [][Next]_vars

(* Time passes, calls end, and events keep coming: when the circuit would  *)
(* keep letting one in, one comes.                                         *)
Fairness ==
  /\ WF_vars(Tick)
  /\ \A w \in Workers :
       /\ WF_vars(OnAfterApply(w) \/ Fail(w))
       /\ WF_vars(OnError(w))
       /\ WF_vars(OnBeforeApply(w) /\ (due \/ circuit # "OPEN" \/ ShouldAttemptReset))

FairSpec == Spec /\ Fairness

-----------------------------------------------------------------------------
(* Properties *)

TypeOK ==
  /\ circuit \in Circuits
  /\ failureCount \in 0 .. MaxCount
  /\ halfOpenAttempts \in 0 .. HalfOpenMaxAttempts
  /\ age \in 0 .. Never
  /\ pc \in [Workers -> Steps]
  /\ probed \in 0 .. MaxCount
  /\ healthy \in BOOLEAN
  /\ due \in BOOLEAN

(* A closed circuit has seen fewer consecutive failures than the           *)
(* threshold, however the ends of concurrent calls interleave.             *)
ClosedBelowThreshold == circuit = "CLOSED" => failureCount < FailureThreshold

(* A half open circuit closes after the configured number of calls ended   *)
(* well in it, not counting those of an earlier half open period.          *)
ClosesAfterProbes ==
  [][circuit = "HALF_OPEN" /\ circuit' = "CLOSED"
       => probed' >= HalfOpenMaxAttempts]_vars

(* No call gets through an open circuit before the recovery timeout.       *)
OpenRejects ==
  [][\A w \in Workers :
       circuit = "OPEN" /\ pc[w] = "idle" /\ pc'[w] = "running"
         => age > RecoveryTimeout /\ circuit' = "HALF_OPEN"]_vars

(* Once the projection works again, the circuit closes.                    *)
Recovers == [](healthy => <>(circuit = "CLOSED"))

=============================================================================
