--------------------------- MODULE MCProjections ---------------------------
(***************************************************************************)
(* The projections for TLC, in one run of seven parts: the plain engine,   *)
(* the retrying one with checkpoints, the retrying one with a dead letter  *)
(* store, calls of a plain engine that overlap, the breaker under any      *)
(* traffic and under traffic that pauses, and the hub of several engines.  *)
(* A behaviour moves one part.                                             *)
(***************************************************************************)
EXTENDS Integers, Sequences, FiniteSets, SequencesExt

CONSTANTS
  Workers, Calls,               \* of engines with one call at a time, of the others
  CheckpointEvery, Attempts, LettersFrom,        \* of the capabilities
  Arrivals, RetriedArrivals,    \* bounds: events
  Rebuilds, Rejections, RetriedRejections, OverlapRejections,     \* bounds
  FailureThreshold, HalfOpenMaxAttempts, RecoveryTimeout, MaxCount,
  Projections, Narrow,          \* the names of projections, those of few events
  Events, FewEvents, SnapshotEvery,
  Engines, Dispatches, HubRejections, Restarts       \* bounds

VARIABLES moving,
  stored, checkpoint, counter, deadLetters, arrived, step, rest, local, attempt,
  failed, torn, rebuilds, rejected,
  together,  \* history: events in flight while another call was under way
  circuit, failureCount, halfOpenAttempts, age, calls, probed, healthy, due,
  engines, builders, registered, events, at, reported, owed, models, snapshots,
  rejections, restarts

Plain == INSTANCE ProjectionEngine
  WITH Overlapping <- FALSE, Enhanced <- FALSE, RetryableErrors <- {},
       MaxAttempts <- 1, Interval <- CheckpointEvery, DeadLetterFrom <- LettersFrom,
       MaxEvents <- Arrivals, MaxRebuilds <- Rebuilds, MaxFailures <- Rejections,
       published <- arrived, pc <- step, failures <- rejected

Retrying == INSTANCE ProjectionEngine
  WITH Overlapping <- FALSE, Enhanced <- TRUE, RetryableErrors <- {"ProjectionError"},
       MaxAttempts <- Attempts, Interval <- CheckpointEvery, DeadLetterFrom <- LettersFrom,
       MaxEvents <- RetriedArrivals, MaxRebuilds <- Rebuilds,
       MaxFailures <- RetriedRejections,
       published <- arrived, pc <- step, failures <- rejected

Letters == INSTANCE ProjectionEngine
  WITH Overlapping <- FALSE, Enhanced <- TRUE, RetryableErrors <- {"ProjectionError"},
       MaxAttempts <- Attempts, Interval <- 0, DeadLetterFrom <- LettersFrom,
       MaxEvents <- RetriedArrivals, MaxRebuilds <- 0, MaxFailures <- RetriedRejections,
       published <- arrived, pc <- step, failures <- rejected

Overlap == INSTANCE ProjectionEngine
  WITH Workers <- Calls, Overlapping <- TRUE, Enhanced <- FALSE, RetryableErrors <- {},
       MaxAttempts <- 1, Interval <- 0, DeadLetterFrom <- LettersFrom,
       MaxEvents <- RetriedArrivals, MaxRebuilds <- Rebuilds,
       MaxFailures <- OverlapRejections,
       published <- arrived, pc <- step, failures <- rejected

AnyTraffic == INSTANCE CircuitBreaker
  WITH Workers <- Calls, Traffic <- "any", pc <- calls

Pausing == INSTANCE CircuitBreaker
  WITH Workers <- Calls, Traffic <- "pausing", pc <- calls

Hub == INSTANCE ProjectionHub
  WITH Handled <- [p \in Projections |-> IF p \in Narrow THEN FewEvents ELSE Events],
       Interval <- SnapshotEvery, Careful <- TRUE, MaxEngines <- Engines,
       MaxEvents <- Dispatches, MaxFailures <- HubRejections, MaxRestarts <- Restarts,
       stored <- models, failures <- rejections

ASSUME EnginesAssumption ==
  /\ Plain!ProjectionAssumption /\ Retrying!ProjectionAssumption
  /\ Letters!ProjectionAssumption /\ Overlap!ProjectionAssumption
ASSUME PartsAssumption ==
  AnyTraffic!BreakerAssumption /\ Pausing!BreakerAssumption /\ Hub!HubAssumption

OneCallAtATime == {"plain", "retrying", "letters"}

engine == <<stored, checkpoint, counter, deadLetters, arrived, step, rest, local,
            attempt, failed, torn, rebuilds, rejected>>
breaker == <<circuit, failureCount, halfOpenAttempts, age, calls, probed,
             healthy, due>>
hub == <<engines, builders, registered, events, at, reported, owed, models,
         snapshots, rejections, restarts>>
projections == <<moving, engine, together, breaker, hub>>

ProjectionsInit ==
  /\ moving \in OneCallAtATime \cup {"overlap", "any", "pausing", "hub"}
  /\ IF moving = "overlap" THEN Overlap!Init ELSE Plain!Init
  /\ AnyTraffic!Init /\ Hub!Init
  /\ together = {}

(* The events of calls under way at once.                                  *)
InFlightTogether ==
  LET UnderWay == {w \in Calls : step'[w] # "idle"}
  IN  UNION {ToSet(rest'[w]) : w \in {v \in UnderWay : UnderWay # {v}}}

OverlapNext ==
  /\ Overlap!Next
  /\ together' = together \cup InFlightTogether

ProjectionsNext ==
  /\ UNCHANGED moving
  /\ \/ /\ \/ moving = "plain" /\ Plain!Next
           \/ moving = "retrying" /\ Retrying!Next
           \/ moving = "letters" /\ Letters!Next
        /\ UNCHANGED <<together, breaker, hub>>
     \/ moving = "overlap" /\ OverlapNext /\ UNCHANGED <<breaker, hub>>
     \/ /\ \/ moving = "any" /\ AnyTraffic!Next
           \/ moving = "pausing" /\ Pausing!Next
        /\ UNCHANGED <<engine, together, hub>>
     \/ moving = "hub" /\ Hub!Next /\ UNCHANGED <<engine, together, breaker>>

EngineStep(w) ==
  \/ moving = "plain" /\ Plain!Step(w)
  \/ moving = "retrying" /\ Retrying!Step(w)
  \/ moving = "letters" /\ Letters!Step(w)

(* Calls of the stores are answered; the breaker's fairness is its own.    *)
ProjectionsSpec ==
  /\ ProjectionsInit /\ [][ProjectionsNext]_projections
  /\ \A w \in Workers : WF_engine(EngineStep(w))
  /\ moving = "pausing" => Pausing!Fairness

-----------------------------------------------------------------------------
(* The properties of the parts they are stated for. *)

(* What happens to an event and what the read model shows of it agree: an  *)
(* event whose processing ended well is in it, once and in order, and a    *)
(* dead letter is not; when calls overlap, only events in flight together  *)
(* may be missing; every engine registered for an event applies it or has  *)
(* its own error swallowed, whatever the others do; the variables of every *)
(* part keep their types (projection-engine.ts processEvent, rebuild;      *)
(* dead-letter-capability.ts; projection-processor.ts).                    *)
ReadModelRight ==
  /\ moving = "plain" => Plain!TypeOK /\ Plain!NoUpdateLost /\ Plain!AppliedInOrder
  /\ moving = "retrying" => Retrying!TypeOK /\ Retrying!AppliedOnce
  /\ moving = "letters" => Letters!TypeOK /\ Letters!DeadLettersUnapplied
  /\ moving = "overlap" => Overlap!TypeOK /\ Overlap!Settled \ together \subseteq Overlap!InModel
  /\ moving = "hub" => Hub!TypeOK /\ Hub!EveryEngineServed
  /\ moving \in {"any", "pausing"} => AnyTraffic!TypeOK

(* One call at a time, each published event ends in the read model or as a *)
(* failure, however often it is retried (projection-engine.ts processEvent,*)
(* executeWithRetry).                                                      *)
EventsSettle == moving \in OneCallAtATime => Plain!EveryEventSettles

(* However the hooks of concurrent calls interleave, the circuit is closed *)
(* only below the threshold and opens and closes by its rules              *)
(* (circuit-breaker-capability.ts).                                        *)
CircuitByTheRules ==
  /\ [](moving = "any" => AnyTraffic!ClosedBelowThreshold)
  /\ AnyTraffic!ClosesAfterProbes
  /\ AnyTraffic!OpenRejects

(* When traffic pauses for longer than the recovery timeout, the circuit   *)
(* closes once the projection works again (circuit-breaker-capability.ts   *)
(* onBeforeApply).                                                         *)
CircuitRecovers == moving = "pausing" => Pausing!Recovers

(* An engine resumes from what it stored: resuming from a checkpoint       *)
(* misses no event, and the snapshots of engines that are resumed before   *)
(* they serve are read models whose versions grow, over failures, restarts *)
(* and engines in place of others (checkpoint-capability.ts;               *)
(* snapshot-capability.ts; projection.builder.ts).                         *)
StoredResumes ==
  /\ Plain!CheckpointResumes
  /\ [](moving = "hub" => Hub!SnapshotsResume)
=============================================================================
