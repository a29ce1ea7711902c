-------------------------- MODULE MCRepositorySave --------------------------
(***************************************************************************)
(* RepositorySave for TLC, in three scenarios: callers whose saves exclude *)
(* each other, callers that race, and exclusive callers none of whose      *)
(* calls is rejected.                                                      *)
(***************************************************************************)
EXTENDS RepositorySave

VARIABLE part

Racing == INSTANCE RepositorySave WITH Exclusive <- FALSE, MaxFailures <- 1
Calm   == INSTANCE RepositorySave WITH MaxEvents <- 3, MaxFailures <- 0

mcvars == <<part, vars>>

MCInit == part \in {"exclusive", "racing", "calm"} /\ Init

MCNext ==
  /\ UNCHANGED part
  /\ \/ part = "exclusive" /\ Next
     \/ part = "racing" /\ Racing!Next
     \/ part = "calm" /\ Calm!Next

(* Promises settle, and a caller with unsaved changes tries to save them   *)
(* again and again.                                                        *)
MCSpec ==
  /\ MCInit /\ [][MCNext]_mcvars
  /\ \A c \in Callers :
       /\ WF_vars(part = "calm" /\ Calm!SaveStep(c))
       /\ WF_vars(part = "calm" /\ Calm!Save(c))

-----------------------------------------------------------------------------

(* When saves exclude each other, the version check keeps the stream       *)
(* without gap or repetition, a successful save leaves its copy at the     *)
(* persisted version, and no event is published twice, through conflicts   *)
(* and rejected calls at every await (base-repository.ts save).            *)
ExclusiveSaves ==
  /\ [](part = "exclusive" => StreamNumbered /\ PublishedOnce)
  /\ [][part = "exclusive" => SavesCurrent]_vars

(* When no call is rejected, every persisted event is published            *)
(* (base-repository.ts save, event-dispatcher.ts).                         *)
CalmSavesPublish == part = "calm" => PersistedGetPublished
=============================================================================
