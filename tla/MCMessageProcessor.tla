------------------------ MODULE MCMessageProcessor ------------------------
(* Instances of MessageProcessor for TLC: two messages of two types, the   *)
(* first more urgent than the second.                                      *)
EXTENDS MessageProcessor, TLC

CONSTANTS m1, m2, t1, t2, r1, r2

MCMessages == {m1, m2}
MCTypes    == {t1, t2}
MCTypeOf   == m1 :> t1 @@ m2 :> t2
MCPriority == m1 :> 2 @@ m2 :> 1
MCOneRun   == {r1}
MCTwoRuns  == {r1, r2}
RunSymmetry == Permutations(MCTwoRuns)

(* What a repository may hand out: the messages not yet processed and the  *)
(* failed ones, and those a processor that stopped left in PROCESSING.     *)
RecoveringFetch == {"PENDING", "FAILED", "PROCESSING"}

=============================================================================
