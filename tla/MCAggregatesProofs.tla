------------------------- MODULE MCAggregatesProofs -------------------------
(* Theorems about the aggregates as they are checked together: for any     *)
(* capabilities, lists, versions and bounds; and, at the end, about the    *)
(* comparison of objects (LibUtils.deepEqual).                             *)
EXTENDS MCAggregates, AggregateRootProofs, DeepEqual, FiniteSetTheorems

-----------------------------------------------------------------------------
(* The aggregate *)

(* The theorems about AggregateRoot hold of the one that takes liberties.  *)
P == INSTANCE AggregateRootProofs
  WITH Calls <- {k1, k2}, Builds <- {{"eventSourcing"}},
       Offered <- {"eventSourcing"},
       Liberties <- {"overlap", "reload", "dirty", "reuse"},
       MaxEvents <- 2, MaxState <- 2, MaxWrappers <- 0

LEMMA FreeAssumption == P!AggregateAssumption
BY AggregateAssumption DEF P!AggregateAssumption, P!Capabilities

LEMMA FreeSteps ==
  /\ Free!Init => P!Init
  /\ Free!Next => P!Next
<1> USE DEF P!Id, Free!Id, P!Ids, Free!Ids, P!Fail, Free!Fail, P!Allowed, Free!Allowed,
     P!Quiet, Free!Quiet, P!Accounted, Free!Accounted, P!HasChanges, Free!HasChanges,
     P!New, Free!New, P!Log, Free!Log, P!Wrapped, Free!Wrapped,
     P!object, Free!object, P!audit, Free!audit, P!call, Free!call
<1>1. Free!Init => P!Init
  BY DEF P!Init, Free!Init
<1>2. Free!Construct => P!Construct
  BY DEF P!Construct, Free!Construct
<1>3. \A name : Free!AddCapability(name) => P!AddCapability(name)
  BY DEF P!AddCapability, Free!AddCapability
<1>4. \A name : Free!RemoveCapability(name) => P!RemoveCapability(name)
  BY DEF P!RemoveCapability, Free!RemoveCapability
<1>5. Free!Apply => P!Apply
  BY DEF P!Apply, Free!Apply, P!Blocked, Free!Blocked, P!Applied, Free!Applied
<1>6. Free!CreateSnapshot => P!CreateSnapshot
  BY DEF P!CreateSnapshot, Free!CreateSnapshot
<1>7. Free!RestoreFromSnapshot => P!RestoreFromSnapshot
  BY DEF P!RestoreFromSnapshot, Free!RestoreFromSnapshot
<1>8. \A k, what, events, version : Free!Call(k, what, events, version)
                                      => P!Call(k, what, events, version)
  BY DEF P!Call, Free!Call
<1>9. \A k : /\ Free!SaveToEventStore(k) => P!SaveToEventStore(k)
             /\ Free!LoadFromEventStore(k) => P!LoadFromEventStore(k)
             /\ Free!RebuildFromVersion(k) => P!RebuildFromVersion(k)
  BY <1>8 DEF P!SaveToEventStore, Free!SaveToEventStore, P!LoadFromEventStore,
     Free!LoadFromEventStore, P!RebuildFromVersion, Free!RebuildFromVersion
<1>10. \A k : Free!StoreAnswers(k) => P!StoreAnswers(k)
  BY DEF P!StoreAnswers, Free!StoreAnswers
<1>11. \A events : Free!Replay(events) => P!Replay(events)
  BY DEF P!Replay, Free!Replay, P!IdsInOrder, Free!IdsInOrder, P!Replayed, Free!Replayed,
     P!ReplayAborted, Free!ReplayAborted
<1>12. \A k : Free!Return(k) => P!Return(k)
  BY <1>11 DEF P!Return, Free!Return, P!Committed, Free!Committed
<1>13. P!Capabilities = Free!Capabilities
  BY DEF P!Capabilities, Free!Capabilities
<1>14. Free!Next => P!Next
  BY <1>2, <1>3, <1>4, <1>5, <1>6, <1>7, <1>9, <1>10, <1>12, <1>13 DEF P!Next, Free!Next
<1> QED
  BY <1>1, <1>14

LEMMA FreeProperties ==
  /\ P!TypeOK => Free!TypeOK
  /\ P!StoreNumbered => StoreNumbered
<1>1. P!TypeOK => Free!TypeOK
  BY DEF P!TypeOK, Free!TypeOK, P!Id, Free!Id, P!Event, Free!Event, P!Aggregate, Free!Aggregate,
     P!Capabilities, Free!Capabilities, P!Steps, Free!Steps, P!Kinds, Free!Kinds
<1>2. P!StoreNumbered => StoreNumbered
  BY DEF P!StoreNumbered, StoreNumbered
<1> QED
  BY <1>1, <1>2

(* A part stays what it is, and behaves as its specification says.         *)
LEMMA PartsStay ==
  ASSUME [MCNext]_mcvars
  PROVE  /\ part' = part
         /\ ~(part = "free") => [Next]_vars
         /\ part = "free" => [P!Next]_P!vars
         /\ [Upcasting!Next]_upcasting
         /\ [Tools!Next]_tools
<1>1. part = "free" => [P!Next]_vars
  BY FreeSteps DEF MCNext, mcvars
<1>2. vars = P!vars /\ vars' = P!vars'
  BY DEF vars, P!vars
<1> QED
  BY <1>1, <1>2 DEF MCNext, mcvars

LEMMA PartsAre ==
  /\ MCSpec /\ ~(part = "free") => [](~(part = "free")) /\ Spec
  /\ MCSpec /\ part = "free" => [](part = "free") /\ P!Spec
<1>1. MCInit => (~(part = "free") => Init) /\ (part = "free" => P!Init)
  BY FreeSteps DEF MCInit
<1>2. [MCNext]_mcvars => /\ part' = part
                         /\ ~(part = "free") => [Next]_vars
                         /\ part = "free" => [P!Next]_P!vars
  BY PartsStay
<1>3. [MCNext]_mcvars => /\ ~(part = "free") => (~(part = "free"))'
                         /\ part = "free" => (part = "free")'
  BY <1>2
<1> QED
  BY <1>1, <1>2, <1>3, PTL DEF MCSpec, Spec, P!Spec

-----------------------------------------------------------------------------
(* The raising of events *)

LEMMA GreatestIs ==
  ASSUME NEW S \in SUBSET Upcasting!EventVersions, S # {}
  PROVE  Upcasting!Greatest(S) \in S /\ \A v \in S : v <= Upcasting!Greatest(S)
<1>0. MaxVersion \in Nat /\ S \subseteq 1 .. MaxVersion
  BY UpcastingAssumption DEF Upcasting!MaxVersionAssumption, Upcasting!EventVersions
<1>1. \E v \in S : \A w \in S : w <= v
  <2> SUFFICES ASSUME \A v \in S : \E w \in S : ~(w <= v) PROVE FALSE
    OBVIOUS
  <2> DEFINE Below == {n \in Nat : \E v \in S : n <= v}
  <2>1. 0 \in Below
    <3>1. PICK v \in S : TRUE
      OBVIOUS
    <3> QED
      BY <1>0, <3>1
  <2>2. ASSUME NEW n \in Nat, n \in Below PROVE n + 1 \in Below
    <3>1. PICK v \in S : n <= v
      BY <2>2
    <3>2. PICK w \in S : ~(w <= v)
      OBVIOUS
    <3> QED
      BY <1>0, <3>1, <3>2
  <2> HIDE DEF Below
  <2>3. \A n \in Nat : n \in Below
    BY <2>1, <2>2, InductionOnNat
  <2>4. MaxVersion + 1 \in Below
    BY <1>0, <2>3
  <2> QED
    BY <1>0, <2>4 DEF Below
<1> QED
  BY <1>1 DEF Upcasting!Greatest

LEMMA LatestIs ==
  ASSUME NEW S \in SUBSET Upcasting!EventVersions, upcasters = S
  PROVE  /\ Upcasting!LatestVersion \in 1 .. MaxVersion + 1
         /\ S = {} => Upcasting!LatestVersion = 1
<1>0. MaxVersion \in Nat /\ S \subseteq 1 .. MaxVersion
  BY UpcastingAssumption DEF Upcasting!MaxVersionAssumption, Upcasting!EventVersions
<1>1. S # {} => Upcasting!Greatest(S) \in S
  BY GreatestIs
<1>2. Upcasting!LatestVersion = IF S = {} THEN 1 ELSE Upcasting!Greatest(S) + 1
  BY DEF Upcasting!LatestVersion
<1>3. S # {} => Upcasting!Greatest(S) \in 1 .. MaxVersion
  BY <1>0, <1>1
<1> QED
  BY <1>0, <1>2, <1>3

(* While an event is raised, it is as far above its own version as it went *)
(* through upcasters, and below the latest.                                *)
RaisingInv ==
  /\ Upcasting!TypeOK
  /\ step # "idle" => outcome = "none"
  /\ Upcasting!RaisedStepByStep
  /\ Upcasting!HandledAtLatest
  /\ step = "raising" => /\ current < Upcasting!LatestVersion
                         /\ current = Upcasting!Starting(source) + Len(path)

LEMMA RaisingInit ==
  ASSUME Upcasting!Init
  PROVE  RaisingInv
<1>1. MaxVersion \in Nat
  BY UpcastingAssumption DEF Upcasting!MaxVersionAssumption
<1> QED
  BY <1>1 DEF Upcasting!Init, Upcasting!Unversioned, RaisingInv, Upcasting!TypeOK,
     Upcasting!RaisedStepByStep, Upcasting!HandledAtLatest

LEMMA RaisingStep ==
  ASSUME RaisingInv, [Upcasting!Next]_upcasting
  PROVE  RaisingInv'
<1> USE DEF Upcasting!Unversioned
<1> DEFINE Latest == Upcasting!LatestVersion
           Kept == UNCHANGED upcasters
<1>0. /\ MaxVersion \in Nat /\ MaxVersion >= 1 /\ Upcasting!EventVersions = 1 .. MaxVersion
      /\ Upcasting!TypeOK /\ upcasters \in SUBSET Upcasting!EventVersions
      /\ Latest \in 1 .. MaxVersion + 1 /\ (upcasters = {} => Latest = 1)
  BY UpcastingAssumption, LatestIs
  DEF Upcasting!MaxVersionAssumption, Upcasting!EventVersions, RaisingInv, Upcasting!TypeOK
<1>1. UNCHANGED upcasters => Latest' = Latest
  BY DEF Upcasting!LatestVersion
<1> HIDE DEF Latest
<1>2. ASSUME NEW v \in Upcasting!EventVersions, Upcasting!RegisterUpcaster(v)
      PROVE  RaisingInv'
  BY <1>0, <1>2 DEF RaisingInv, Upcasting!RegisterUpcaster, Upcasting!TypeOK,
     Upcasting!RaisedStepByStep, Upcasting!HandledAtLatest
<1>3. ASSUME NEW v \in Upcasting!EventVersions \cup {0}, Upcasting!RegisterHandler(v)
      PROVE  RaisingInv'
  BY <1>0, <1>3 DEF RaisingInv, Upcasting!RegisterHandler, Upcasting!TypeOK,
     Upcasting!RaisedStepByStep, Upcasting!HandledAtLatest
<1>4. CASE Upcasting!Detach
  BY <1>0, <1>4 DEF RaisingInv, Upcasting!Detach, Upcasting!TypeOK,
     Upcasting!RaisedStepByStep, Upcasting!HandledAtLatest
<1>5. ASSUME NEW v \in Upcasting!EventVersions \cup {0}, Upcasting!Begin(v),
             origin' \in {"stored", "applied"}
      PROVE  RaisingInv'
  <2>1. v \in 0 .. MaxVersion /\ Upcasting!Starting(v) \in 1 .. MaxVersion
    BY <1>0 DEF Upcasting!Starting
  <2>2. /\ source' = v /\ path' = <<>> /\ outcome' = "none" /\ upcasters' = upcasters
        /\ handlers' = handlers /\ Latest' = Latest
    BY <1>1, <1>5 DEF Upcasting!Begin
  <2>3. Len(path') = 0 /\ path' \in Seq(Upcasting!EventVersions) /\ path' = [i \in 1 .. 0 |-> i]
    BY <2>2
  <2>4. CASE Upcasting!Raised(v)
    <3>1. step' = "raised" /\ current' = v
      BY <1>5, <2>4 DEF Upcasting!Begin
    <3>2. Upcasting!Starting(v) >= Latest
      BY <1>0, <2>1, <2>4 DEF Upcasting!Raised, Latest
    <3> QED
      BY <1>0, <1>5, <2>1, <2>2, <2>3, <3>1, <3>2
      DEF RaisingInv, Upcasting!TypeOK, Upcasting!RaisedStepByStep, Upcasting!HandledAtLatest,
          Upcasting!Starting, Latest
  <2>5. CASE ~Upcasting!Raised(v)
    <3>1. step' = "raising" /\ current' = Upcasting!Starting(v)
      BY <1>5, <2>5 DEF Upcasting!Begin
    <3>2. Upcasting!Starting(v) < Latest
      BY <1>0, <2>1, <2>5 DEF Upcasting!Raised, Latest
    <3> QED
      BY <1>0, <1>5, <2>1, <2>2, <2>3, <3>1, <3>2
      DEF RaisingInv, Upcasting!TypeOK, Upcasting!RaisedStepByStep, Upcasting!HandledAtLatest,
          Upcasting!Starting, Latest
  <2> QED
    BY <2>4, <2>5
<1>6. CASE Upcasting!Missing \/ Upcasting!UpcasterThrows
  BY <1>0, <1>1, <1>6 DEF RaisingInv, Upcasting!Missing, Upcasting!UpcasterThrows, Upcasting!Fail,
     Upcasting!TypeOK, Upcasting!RaisedStepByStep, Upcasting!HandledAtLatest
<1>7. CASE Upcasting!Upcast
  <2> DEFINE s == Upcasting!Starting(source)
             n == Len(path)
  <2>1. /\ step = "raising" /\ current \in upcasters /\ path' = Append(path, current)
        /\ current' = current + 1 /\ step' = IF current + 1 < Latest THEN "raising" ELSE "raised"
        /\ UNCHANGED <<upcasters, handlers, origin, source, outcome>> /\ Latest' = Latest
    BY <1>1, <1>7 DEF Upcasting!Upcast, Latest
  <2>2. /\ path = [i \in 1 .. n |-> s + i - 1] /\ current = s + n /\ current < Latest
        /\ outcome = "none" /\ path \in Seq(Upcasting!EventVersions)
    BY <2>1 DEF RaisingInv, Upcasting!RaisedStepByStep, Upcasting!TypeOK, Latest
  <2>3. n \in Nat /\ s \in Nat /\ source \in 0 .. MaxVersion /\ current \in 1 .. MaxVersion
    BY <1>0, <2>1, <2>2 DEF Upcasting!TypeOK, Upcasting!Starting
  <2>4. /\ path' \in Seq(Upcasting!EventVersions) /\ Len(path') = n + 1 /\ path' # <<>>
        /\ path' = [i \in 1 .. n + 1 |-> s + i - 1]
    <3>1. /\ path' \in Seq(Upcasting!EventVersions) /\ Len(path') = n + 1
          /\ \A i \in 1 .. n : path'[i] = path[i]
          /\ path'[n + 1] = current
      BY <1>0, <2>1, <2>2, <2>3, AppendProperties
    <3>2. path' = [i \in 1 .. n + 1 |-> path'[i]] /\ path' # <<>>
      BY <2>3, <3>1
    <3>3. \A i \in 1 .. n + 1 : path'[i] = s + i - 1
      <4>1. \A i \in 1 .. n : path[i] = s + i - 1
        BY <2>2
      <4>2. \A i \in 1 .. n + 1 : i \in 1 .. n \/ i = n + 1
        BY <2>3
      <4>3. s + (n + 1) - 1 = s + n
        BY <2>3
      <4> HIDE DEF s, n
      <4> QED
        BY <2>2, <3>1, <4>1, <4>2, <4>3
    <3> HIDE DEF s, n
    <3> QED
      BY <3>1, <3>2, <3>3
  <2>5. Upcasting!Starting(source)' = s
    BY <2>1 DEF Upcasting!Starting
  <2> HIDE DEF s
  <2>6. Upcasting!RaisedStepByStep'
    BY <2>4, <2>5 DEF Upcasting!RaisedStepByStep
  <2>7. Upcasting!HandledAtLatest'
    BY <1>0, <2>1, <2>2, <2>3 DEF Upcasting!HandledAtLatest, Upcasting!Starting, Latest
  <2>8. Upcasting!TypeOK'
    BY <1>0, <2>1, <2>3, <2>4 DEF Upcasting!TypeOK
  <2>9. step' = "raising" => current' < Latest' /\ current' = s + Len(path')
    BY <2>1, <2>2, <2>3, <2>4
  <2> QED
    BY <2>1, <2>2, <2>5, <2>6, <2>7, <2>8, <2>9 DEF RaisingInv, Latest
<1>8. CASE Upcasting!Handle
  BY <1>0, <1>1, <1>8 DEF RaisingInv, Upcasting!Handle, Upcasting!TypeOK,
     Upcasting!RaisedStepByStep, Upcasting!HandledAtLatest
<1>9. CASE UNCHANGED upcasting
  BY <1>1, <1>9 DEF upcasting, Latest, RaisingInv, Upcasting!TypeOK, Upcasting!RaisedStepByStep,
     Upcasting!HandledAtLatest, Upcasting!Starting
<1>10. ASSUME NEW v \in Upcasting!EventVersions \cup {0}, Upcasting!Load(v) PROVE RaisingInv'
  BY <1>5, <1>10 DEF Upcasting!Load
<1>11. CASE Upcasting!Apply
  BY <1>5, <1>11 DEF Upcasting!Apply
<1> QED
  BY <1>2, <1>3, <1>4, <1>6, <1>7, <1>8, <1>9, <1>10, <1>11 DEF Upcasting!Next

(* A step that reports an upcaster missing names a gap.                    *)
LEMMA MissingStep ==
  ASSUME RaisingInv, [Upcasting!Next]_upcasting
  PROVE  [step = "raising" /\ outcome' = "missing" =>
            \E v \in Upcasting!Starting(source) .. (Upcasting!LatestVersion - 1) : v \notin upcasters]_
           Upcasting!vars
<1> SUFFICES ASSUME step = "raising", outcome' = "missing"
             PROVE  \E v \in Upcasting!Starting(source) .. (Upcasting!LatestVersion - 1) :
                      v \notin upcasters
  OBVIOUS
<1>1. Upcasting!Missing
  BY DEF RaisingInv, Upcasting!Next, Upcasting!RegisterUpcaster, Upcasting!RegisterHandler,
     Upcasting!Load, Upcasting!Apply, Upcasting!Begin, Upcasting!Detach, Upcasting!UpcasterThrows,
     Upcasting!Fail, Upcasting!Upcast, Upcasting!Handle, upcasting
<1>2. current \notin upcasters
  BY <1>1 DEF Upcasting!Missing
<1>3. /\ Upcasting!LatestVersion \in Nat /\ source \in Nat /\ Len(path) \in Nat
      /\ current < Upcasting!LatestVersion
      /\ current = Upcasting!Starting(source) + Len(path)
  <2>1. MaxVersion \in Nat /\ upcasters \in SUBSET Upcasting!EventVersions
    BY UpcastingAssumption DEF Upcasting!MaxVersionAssumption, RaisingInv, Upcasting!TypeOK
  <2> QED
    BY <2>1, LatestIs DEF RaisingInv, Upcasting!TypeOK
<1>4. current \in Upcasting!Starting(source) .. (Upcasting!LatestVersion - 1)
  BY <1>3 DEF Upcasting!Starting, Upcasting!Unversioned
<1> QED
  BY <1>2, <1>4

LEMMA RaisingHolds == MCSpec => []RaisingInv
<1>1. MCInit => RaisingInv
  BY RaisingInit DEF MCInit
<1>2. RaisingInv /\ [MCNext]_mcvars => RaisingInv'
  BY PartsStay, RaisingStep
<1> QED
  BY <1>1, <1>2, PTL DEF MCSpec

(* Whatever is registered, in whatever order, and whatever versions events *)
(* come in: a raised event went through every version from its own on,     *)
(* once, is handled in the latest one or in the later one it came in, and  *)
(* only a gap above its version stops it (VersioningCapability).           *)
THEOREM EventsRaised == MCSpec => EventsAreRaised
<1>1. RaisingInv => Upcasting!RaisedStepByStep /\ Upcasting!HandledAtLatest
  BY DEF RaisingInv
<1>2. RaisingInv /\ [MCNext]_mcvars =>
        [step = "raising" /\ outcome' = "missing" =>
           \E v \in Upcasting!Starting(source) .. (Upcasting!LatestVersion - 1) : v \notin upcasters]_
          Upcasting!vars
  BY PartsStay, MissingStep
<1> QED
  BY <1>1, <1>2, RaisingHolds, PTL DEF MCSpec, EventsAreRaised, Upcasting!MissingIsAGap

(* Without liberties the aggregate's state is its history, its audits are  *)
(* complete and no event is lost, and whatever liberties are taken and     *)
(* however events are raised, the variables keep their types.              *)
THEOREM DisciplineKeepsHistory ==
  ASSUME Liberties = {}
  PROVE  MCSpec => []DisciplinedHistory
<1>1. Spec => []NoEventLost
  BY EventsAreKept
<1>2. Spec => []StateIsHistory
  BY StateFollowsHistory
<1>3. P!Spec => []P!TypeOK
  BY FreeAssumption, P!TypeCorrect
<1>4. RaisingInv => Upcasting!TypeOK
  BY DEF RaisingInv
<1>5. P!TypeOK => Free!TypeOK
  BY FreeProperties
<1>6. /\ ~(part = "free") /\ TypeOK /\ StateIsHistory /\ AuditTrail /\ NoEventLost /\ Upcasting!TypeOK
        => DisciplinedHistory
      /\ part = "free" /\ Free!TypeOK /\ Upcasting!TypeOK => DisciplinedHistory
  BY DEF DisciplinedHistory
<1> QED
  BY <1>1, <1>2, <1>3, <1>4, <1>5, <1>6, PartsAre, TypeCorrect,
     AuditsAreComplete, RaisingHolds, PTL DEF MCSpec

(* Whatever part moves, and whatever liberties are taken: the store's      *)
(* events are numbered without gap or repetition.                          *)
THEOREM StoresStayNumbered == MCSpec => []StoreNumbered
<1>1. P!Spec => []P!StoreNumbered
  BY FreeAssumption, P!StoreStaysNumbered
<1> QED
  BY <1>1, PartsAre, FreeProperties, StoreStaysNumbered, PTL

-----------------------------------------------------------------------------
(* The utilities *)

Statuses == {"loop", "inside", "awaiting", "resolved", "rejected"}
Places   == SUBSET (Nat \X Tools!All)

Job  == [list : Seq(Nat), processors : SUBSET Tools!All, place : Nat, stage : 1 .. 4,
         status : Statuses, always : Places, ever : Places]
Made == [job : Nat, place : Nat, name : Tools!All, status : {"running", "ok", "failed"}]

Active(job) == job.status \in {"loop", "inside"}

(* What a job went past: the places before its own, and its own stages.    *)
Past(job, p, m) ==
  \/ p < job.place
  \/ p = job.place /\ m < job.stage
  \/ p = job.place /\ m = job.stage /\ job.status = "inside"

(* A job works on aggregates there are, and only one at a time is active.  *)
JobsInv ==
  /\ given \in Seq(SUBSET Tools!All) /\ jobs \in Seq(Job) /\ processors \in Seq(Made)
  /\ \A j \in 1 .. Len(jobs) :
       /\ jobs[j].place \in 1 .. Len(jobs[j].list)
       /\ \A i \in 1 .. Len(jobs[j].list) : jobs[j].list[i] \in 1 .. Len(given)
  /\ \A j, k \in 1 .. Len(jobs) : Active(jobs[j]) /\ Active(jobs[k]) => j = k
  /\ \A i \in 1 .. Len(processors) : processors[i].job \in 0 .. Len(jobs)

(* What it counts as had all along is had now, and what is had while it is *)
(* active counts as had at some time.                                      *)
HavingInv(job) ==
  /\ job.always \subseteq Tools!Having(job.list, given)
  /\ Active(job) => Tools!Having(job.list, given) \subseteq job.ever

(* It is inside the last call, calls what is had, is past what it called,  *)
(* has called what it went past, all of it when it is not active any more, *)
(* and resolves when all went well.                                        *)
InsideInv(j) == jobs[j].status = "inside" =>
  /\ Len(processors) \in Tools!CallsOf(j)
  /\ processors[Len(processors)].place = jobs[j].place
  /\ processors[Len(processors)].name = Tools!Names[jobs[j].stage]

KnownInv(j) == Tools!Called(j) \subseteq jobs[j].ever \cap Tools!Wanted(jobs[j])

BehindInv(j) == Active(jobs[j]) => \A i \in Tools!CallsOf(j) : \E m \in 1 .. 4 :
  processors[i].name = Tools!Names[m] /\ Past(jobs[j], processors[i].place, m)

CalledInv(j) == jobs[j].status # "rejected" =>
  \A p \in 1 .. Len(jobs[j].list), m \in 1 .. 4 :
    /\ Active(jobs[j]) => Past(jobs[j], p, m)
    /\ <<p, Tools!Names[m]>> \in jobs[j].always \cap Tools!Wanted(jobs[j])
    => <<p, Tools!Names[m]>> \in Tools!Called(j)

WentWell(j) ==
  jobs[j].status = "resolved" => \A i \in Tools!CallsOf(j) : processors[i].status = "ok"

CallsInv(j) == InsideInv(j) /\ KnownInv(j) /\ BehindInv(j) /\ CalledInv(j) /\ WentWell(j)

(* The calls are made in order.                                            *)
Precedes(c, d) ==
  \/ c.place < d.place
  \/ /\ c.place = d.place
     /\ \E m, n \in 1 .. 4 : m < n /\ c.name = Tools!Names[m] /\ d.name = Tools!Names[n]

OrderedInv(j) == \A i, k \in Tools!CallsOf(j) : i < k => Precedes(processors[i], processors[k])

UtilitiesInv ==
  /\ JobsInv
  /\ \A j \in 1 .. Len(jobs) : HavingInv(jobs[j]) /\ CallsInv(j) /\ OrderedInv(j)

LEMMA NamesAre ==
  /\ Tools!Names[1] = "snapshot" /\ Tools!Names[2] = "audit"
  /\ Tools!Names[3] = "versioning" /\ Tools!Names[4] = "eventSourcing"
  /\ Len(Tools!Names) = 4 /\ DOMAIN Tools!Names = 1 .. 4
  /\ Tools!All = {"snapshot", "audit", "versioning", "eventSourcing"}
  /\ \A m \in 1 .. 4 : Tools!Names[m] \in Tools!All
  /\ \A m, n \in 1 .. 4 : Tools!Names[m] = Tools!Names[n] => m = n
<1>1. /\ Tools!Names[1] = "snapshot" /\ Tools!Names[2] = "audit"
      /\ Tools!Names[3] = "versioning" /\ Tools!Names[4] = "eventSourcing"
      /\ Len(Tools!Names) = 4 /\ DOMAIN Tools!Names = 1 .. 4
  BY DEF Tools!Names
<1>2. \A m \in 1 .. 4 : m = 1 \/ m = 2 \/ m = 3 \/ m = 4
  OBVIOUS
<1>3. Tools!All = {Tools!Names[m] : m \in 1 .. 4}
  BY <1>1 DEF Tools!All, Tools!Range
<1>4. Tools!All = {"snapshot", "audit", "versioning", "eventSourcing"}
  BY <1>1, <1>2, <1>3
<1> QED
  BY <1>1, <1>2, <1>4

LEMMA JobIs ==
  ASSUME JobsInv
  PROVE  /\ DOMAIN jobs = 1 .. Len(jobs) /\ Len(jobs) \in Nat
         /\ DOMAIN processors = 1 .. Len(processors) /\ Len(processors) \in Nat
         /\ DOMAIN given = 1 .. Len(given) /\ Len(given) \in Nat
         /\ \A j \in 1 .. Len(jobs) :
              /\ jobs[j] \in Job /\ jobs[j].list \in Seq(Nat)
              /\ DOMAIN jobs[j].list = 1 .. Len(jobs[j].list) /\ Len(jobs[j].list) \in Nat
              /\ jobs[j].place \in Nat /\ jobs[j].stage \in 1 .. 4
         /\ \A i \in 1 .. Len(processors) : processors[i] \in Made
         /\ \A i \in 1 .. Len(given) : given[i] \in SUBSET Tools!All
         /\ \A j : /\ \A i \in Tools!CallsOf(j) : i \in 1 .. Len(processors)
                   /\ Tools!CallsOf(j) = {i \in 1 .. Len(processors) : processors[i].job = j}
<1>1. given \in Seq(SUBSET Tools!All) /\ jobs \in Seq(Job) /\ processors \in Seq(Made)
  BY DEF JobsInv
<1>2. /\ DOMAIN jobs = 1 .. Len(jobs) /\ Len(jobs) \in Nat
      /\ DOMAIN processors = 1 .. Len(processors) /\ Len(processors) \in Nat
      /\ DOMAIN given = 1 .. Len(given) /\ Len(given) \in Nat
  BY <1>1, LenProperties
<1>3. /\ \A j \in 1 .. Len(jobs) : jobs[j] \in Job
      /\ \A i \in 1 .. Len(processors) : processors[i] \in Made
      /\ \A i \in 1 .. Len(given) : given[i] \in SUBSET Tools!All
  BY <1>1, ElementOfSeq
<1>4. \A j \in 1 .. Len(jobs) :
        jobs[j].list \in Seq(Nat) /\ jobs[j].place \in Nat /\ jobs[j].stage \in 1 .. 4
  BY <1>3 DEF Job
<1>5. \A j \in 1 .. Len(jobs) :
        DOMAIN jobs[j].list = 1 .. Len(jobs[j].list) /\ Len(jobs[j].list) \in Nat
  BY <1>4, LenProperties
<1>6. \A j : Tools!CallsOf(j) = {i \in 1 .. Len(processors) : processors[i].job = j}
  BY <1>2 DEF Tools!CallsOf
<1> QED
  BY <1>2, <1>3, <1>4, <1>5, <1>6

(* What the calls of a job are is all that tells.                          *)
LEMMA SameCalls ==
  ASSUME UtilitiesInv, NEW j \in 1 .. Len(jobs),
         Tools!CallsOf(j)' = Tools!CallsOf(j),
         \A i \in Tools!CallsOf(j) : processors'[i].place = processors[i].place
                                     /\ processors'[i].name = processors[i].name
  PROVE  Tools!Called(j)' = Tools!Called(j) /\ OrderedInv(j)'
<1>1. OrderedInv(j)
  BY DEF UtilitiesInv
<1>2. Tools!Called(j)' = Tools!Called(j)
  BY DEF Tools!Called
<1>3. OrderedInv(j)'
  BY <1>1 DEF OrderedInv, Precedes
<1> QED
  BY <1>2, <1>3

(* A job that stays as it is, and whose calls do.                          *)
LEMMA Untouched ==
  ASSUME UtilitiesInv, NEW j \in 1 .. Len(jobs), jobs'[j] = jobs[j],
         jobs[j].status # "inside" \/ Len(processors)' = Len(processors),
         Tools!CallsOf(j)' = Tools!CallsOf(j),
         \A i \in Tools!CallsOf(j) : processors'[i] = processors[i]
  PROVE  CallsInv(j)' /\ OrderedInv(j)'
<1>1. Tools!Called(j)' = Tools!Called(j) /\ OrderedInv(j)'
  BY SameCalls
<1>2. CallsInv(j)
  BY DEF UtilitiesInv
<1>3. CallsInv(j)'
  BY <1>1, <1>2 DEF CallsInv, InsideInv, KnownInv, BehindInv, CalledInv, WentWell,
     Tools!Wanted, Active, Past
<1> QED
  BY <1>1, <1>3

LEMMA BuildKeeps ==
  ASSUME UtilitiesInv, NEW config, Tools!Build(config)
  PROVE  UtilitiesInv'
<1>1. JobsInv
  BY DEF UtilitiesInv
<1>2. /\ given' = Append(given, config \cap Tools!All) /\ UNCHANGED <<jobs, processors>>
  BY DEF Tools!Build, Tools!Enabled
<1>3. /\ given' \in Seq(SUBSET Tools!All) /\ Len(given') = Len(given) + 1
      /\ \A i \in 1 .. Len(given) : given'[i] = given[i]
  BY <1>1, <1>2, AppendProperties DEF JobsInv
<1>4. \A i \in 1 .. Len(given) : i \in 1 .. Len(given')
  BY <1>1, <1>3, JobIs
<1>5. JobsInv'
  BY <1>1, <1>2, <1>3, <1>4 DEF JobsInv
<1>6. ASSUME NEW j \in 1 .. Len(jobs)
      PROVE  (HavingInv(jobs[j]) /\ CallsInv(j) /\ OrderedInv(j))'
  <2>1. HavingInv(jobs[j]) /\ CallsInv(j) /\ OrderedInv(j)
    BY DEF UtilitiesInv
  <2>2. Tools!Having(jobs[j].list, given') = Tools!Having(jobs[j].list, given)
    <3>1. /\ DOMAIN jobs[j].list = 1 .. Len(jobs[j].list)
          /\ \A i \in 1 .. Len(jobs[j].list) : given'[jobs[j].list[i]] = given[jobs[j].list[i]]
      BY <1>1, <1>3, JobIs DEF JobsInv
    <3> QED
      BY <3>1 DEF Tools!Having
  <2>3. HavingInv(jobs[j])'
    BY <1>2, <2>1, <2>2 DEF HavingInv, Active
  <2>4. CallsInv(j)' /\ OrderedInv(j)'
    BY <1>2, <2>1 DEF CallsInv, InsideInv, KnownInv, BehindInv, CalledInv, WentWell, OrderedInv,
       Tools!CallsOf, Tools!Called, Tools!Wanted, Active, Past
  <2> QED
    BY <2>3, <2>4
<1> QED
  BY <1>2, <1>5, <1>6 DEF UtilitiesInv

LEMMA ChangeKeeps ==
  ASSUME UtilitiesInv, NEW a \in DOMAIN given, NEW now \in SUBSET Tools!All, Tools!Change(a, now)
  PROVE  UtilitiesInv'
<1>1. JobsInv /\ UNCHANGED processors
  BY DEF UtilitiesInv, Tools!Change
<1>2. given' = [given EXCEPT ![a] = now]
  BY DEF Tools!Change
<1>3. given' \in Seq(SUBSET Tools!All) /\ Len(given') = Len(given)
  <2>1. given \in [1 .. Len(given) -> SUBSET Tools!All] /\ Len(given) \in Nat
    BY <1>1, JobIs DEF JobsInv
  <2>2. given' \in [1 .. Len(given) -> SUBSET Tools!All]
    BY <1>2, <2>1
  <2> QED
    BY <2>1, <2>2
<1> DEFINE had(j) == Tools!Having(jobs[j].list, given')
<1>4. jobs' = [j \in 1 .. Len(jobs) |->
        [jobs[j] EXCEPT !.always = @ \cap had(j),
                        !.ever = IF jobs[j].status = "inside" THEN @ \cup had(j) ELSE @]]
  BY <1>1, JobIs DEF Tools!Change, Tools!Inside
<1>5. \A j \in 1 .. Len(jobs) : had(j) \in Places
  <2>1. \A j \in 1 .. Len(jobs) : DOMAIN jobs[j].list \subseteq Nat
    BY <1>1, JobIs
  <2> QED
    BY <2>1 DEF Tools!Having, Places
<1>6. \A j \in 1 .. Len(jobs) : Active(jobs[j]) => jobs[j].status = "inside"
  BY <1>1, JobIs DEF Tools!Change, Tools!Idle, Tools!Inside, Tools!Looping, Active, JobsInv
<1> HIDE DEF had
<1>7. \A j \in 1 .. Len(jobs) :
        /\ jobs'[j] \in Job
        /\ jobs'[j].list = jobs[j].list /\ jobs'[j].processors = jobs[j].processors
        /\ jobs'[j].place = jobs[j].place /\ jobs'[j].stage = jobs[j].stage
        /\ jobs'[j].status = jobs[j].status
        /\ jobs'[j].always = jobs[j].always \cap had(j)
        /\ jobs'[j].ever = IF jobs[j].status = "inside" THEN jobs[j].ever \cup had(j)
                           ELSE jobs[j].ever
  <2> SUFFICES ASSUME NEW j \in 1 .. Len(jobs)
               PROVE  /\ jobs'[j] \in Job
                      /\ jobs'[j].list = jobs[j].list /\ jobs'[j].processors = jobs[j].processors
                      /\ jobs'[j].place = jobs[j].place /\ jobs'[j].stage = jobs[j].stage
                      /\ jobs'[j].status = jobs[j].status
                      /\ jobs'[j].always = jobs[j].always \cap had(j)
                      /\ jobs'[j].ever = IF jobs[j].status = "inside" THEN jobs[j].ever \cup had(j)
                                         ELSE jobs[j].ever
    OBVIOUS
  <2>1. jobs[j] \in Job
    BY <1>1, JobIs
  <2> QED
    BY <1>4, <1>5, <2>1 DEF Job, Places
<1>8. jobs' \in Seq(Job) /\ Len(jobs') = Len(jobs)
  <2>1. Len(jobs) \in Nat
    BY <1>1, JobIs
  <2>2. jobs' \in [1 .. Len(jobs) -> Job]
    BY <1>4, <1>7
  <2> QED
    BY <2>1, <2>2
<1>9. JobsInv'
  BY <1>1, <1>3, <1>7, <1>8 DEF JobsInv, Active
<1>10. ASSUME NEW j \in 1 .. Len(jobs)
       PROVE  (HavingInv(jobs[j]) /\ CallsInv(j) /\ OrderedInv(j))'
  <2>1. HavingInv(jobs[j]) /\ CallsInv(j) /\ OrderedInv(j)
    BY DEF UtilitiesInv
  <2>2. HavingInv(jobs[j])'
    BY <1>6, <1>7, <2>1 DEF HavingInv, Active, had
  <2>3. OrderedInv(j)' /\ Tools!CallsOf(j)' = Tools!CallsOf(j) /\ Tools!Called(j)' = Tools!Called(j)
    BY <1>1, <2>1 DEF OrderedInv, Tools!CallsOf, Tools!Called
  <2>4. CallsInv(j)'
    <3>1. Tools!Wanted(jobs'[j]) = Tools!Wanted(jobs[j])
      BY <1>7 DEF Tools!Wanted
    <3>2. \A q, m : Past(jobs'[j], q, m) <=> Past(jobs[j], q, m)
      BY <1>7 DEF Past
    <3>3. Active(jobs'[j]) <=> Active(jobs[j])
      BY <1>7 DEF Active
    <3>4. jobs[j].ever \subseteq jobs'[j].ever /\ jobs'[j].always \subseteq jobs[j].always
      BY <1>7
    <3>5. InsideInv(j)'
      BY <1>1, <1>7, <2>1, <2>3 DEF CallsInv, InsideInv
    <3>6. KnownInv(j)'
      BY <2>1, <2>3, <3>1, <3>4 DEF CallsInv, KnownInv
    <3>7. BehindInv(j)'
      BY <1>1, <2>1, <2>3, <3>2, <3>3 DEF CallsInv, BehindInv
    <3>8. CalledInv(j)'
      <4>1. jobs'[j].status = jobs[j].status /\ jobs'[j].list = jobs[j].list
        BY <1>7
      <4> SUFFICES ASSUME jobs[j].status # "rejected",
                          NEW q \in 1 .. Len(jobs[j].list), NEW m \in 1 .. 4,
                          Active(jobs[j]) => Past(jobs[j], q, m),
                          <<q, Tools!Names[m]>> \in jobs'[j].always \cap Tools!Wanted(jobs[j])
                   PROVE  <<q, Tools!Names[m]>> \in Tools!Called(j)
        BY <2>3, <3>1, <3>2, <3>3, <4>1 DEF CalledInv
      <4> QED
        BY <2>1, <3>4 DEF CallsInv, CalledInv
    <3>9. WentWell(j)'
      BY <1>1, <1>7, <2>1, <2>3 DEF CallsInv, WentWell
    <3> QED
      BY <3>5, <3>6, <3>7, <3>8, <3>9 DEF CallsInv
  <2> QED
    BY <2>2, <2>3, <2>4
<1> QED
  BY <1>8, <1>9, <1>10 DEF UtilitiesInv

(* One call more.                                                          *)
LEMMA CallAdded ==
  ASSUME JobsInv, NEW c \in Made, processors' = Append(processors, c)
  PROVE  /\ processors' \in Seq(Made) /\ Len(processors') = Len(processors) + 1
         /\ \A i \in 1 .. Len(processors) : processors'[i] = processors[i]
         /\ processors'[Len(processors) + 1] = c
         /\ \A j : Tools!CallsOf(j)' = Tools!CallsOf(j)
                     \cup (IF c.job = j THEN {Len(processors) + 1} ELSE {})
<1>1. /\ processors' \in Seq(Made) /\ Len(processors') = Len(processors) + 1
      /\ \A i \in 1 .. Len(processors) : processors'[i] = processors[i]
      /\ processors'[Len(processors) + 1] = c
  BY AppendProperties DEF JobsInv
<1>2. Len(processors) \in Nat /\ DOMAIN processors' = 1 .. Len(processors) + 1
  BY <1>1, LenProperties, JobIs
<1>3. \A i \in 1 .. Len(processors) + 1 : i \in 1 .. Len(processors) \/ i = Len(processors) + 1
  BY <1>2
<1>4. \A i \in 1 .. Len(processors) : i \in 1 .. Len(processors) + 1
  BY <1>2
<1>5. Len(processors) + 1 \in 1 .. Len(processors) + 1
  BY <1>2
<1>6. ASSUME NEW j
      PROVE  Tools!CallsOf(j)' = Tools!CallsOf(j)
                                   \cup (IF c.job = j THEN {Len(processors) + 1} ELSE {})
  <2>1. Tools!CallsOf(j) = {i \in 1 .. Len(processors) : processors[i].job = j}
    BY JobIs
  <2>2. Tools!CallsOf(j)' = {i \in 1 .. Len(processors) + 1 : processors'[i].job = j}
    BY <1>2 DEF Tools!CallsOf
  <2> QED
    BY <1>1, <1>3, <1>4, <1>5, <2>1, <2>2
<1> QED
  BY <1>1, <1>6

(* A call that ends, and what it is of.                                    *)
LEMMA CallEnds ==
  ASSUME JobsInv, NEW k \in 1 .. Len(processors), NEW how \in {"running", "ok", "failed"},
         processors' = [processors EXCEPT ![k].status = how]
  PROVE  /\ processors' \in Seq(Made) /\ Len(processors') = Len(processors)
         /\ \A i \in 1 .. Len(processors) :
              /\ processors'[i].job = processors[i].job
              /\ processors'[i].place = processors[i].place
              /\ processors'[i].name = processors[i].name
              /\ processors'[i].status = IF i = k THEN how ELSE processors[i].status
              /\ i # k => processors'[i] = processors[i]
         /\ \A j : Tools!CallsOf(j)' = Tools!CallsOf(j)
<1>1. Len(processors) \in Nat /\ processors \in [1 .. Len(processors) -> Made]
  BY JobIs DEF JobsInv
<1>2. /\ processors' \in [1 .. Len(processors) -> Made]
      /\ \A i \in 1 .. Len(processors) :
              /\ processors'[i].job = processors[i].job
              /\ processors'[i].place = processors[i].place
              /\ processors'[i].name = processors[i].name
              /\ processors'[i].status = IF i = k THEN how ELSE processors[i].status
              /\ i # k => processors'[i] = processors[i]
  <2> DEFINE ended == [processors[k] EXCEPT !.status = how]
  <2>1. processors' = [i \in 1 .. Len(processors) |-> IF i = k THEN ended ELSE processors[i]]
    BY <1>1
  <2>2. processors[k] \in Made /\ \A i \in 1 .. Len(processors) : processors[i] \in Made
    BY <1>1
  <2>3. /\ ended \in Made /\ ended.job = processors[k].job /\ ended.place = processors[k].place
        /\ ended.name = processors[k].name /\ ended.status = how
    BY <2>2 DEF Made
  <2> HIDE DEF ended
  <2>4. processors' \in [1 .. Len(processors) -> Made]
    BY <2>1, <2>2, <2>3
  <2>5. \A i \in 1 .. Len(processors) : processors'[i] = IF i = k THEN ended ELSE processors[i]
    BY <2>1
  <2> QED
    BY <2>3, <2>4, <2>5
<1>3. processors' \in Seq(Made) /\ Len(processors') = Len(processors)
  BY <1>1, <1>2
<1>4. ASSUME NEW j PROVE Tools!CallsOf(j)' = Tools!CallsOf(j)
  <2>1. DOMAIN processors = 1 .. Len(processors) /\ DOMAIN processors' = 1 .. Len(processors)
    BY <1>1, <1>2
  <2> QED
    BY <1>2, <2>1 DEF Tools!CallsOf
<1> QED
  BY <1>2, <1>3, <1>4

LEMMA IfCapableKeeps ==
  ASSUME UtilitiesInv, NEW a \in DOMAIN given, NEW name \in Tools!All, Tools!IfCapable(a, name)
  PROVE  UtilitiesInv'
<1>1. JobsInv /\ a \in Nat
  BY JobIs DEF UtilitiesInv
<1> DEFINE c == [job |-> 0, place |-> a, name |-> name,
                 status |-> IF name = "eventSourcing" THEN "running" ELSE "ok"]
<1>2. c \in Made /\ c.job = 0 /\ processors' = Append(processors, c)
      /\ UNCHANGED <<given, jobs>> /\ Tools!Idle
  BY <1>1 DEF Tools!IfCapable, Made
<1> HIDE DEF c
<1>3. /\ processors' \in Seq(Made) /\ Len(processors') = Len(processors) + 1
      /\ \A i \in 1 .. Len(processors) : processors'[i] = processors[i]
      /\ processors'[Len(processors) + 1] = c
      /\ \A j \in 1 .. Len(jobs) : Tools!CallsOf(j)' = Tools!CallsOf(j)
  <2>1. \A j \in 1 .. Len(jobs) : c.job # j
    BY <1>2
  <2>2. \A j : Tools!CallsOf(j)' = Tools!CallsOf(j)
                  \cup (IF c.job = j THEN {Len(processors) + 1} ELSE {})
    BY <1>1, <1>2, CallAdded
  <2>3. \A j \in 1 .. Len(jobs) : Tools!CallsOf(j)' = Tools!CallsOf(j)
    BY <2>1, <2>2
  <2> QED
    BY <1>1, <1>2, <2>3, CallAdded
<1>4. JobsInv'
  <2>1. \A i \in 1 .. Len(processors) + 1 : i \in 1 .. Len(processors) \/ i = Len(processors) + 1
    BY <1>1, JobIs
  <2>2. Len(jobs) \in Nat
    BY <1>1, JobIs
  <2>3. \A i \in 1 .. Len(processors') : processors'[i].job \in 0 .. Len(jobs')
    BY <1>1, <1>2, <1>3, <2>1, <2>2 DEF JobsInv
  <2> QED
    BY <1>1, <1>2, <1>3, <2>3 DEF JobsInv
<1>5. ASSUME NEW j \in 1 .. Len(jobs)
      PROVE  (HavingInv(jobs[j]) /\ CallsInv(j) /\ OrderedInv(j))'
  <2>1. HavingInv(jobs[j])'
    BY <1>2 DEF UtilitiesInv, HavingInv, Active
  <2>2. jobs[j].status # "inside"
    BY <1>1, <1>2, JobIs DEF Tools!Idle, Tools!Inside
  <2>3. \A i \in Tools!CallsOf(j) : processors'[i] = processors[i]
    BY <1>1, <1>3, JobIs
  <2> QED
    BY <1>2, <1>3, <2>1, <2>2, <2>3, Untouched
<1> QED
  BY <1>2, <1>4, <1>5 DEF UtilitiesInv

LEMMA ProcessKeeps ==
  ASSUME UtilitiesInv, NEW list \in Tools!Lists, NEW wanted \in Processors,
         Tools!ProcessAggregates(list, wanted)
  PROVE  UtilitiesInv'
<1>1. JobsInv
  BY DEF UtilitiesInv
<1>2. /\ DOMAIN jobs = 1 .. Len(jobs) /\ Len(jobs) \in Nat /\ jobs \in Seq(Job)
      /\ DOMAIN given = 1 .. Len(given) /\ Len(given) \in Nat
  BY <1>1, JobIs DEF JobsInv
<1>3. PICK n \in 1 .. MaxLength : list \in [1 .. n -> DOMAIN given]
  BY DEF Tools!Lists
<1>4. /\ list \in Seq(Nat) /\ Len(list) = n /\ n \in Nat /\ 1 \in 1 .. Len(list)
      /\ DOMAIN list = 1 .. n /\ \A i \in 1 .. Len(list) : list[i] \in 1 .. Len(given)
  <2>1. MaxLength \in Nat
    BY ToolsAssumption DEF Tools!ToolsAssumption
  <2>2. list \in [1 .. n -> Nat] /\ n \in Nat
    BY <1>2, <1>3, <2>1
  <2>3. list \in Seq(Nat) /\ Len(list) = n
    BY <2>2
  <2> QED
    BY <1>2, <1>3, <2>1, <2>3
<1> DEFINE job == [list |-> list, processors |-> wanted, place |-> 1, stage |-> 1,
                   status |-> "loop", always |-> Tools!Having(list, given),
                   ever |-> Tools!Having(list, given)]
<1>5. /\ job \in Job /\ job.list = list /\ job.place = 1 /\ job.stage = 1 /\ job.status = "loop"
      /\ job.always = Tools!Having(list, given) /\ job.ever = Tools!Having(list, given)
  <2>1. Tools!Having(list, given) \in Places
    BY <1>4 DEF Tools!Having, Places
  <2>2. wanted \in SUBSET Tools!All
    BY ToolsAssumption DEF Tools!ToolsAssumption
  <2> HIDE DEF Places
  <2> QED
    BY <1>4, <2>1, <2>2 DEF Job, Statuses
<1>6. jobs' = Append(jobs, job) /\ UNCHANGED <<given, processors>> /\ Tools!Idle
  BY DEF Tools!ProcessAggregates
<1> HIDE DEF job
<1>7. /\ jobs' \in Seq(Job) /\ Len(jobs') = Len(jobs) + 1
      /\ \A j \in 1 .. Len(jobs) : jobs'[j] = jobs[j]
      /\ jobs'[Len(jobs) + 1] = job
  BY <1>2, <1>5, <1>6, AppendProperties
<1>8. \A j \in 1 .. Len(jobs) : ~Active(jobs[j])
  BY <1>1, <1>2, <1>6, JobIs DEF Tools!Idle, Tools!Inside, Tools!Looping, Active, Job, Statuses
<1>9. \A j \in 1 .. Len(jobs) + 1 : j \in 1 .. Len(jobs) \/ j = Len(jobs) + 1
  BY <1>2
<1>10. JobsInv'
  <2>1. \A i \in 1 .. Len(processors) : processors[i].job \in 0 .. Len(jobs) + 1
    BY <1>1, <1>2 DEF JobsInv
  <2>2. \A j \in 1 .. Len(jobs) + 1 :
          /\ jobs'[j].place \in 1 .. Len(jobs'[j].list)
          /\ \A i \in 1 .. Len(jobs'[j].list) : jobs'[j].list[i] \in 1 .. Len(given)
    BY <1>1, <1>4, <1>5, <1>7, <1>9 DEF JobsInv
  <2>3. \A j, k \in 1 .. Len(jobs) + 1 : Active(jobs'[j]) /\ Active(jobs'[k]) => j = k
    BY <1>7, <1>8, <1>9
  <2> QED
    BY <1>1, <1>6, <1>7, <2>1, <2>2, <2>3 DEF JobsInv, Active
<1>11. ASSUME NEW j \in 1 .. Len(jobs)
       PROVE  (HavingInv(jobs[j]) /\ CallsInv(j) /\ OrderedInv(j))'
  <2>1. HavingInv(jobs[j])'
    BY <1>6, <1>7 DEF UtilitiesInv, HavingInv, Active
  <2>2. Tools!CallsOf(j)' = Tools!CallsOf(j)
    BY <1>6 DEF Tools!CallsOf
  <2> QED
    BY <1>6, <1>7, <2>1, <2>2, Untouched
<1>12. ASSUME NEW j, j = Len(jobs) + 1
       PROVE  (HavingInv(jobs[j]) /\ CallsInv(j) /\ OrderedInv(j))'
  <2>1. jobs'[j] = job
    BY <1>7, <1>12
  <2>2. HavingInv(jobs[j])'
    BY <1>5, <1>6, <2>1 DEF HavingInv
  <2>3. Tools!CallsOf(j)' = {} /\ Tools!Called(j)' = {}
    <3>1. \A i \in 1 .. Len(processors) : processors[i].job # j
      BY <1>1, <1>2, <1>12 DEF JobsInv
    <3>2. Tools!CallsOf(j) = {}
      BY <1>1, <3>1, JobIs
    <3>3. Tools!CallsOf(j)' = {}
      BY <1>6, <3>2 DEF Tools!CallsOf
    <3> QED
      BY <3>3 DEF Tools!Called
  <2>4. OrderedInv(j)'
    BY <2>3 DEF OrderedInv
  <2>5. \A q \in 1 .. Len(list), m \in 1 .. 4 : ~Past(job, q, m)
    BY <1>4, <1>5 DEF Past
  <2>6. CallsInv(j)'
    BY <1>5, <2>1, <2>3, <2>5 DEF CallsInv, InsideInv, KnownInv, BehindInv, CalledInv, WentWell,
       Active
  <2> QED
    BY <2>2, <2>4, <2>6
<1>13. ASSUME NEW j \in 1 .. Len(jobs) + 1
       PROVE  (HavingInv(jobs[j]) /\ CallsInv(j) /\ OrderedInv(j))'
  BY <1>9, <1>11, <1>12
<1> QED
  BY <1>7, <1>10, <1>13 DEF UtilitiesInv

(* A job that changes while it is active, and the calls with it.           *)
LEMMA JobChanges ==
  ASSUME UtilitiesInv, NEW j \in 1 .. Len(jobs), NEW new \in Job, Active(jobs[j]),
         jobs' = [jobs EXCEPT ![j] = new], UNCHANGED given,
         new.list = jobs[j].list, new.place \in 1 .. Len(new.list),
         processors' \in Seq(Made), Len(processors') \in Nat,
         \A i \in 1 .. Len(processors') : processors'[i].job \in 0 .. Len(jobs),
         \A k \in 1 .. Len(jobs) : k # j => /\ Tools!CallsOf(k)' = Tools!CallsOf(k)
           /\ \A i \in Tools!CallsOf(k) : processors'[i] = processors[i],
         new.always = jobs[j].always, new.ever = jobs[j].ever,
         CallsInv(j)', OrderedInv(j)'
  PROVE  UtilitiesInv'
<1>1. JobsInv /\ jobs \in [1 .. Len(jobs) -> Job] /\ Len(jobs) \in Nat
  <2>1. JobsInv
    BY DEF UtilitiesInv
  <2>2. jobs \in Seq(Job)
    BY <2>1 DEF JobsInv
  <2> QED
    BY <2>1, <2>2
<1>2. /\ jobs' \in [1 .. Len(jobs) -> Job]
      /\ \A k \in 1 .. Len(jobs) : jobs'[k] = IF k = j THEN new ELSE jobs[k]
  BY <1>1
<1>3. jobs' \in Seq(Job) /\ Len(jobs') = Len(jobs)
  BY <1>1, <1>2
<1>4. \A k \in 1 .. Len(jobs) : k # j => ~Active(jobs[k])
  BY <1>1 DEF JobsInv
<1>5. JobsInv'
  <2>1. \A k \in 1 .. Len(jobs) :
          /\ jobs'[k].place \in 1 .. Len(jobs'[k].list)
          /\ \A i \in 1 .. Len(jobs'[k].list) : jobs'[k].list[i] \in 1 .. Len(given)
    BY <1>1, <1>2 DEF JobsInv
  <2>2. \A k, l \in 1 .. Len(jobs) : Active(jobs'[k]) /\ Active(jobs'[l]) => k = l
    BY <1>2, <1>4
  <2> QED
    BY <1>1, <1>3, <2>1, <2>2 DEF JobsInv, Active
<1>6. \A k \in 1 .. Len(jobs) : HavingInv(jobs[k])'
  BY <1>2 DEF UtilitiesInv, HavingInv, Active
<1>7. ASSUME NEW k \in 1 .. Len(jobs), k # j PROVE CallsInv(k)' /\ OrderedInv(k)'
  <2>1. jobs'[k] = jobs[k] /\ jobs[k].status # "inside"
    BY <1>2, <1>4, <1>7 DEF Active
  <2> QED
    BY <1>7, <2>1, Untouched
<1> QED
  BY <1>3, <1>5, <1>6, <1>7 DEF UtilitiesInv

LEMMA CallKeeps ==
  ASSUME UtilitiesInv, NEW j \in DOMAIN jobs, Tools!Call(j)
  PROVE  UtilitiesInv'
<1> DEFINE job == jobs[j]
           c == [job |-> j, place |-> job.place, name |-> Tools!Asked(j), status |-> "running"]
           new == [job EXCEPT !.status = "inside"]
<1>1. /\ JobsInv /\ j \in 1 .. Len(jobs) /\ job \in Job /\ Len(processors) \in Nat
      /\ Len(jobs) \in Nat /\ j \in Nat
      /\ job.place \in 1 .. Len(job.list) /\ job.stage \in 1 .. 4
      /\ DOMAIN job.list = 1 .. Len(job.list) /\ job.place \in Nat
  <2>1. JobsInv
    BY DEF UtilitiesInv
  <2>2. j \in 1 .. Len(jobs)
    BY <2>1, JobIs
  <2>3. job.place \in 1 .. Len(job.list)
    BY <2>1, <2>2 DEF JobsInv
  <2> QED
    BY <2>1, <2>2, <2>3, JobIs
<1>2. /\ job.status = "loop" /\ Tools!Due(j) /\ UNCHANGED given
      /\ processors' = Append(processors, c) /\ jobs' = [jobs EXCEPT ![j] = new]
  <2>1. jobs' = [jobs EXCEPT ![j].status = "inside"]
    BY DEF Tools!Call
  <2> QED
    BY <2>1 DEF Tools!Call, Tools!Looping
<1>3. /\ new \in Job /\ new.status = "inside" /\ new.list = job.list /\ new.place = job.place
      /\ new.stage = job.stage /\ new.processors = job.processors
      /\ new.always = job.always /\ new.ever = job.ever
  BY <1>1 DEF Job, Statuses
<1>4. Tools!Asked(j) = Tools!Names[job.stage] /\ Tools!Asked(j) \in Tools!All
  BY <1>1, NamesAre DEF Tools!Asked
<1>5. c \in Made /\ c.job = j /\ c.place = job.place /\ c.name = Tools!Names[job.stage]
  BY <1>1, <1>4 DEF Made
<1>6. jobs'[j] = new
  BY <1>1, <1>2
<1> DEFINE n == Len(processors)
<1> HIDE DEF c, new
<1>7. /\ processors' \in Seq(Made) /\ Len(processors') = n + 1
      /\ \A i \in 1 .. n : processors'[i] = processors[i]
      /\ processors'[n + 1] = c
      /\ \A k : Tools!CallsOf(k)' = Tools!CallsOf(k) \cup (IF c.job = k THEN {n + 1} ELSE {})
  BY <1>1, <1>2, <1>5, CallAdded
<1>8. Tools!CallsOf(j)' = Tools!CallsOf(j) \cup {n + 1}
  BY <1>5, <1>7
<1>9. \A i \in Tools!CallsOf(j) : i \in 1 .. n
  BY <1>1, JobIs
<1>10. HavingInv(job) /\ CallsInv(j) /\ OrderedInv(j) /\ Active(job)
  BY <1>1, <1>2 DEF UtilitiesInv, Active
<1> DEFINE asked == <<job.place, Tools!Names[job.stage]>>
<1>11. Tools!Called(j)' = Tools!Called(j) \cup {asked}
  <2>1. Tools!Called(j) = {<<processors[i].place, processors[i].name>> : i \in Tools!CallsOf(j)}
    BY DEF Tools!Called
  <2>2. Tools!Called(j)' = {<<processors'[i].place, processors'[i].name>> :
                              i \in Tools!CallsOf(j) \cup {n + 1}}
    BY <1>8 DEF Tools!Called
  <2> QED
    BY <1>5, <1>7, <1>9, <2>1, <2>2
<1>12. asked \in job.ever \cap Tools!Wanted(job)
  <2>1. /\ Tools!Asked(j) \in job.processors
        /\ Tools!Asked(j) \in given[job.list[job.place]]
    BY <1>2 DEF Tools!Due, Tools!HasCapability
  <2>2. asked \in Tools!Having(job.list, given)
    BY <1>1, <1>4, <2>1 DEF Tools!Having
  <2>3. asked \in Tools!Wanted(job)
    BY <1>1, <1>4, <2>1 DEF Tools!Wanted
  <2> QED
    BY <1>10, <2>2, <2>3 DEF HavingInv
<1>13. Tools!Wanted(new) = Tools!Wanted(job)
  BY <1>3 DEF Tools!Wanted
<1> HIDE DEF asked, job, n
<1>14. InsideInv(j)'
  BY <1>3, <1>5, <1>6, <1>7, <1>8 DEF InsideInv
<1>15. KnownInv(j)'
  BY <1>3, <1>6, <1>10, <1>11, <1>12, <1>13 DEF CallsInv, KnownInv, job
<1>16. BehindInv(j)'
  <2>1. ASSUME NEW i \in Tools!CallsOf(j)
        PROVE  \E m \in 1 .. 4 : processors'[i].name = Tools!Names[m]
                                 /\ Past(new, processors'[i].place, m)
    <3>1. PICK m \in 1 .. 4 : processors[i].name = Tools!Names[m]
                              /\ Past(job, processors[i].place, m)
      BY <1>10 DEF CallsInv, BehindInv, job
    <3>2. Past(new, processors[i].place, m)
      BY <1>2, <1>3, <3>1 DEF Past, job
    <3>3. processors'[i] = processors[i]
      BY <1>7, <1>9
    <3> QED
      BY <3>1, <3>2, <3>3
  <2>2. \E m \in 1 .. 4 : processors'[n + 1].name = Tools!Names[m]
                          /\ Past(new, processors'[n + 1].place, m)
    BY <1>1, <1>3, <1>5, <1>7 DEF Past
  <2> QED
    BY <1>6, <1>8, <2>1, <2>2 DEF BehindInv
<1>17. CalledInv(j)'
  <2> SUFFICES ASSUME NEW p \in 1 .. Len(job.list), NEW m \in 1 .. 4, Past(new, p, m),
                      <<p, Tools!Names[m]>> \in job.always \cap Tools!Wanted(job)
               PROVE  <<p, Tools!Names[m]>> \in Tools!Called(j) \cup {asked}
    BY <1>3, <1>6, <1>11, <1>13 DEF CalledInv, Active
  <2>1. CASE Past(job, p, m)
    BY <1>2, <1>10, <2>1 DEF CallsInv, CalledInv, job
  <2>2. CASE p = job.place /\ m = job.stage
    BY <2>2 DEF asked
  <2> QED
    BY <1>3, <2>1, <2>2 DEF Past
<1>18. WentWell(j)'
  BY <1>3, <1>6 DEF WentWell
<1>19. OrderedInv(j)'
  <2> SUFFICES ASSUME NEW i \in Tools!CallsOf(j)', NEW k \in Tools!CallsOf(j)', i < k
               PROVE  Precedes(processors'[i], processors'[k])
    BY DEF OrderedInv, Precedes
  <2>1. i \in Tools!CallsOf(j)
    BY <1>1, <1>8, <1>9 DEF n
  <2>2. processors'[i] = processors[i]
    BY <1>7, <1>9, <2>1
  <2>3. CASE k \in Tools!CallsOf(j)
    BY <1>7, <1>9, <1>10, <2>1, <2>2, <2>3 DEF OrderedInv
  <2>4. CASE k = n + 1
    <3>1. PICK m \in 1 .. 4 : processors[i].name = Tools!Names[m]
                              /\ Past(job, processors[i].place, m)
      BY <1>10, <2>1 DEF CallsInv, BehindInv, job
    <3>2. \/ processors[i].place < job.place
          \/ processors[i].place = job.place /\ m < job.stage
      BY <1>2, <3>1 DEF Past
    <3> QED
      BY <1>1, <1>5, <1>7, <2>2, <2>4, <3>1, <3>2 DEF Precedes
  <2> QED
    BY <1>8, <2>3, <2>4
<1>20. CallsInv(j)'
  BY <1>14, <1>15, <1>16, <1>17, <1>18 DEF CallsInv
<1>21. \A k \in 1 .. Len(jobs) : k # j => /\ Tools!CallsOf(k)' = Tools!CallsOf(k)
         /\ \A i \in Tools!CallsOf(k) : processors'[i] = processors[i]
  <2>1. \A k : \A i \in Tools!CallsOf(k) : i \in 1 .. n
    BY <1>1, JobIs DEF n
  <2> QED
    BY <1>5, <1>7, <2>1
<1>22. /\ \A i \in 1 .. Len(processors') : processors'[i].job \in 0 .. Len(jobs)
       /\ Len(processors') \in Nat
  <2>1. \A i \in 1 .. n + 1 : i \in 1 .. n \/ i = n + 1
    BY <1>1 DEF n
  <2>2. \A i \in 1 .. n : processors[i].job \in 0 .. Len(jobs)
    BY <1>1 DEF JobsInv, n
  <2>3. j \in 0 .. Len(jobs) /\ n + 1 \in Nat
    BY <1>1 DEF n
  <2> QED
    BY <1>5, <1>7, <2>1, <2>2, <2>3
<1>23. UNCHANGED given /\ jobs' = [jobs EXCEPT ![j] = new] /\ Active(jobs[j]) /\ j \in 1 .. Len(jobs)
       /\ new.list = jobs[j].list /\ new.place \in 1 .. Len(new.list)
       /\ new.always = jobs[j].always /\ new.ever = jobs[j].ever
  BY <1>1, <1>2, <1>3, <1>10 DEF job
<1> QED
  BY <1>3, <1>7, <1>19, <1>20, <1>21, <1>22, <1>23, JobChanges

LEMMA JobWithIt ==
  ASSUME UtilitiesInv, NEW j \in DOMAIN jobs
  PROVE  /\ JobsInv /\ j \in 1 .. Len(jobs) /\ jobs[j] \in Job /\ Len(processors) \in Nat
         /\ jobs[j].place \in 1 .. Len(jobs[j].list) /\ jobs[j].stage \in 1 .. 4
         /\ jobs[j].place \in Nat /\ Len(jobs[j].list) \in Nat
         /\ HavingInv(jobs[j]) /\ CallsInv(j) /\ OrderedInv(j)
<1>1. JobsInv
  BY DEF UtilitiesInv
<1>2. j \in 1 .. Len(jobs)
  BY <1>1, JobIs
<1>3. jobs[j].place \in 1 .. Len(jobs[j].list)
  BY <1>1, <1>2 DEF JobsInv
<1>4. HavingInv(jobs[j]) /\ CallsInv(j) /\ OrderedInv(j)
  BY <1>2 DEF UtilitiesInv
<1> QED
  BY <1>1, <1>2, <1>3, <1>4, JobIs

(* The calls of the other jobs go on while the last call of one ends.      *)
LEMMA LastEnds ==
  ASSUME UtilitiesInv, NEW j \in DOMAIN jobs, jobs[j].status = "inside",
         NEW how \in {"running", "ok", "failed"},
         processors' = [processors EXCEPT ![Len(processors)].status = how]
  PROVE  /\ processors' \in Seq(Made) /\ Len(processors') \in Nat
         /\ \A i \in 1 .. Len(processors') : processors'[i].job \in 0 .. Len(jobs)
         /\ \A k \in 1 .. Len(jobs) : k # j => /\ Tools!CallsOf(k)' = Tools!CallsOf(k)
              /\ \A i \in Tools!CallsOf(k) : processors'[i] = processors[i]
         /\ Tools!CallsOf(j)' = Tools!CallsOf(j)
         /\ \A i \in Tools!CallsOf(j) : processors'[i].place = processors[i].place
                                        /\ processors'[i].name = processors[i].name
<1> DEFINE n == Len(processors)
<1>1. JobsInv /\ InsideInv(j)
  BY JobWithIt DEF CallsInv
<1>2. \A k : /\ \A i \in Tools!CallsOf(k) : i \in 1 .. n
             /\ Tools!CallsOf(k) = {i \in 1 .. n : processors[i].job = k}
  BY <1>1, JobIs
<1>3. n \in Tools!CallsOf(j) /\ n \in 1 .. n
  BY <1>1, <1>2 DEF InsideInv
<1>4. /\ processors' \in Seq(Made) /\ Len(processors') = n
      /\ \A i \in 1 .. n :
           /\ processors'[i].job = processors[i].job
           /\ processors'[i].place = processors[i].place
           /\ processors'[i].name = processors[i].name
           /\ i # n => processors'[i] = processors[i]
      /\ \A k : Tools!CallsOf(k)' = Tools!CallsOf(k)
  <2>1. /\ processors' \in Seq(Made) /\ Len(processors') = Len(processors)
        /\ \A i \in 1 .. Len(processors) :
             /\ processors'[i].job = processors[i].job
             /\ processors'[i].place = processors[i].place
             /\ processors'[i].name = processors[i].name
             /\ processors'[i].status = IF i = n THEN how ELSE processors[i].status
             /\ i # n => processors'[i] = processors[i]
        /\ \A k : Tools!CallsOf(k)' = Tools!CallsOf(k)
    BY <1>1, <1>3, CallEnds
  <2> QED
    BY <2>1
<1> HIDE DEF n
<1>5. \A k : k # j => n \notin Tools!CallsOf(k)
  BY <1>2, <1>3
<1>6. \A i \in 1 .. n : processors[i].job \in 0 .. Len(jobs)
  BY <1>1 DEF JobsInv, n
<1>7. n \in Nat
  BY <1>1, JobIs DEF n
<1> QED
  BY <1>2, <1>4, <1>5, <1>6, <1>7

LEMMA ThrowKeeps ==
  ASSUME UtilitiesInv, NEW j \in DOMAIN jobs, Tools!Throw(j)
  PROVE  UtilitiesInv'
<1> DEFINE job == jobs[j]
           new == [job EXCEPT !.status = "rejected"]
<1>1. /\ JobsInv /\ j \in 1 .. Len(jobs) /\ job \in Job /\ CallsInv(j)
      /\ job.place \in 1 .. Len(job.list)
  BY JobWithIt
<1>2. /\ job.status = "inside" /\ UNCHANGED given /\ jobs' = [jobs EXCEPT ![j] = new]
      /\ processors' = [processors EXCEPT ![Len(processors)].status = "failed"]
  <2>1. jobs' = [jobs EXCEPT ![j].status = "rejected"]
    BY DEF Tools!Throw
  <2> QED
    BY <2>1 DEF Tools!Throw, Tools!Inside
<1>3. /\ new \in Job /\ new.status = "rejected" /\ new.list = job.list /\ new.place = job.place
      /\ new.processors = job.processors /\ new.always = job.always /\ new.ever = job.ever
  BY <1>1 DEF Job, Statuses
<1>4. jobs'[j] = new
  <2>1. j \in DOMAIN jobs
    OBVIOUS
  <2> QED
    BY <1>2, <2>1
<1> HIDE DEF new
<1>5. /\ processors' \in Seq(Made) /\ Len(processors') \in Nat
      /\ \A i \in 1 .. Len(processors') : processors'[i].job \in 0 .. Len(jobs)
      /\ \A k \in 1 .. Len(jobs) : k # j => /\ Tools!CallsOf(k)' = Tools!CallsOf(k)
           /\ \A i \in Tools!CallsOf(k) : processors'[i] = processors[i]
      /\ Tools!CallsOf(j)' = Tools!CallsOf(j)
      /\ \A i \in Tools!CallsOf(j) : processors'[i].place = processors[i].place
                                     /\ processors'[i].name = processors[i].name
  BY <1>2, LastEnds
<1>6. Tools!Called(j)' = Tools!Called(j) /\ OrderedInv(j)'
  BY <1>1, <1>5, SameCalls
<1>7. CallsInv(j)'
  <2>1. Tools!Wanted(new) = Tools!Wanted(job)
    BY <1>3 DEF Tools!Wanted
  <2>2. KnownInv(j)'
    BY <1>1, <1>3, <1>4, <1>6, <2>1 DEF CallsInv, KnownInv
  <2> QED
    BY <1>3, <1>4, <2>2 DEF CallsInv, InsideInv, BehindInv, CalledInv, WentWell, Active
<1> QED
  BY <1>1, <1>2, <1>3, <1>5, <1>6, <1>7, JobChanges DEF Active

(* On to the next capability, aggregate, or the await, when the one asked  *)
(* for was called or is not wanted.                                        *)
LEMMA AdvanceKeeps ==
  ASSUME UtilitiesInv, NEW j \in DOMAIN jobs, Active(jobs[j]), UNCHANGED given,
         jobs' = [jobs EXCEPT ![j] = Tools!Advanced(j)],
         processors' \in Seq(Made), Len(processors') \in Nat,
         \A i \in 1 .. Len(processors') : processors'[i].job \in 0 .. Len(jobs),
         \A k \in 1 .. Len(jobs) : k # j => /\ Tools!CallsOf(k)' = Tools!CallsOf(k)
           /\ \A i \in Tools!CallsOf(k) : processors'[i] = processors[i],
         Tools!CallsOf(j)' = Tools!CallsOf(j),
         \A i \in Tools!CallsOf(j) : processors'[i].place = processors[i].place
                                     /\ processors'[i].name = processors[i].name,
         <<jobs[j].place, Tools!Names[jobs[j].stage]>>
             \in jobs[j].always \cap Tools!Wanted(jobs[j])
           => <<jobs[j].place, Tools!Names[jobs[j].stage]>> \in Tools!Called(j)
  PROVE  UtilitiesInv'
<1> DEFINE job == jobs[j]
           status == Tools!Awaited(j, processors')
<1>1. /\ JobsInv /\ j \in 1 .. Len(jobs) /\ job \in Job /\ CallsInv(j)
      /\ job.place \in 1 .. Len(job.list) /\ job.stage \in 1 .. 4
      /\ job.place \in Nat /\ Len(job.list) \in Nat
  BY JobWithIt
<1>2. /\ status \in {"awaiting", "resolved", "rejected"}
      /\ status = "resolved" => \A i \in Tools!CallsOf(j) : processors'[i].status = "ok"
  <2>1. \A i \in 1 .. Len(processors') : processors'[i].status \in {"running", "ok", "failed"}
    <3>1. \A i \in 1 .. Len(processors') : processors'[i] \in Made
      BY ElementOfSeq
    <3> QED
      BY <3>1 DEF Made
  <2>2. \A i \in Tools!CallsOf(j) : i \in 1 .. Len(processors')
    <3>1. Tools!CallsOf(j)' = {i \in DOMAIN processors' : processors'[i].job = j}
      BY DEF Tools!CallsOf
    <3>2. DOMAIN processors' = 1 .. Len(processors')
      BY LenProperties
    <3> QED
      BY <3>1, <3>2
  <2> QED
    BY <2>1, <2>2 DEF Tools!Awaited
<1> HIDE DEF status
<1>3. PICK new : new = Tools!Advanced(j)
  OBVIOUS
<1>4. new = IF job.stage < 4 THEN [job EXCEPT !.stage = @ + 1, !.status = "loop"]
            ELSE IF job.place < Len(job.list)
            THEN [job EXCEPT !.stage = 1, !.place = @ + 1, !.status = "loop"]
            ELSE [job EXCEPT !.status = status]
  BY <1>3, NamesAre DEF Tools!Advanced, status
<1>5. /\ new \in Job /\ new.list = job.list /\ new.processors = job.processors
      /\ new.always = job.always /\ new.ever = job.ever
      /\ new.place \in 1 .. Len(new.list) /\ new.status # "inside"
      /\ new.status = "resolved" => status = "resolved"
      /\ new.status # "rejected" =>
           \A p \in 1 .. Len(job.list), m \in 1 .. 4 :
             (Active(new) => Past(new, p, m)) =>
               Past(job, p, m) \/ (p = job.place /\ m = job.stage)
      /\ Active(new) => \A p \in Nat, m \in 1 .. 4 : Past(job, p, m) => Past(new, p, m)
  <2>1. CASE job.stage < 4
    <3>1. /\ new \in Job /\ new.list = job.list /\ new.processors = job.processors
          /\ new.always = job.always /\ new.ever = job.ever
          /\ new.place = job.place /\ new.stage = job.stage + 1 /\ new.status = "loop"
      <4>1. new = [job EXCEPT !.stage = @ + 1, !.status = "loop"] /\ job \in Job
        BY <1>1, <1>4, <2>1
      <4>2. job.stage + 1 \in 1 .. 4 /\ "loop" \in Statuses
        BY <1>1, <2>1 DEF Statuses
      <4> HIDE DEF job
      <4> QED
        BY <4>1, <4>2 DEF Job
    <3> QED
      BY <1>1, <3>1 DEF Past, Active
  <2>2. CASE ~(job.stage < 4) /\ job.place < Len(job.list)
    <3>1. /\ new \in Job /\ new.list = job.list /\ new.processors = job.processors
          /\ new.always = job.always /\ new.ever = job.ever
          /\ new.place = job.place + 1 /\ new.stage = 1 /\ new.status = "loop"
      <4>1. new = [job EXCEPT !.stage = 1, !.place = @ + 1, !.status = "loop"] /\ job \in Job
        BY <1>1, <1>4, <2>2
      <4>2. job.place + 1 \in Nat /\ "loop" \in Statuses /\ 1 \in 1 .. 4
        BY <1>1, <2>2 DEF Statuses
      <4> HIDE DEF job
      <4> QED
        BY <4>1, <4>2 DEF Job
    <3>2. job.stage = 4
      BY <1>1, <2>2
    <3> QED
      BY <1>1, <2>2, <3>1, <3>2 DEF Past, Active
  <2>3. CASE ~(job.stage < 4) /\ ~(job.place < Len(job.list))
    <3>1. /\ new \in Job /\ new.list = job.list /\ new.processors = job.processors
          /\ new.always = job.always /\ new.ever = job.ever
          /\ new.place = job.place /\ new.stage = job.stage /\ new.status = status
      BY <1>1, <1>2, <1>4, <2>3 DEF Job, Statuses
    <3>2. job.stage = 4 /\ job.place = Len(job.list)
      BY <1>1, <2>3
    <3> QED
      BY <1>1, <1>2, <3>1, <3>2 DEF Past, Active
  <2> QED
    BY <2>1, <2>2, <2>3
<1>6. Tools!Called(j)' = Tools!Called(j) /\ OrderedInv(j)'
  BY <1>1, SameCalls
<1>7. jobs'[j] = new /\ Tools!Wanted(new) = Tools!Wanted(job)
  BY <1>3, <1>5 DEF Tools!Wanted
<1> HIDE DEF job
<1>8. InsideInv(j)'
  BY <1>5, <1>7 DEF InsideInv
<1>9. KnownInv(j)'
  BY <1>1, <1>5, <1>6, <1>7 DEF CallsInv, KnownInv, job
<1>10. BehindInv(j)'
  <2> SUFFICES ASSUME Active(new), NEW i \in Tools!CallsOf(j)
               PROVE  \E m \in 1 .. 4 : processors[i].name = Tools!Names[m]
                                        /\ Past(new, processors[i].place, m)
    BY <1>7 DEF BehindInv
  <2>1. PICK m \in 1 .. 4 : processors[i].name = Tools!Names[m]
                            /\ Past(job, processors[i].place, m)
    BY <1>1 DEF CallsInv, BehindInv, job
  <2>2. processors[i].place \in Nat
    BY <1>1, JobIs DEF Made
  <2> QED
    BY <1>5, <2>1, <2>2
<1>11. CalledInv(j)'
  <2> SUFFICES ASSUME new.status # "rejected",
                      NEW p \in 1 .. Len(job.list), NEW m \in 1 .. 4,
                      Active(new) => Past(new, p, m),
                      <<p, Tools!Names[m]>> \in job.always \cap Tools!Wanted(job)
               PROVE  <<p, Tools!Names[m]>> \in Tools!Called(j)
    BY <1>5, <1>6, <1>7 DEF CalledInv
  <2>1. CASE Past(job, p, m)
    BY <1>1, <2>1 DEF CallsInv, CalledInv, job, Active
  <2>2. CASE p = job.place /\ m = job.stage
    BY <2>2 DEF job
  <2> QED
    BY <1>5, <2>1, <2>2
<1>12. WentWell(j)'
  BY <1>2, <1>5, <1>7 DEF WentWell
<1>13. CallsInv(j)'
  BY <1>8, <1>9, <1>10, <1>11, <1>12 DEF CallsInv
<1>14. jobs' = [jobs EXCEPT ![j] = new]
  BY <1>3
<1> QED
  BY <1>1, <1>5, <1>6, <1>13, <1>14, JobChanges DEF job

LEMMA SkipKeeps ==
  ASSUME UtilitiesInv, NEW j \in DOMAIN jobs, Tools!Skip(j)
  PROVE  UtilitiesInv'
<1>1. /\ JobsInv /\ jobs[j].status = "loop" /\ ~Tools!Due(j) /\ UNCHANGED <<given, processors>>
      /\ jobs' = [jobs EXCEPT ![j] = Tools!Advanced(j)] /\ HavingInv(jobs[j])
  BY JobWithIt DEF Tools!Skip, Tools!Looping
<1> DEFINE asked == Tools!Names[jobs[j].stage]
<1>2. <<jobs[j].place, asked>> \notin jobs[j].always \cap Tools!Wanted(jobs[j])
  <2> SUFFICES ASSUME <<jobs[j].place, asked>> \in Tools!Having(jobs[j].list, given),
                      <<jobs[j].place, asked>> \in Tools!Wanted(jobs[j])
               PROVE  FALSE
    BY <1>1 DEF HavingInv
  <2>1. asked \in jobs[j].processors
    BY DEF Tools!Wanted
  <2>2. asked \in given[jobs[j].list[jobs[j].place]]
    BY DEF Tools!Having
  <2> QED
    BY <1>1, <2>1, <2>2 DEF Tools!Due, Tools!Asked, Tools!HasCapability
<1>3. /\ processors' \in Seq(Made) /\ Len(processors') \in Nat
      /\ \A i \in 1 .. Len(processors') : processors'[i].job \in 0 .. Len(jobs)
  BY <1>1, JobIs DEF JobsInv
<1>4. \A k : /\ Tools!CallsOf(k)' = Tools!CallsOf(k)
             /\ \A i \in Tools!CallsOf(k) : processors'[i] = processors[i]
  BY <1>1 DEF Tools!CallsOf
<1>5. Active(jobs[j])
  BY <1>1 DEF Active
<1> HIDE DEF asked
<1> QED
  BY <1>1, <1>2, <1>3, <1>4, <1>5, AdvanceKeeps DEF asked

LEMMA ReturnKeeps ==
  ASSUME UtilitiesInv, NEW j \in DOMAIN jobs, Tools!Return(j)
  PROVE  UtilitiesInv'
<1> DEFINE how == IF Tools!Asked(j) = "eventSourcing" THEN "running" ELSE "ok"
<1>1. /\ jobs[j].status = "inside" /\ UNCHANGED given /\ CallsInv(j) /\ how \in {"running", "ok", "failed"}
      /\ processors' = [processors EXCEPT ![Len(processors)].status = how]
      /\ jobs' = [jobs EXCEPT ![j] = Tools!Advanced(j)] /\ Active(jobs[j])
  BY JobWithIt DEF Tools!Return, Tools!Inside, Active
<1> HIDE DEF how
<1>2. <<jobs[j].place, Tools!Names[jobs[j].stage]>> \in Tools!Called(j)
  BY <1>1 DEF CallsInv, InsideInv, Tools!Called
<1>3. /\ processors' \in Seq(Made) /\ Len(processors') \in Nat
      /\ \A i \in 1 .. Len(processors') : processors'[i].job \in 0 .. Len(jobs)
      /\ \A k \in 1 .. Len(jobs) : k # j => /\ Tools!CallsOf(k)' = Tools!CallsOf(k)
           /\ \A i \in Tools!CallsOf(k) : processors'[i] = processors[i]
      /\ Tools!CallsOf(j)' = Tools!CallsOf(j)
      /\ \A i \in Tools!CallsOf(j) : processors'[i].place = processors[i].place
                                     /\ processors'[i].name = processors[i].name
  BY <1>1, LastEnds
<1> QED
  BY <1>1, <1>2, <1>3, AdvanceKeeps

LEMMA SettleKeeps ==
  ASSUME UtilitiesInv, NEW k \in DOMAIN processors, NEW how \in {"ok", "failed"},
         Tools!Settle(k, how)
  PROVE  UtilitiesInv'
<1>1. /\ JobsInv /\ k \in 1 .. Len(processors) /\ Len(processors) \in Nat
      /\ DOMAIN jobs = 1 .. Len(jobs) /\ Len(jobs) \in Nat
  BY JobIs DEF UtilitiesInv
<1> DEFINE settled(j) == IF jobs[j].status = "awaiting"
                         THEN [jobs[j] EXCEPT !.status = Tools!Awaited(j, processors')]
                         ELSE jobs[j]
<1>2. /\ Tools!Idle /\ processors[k].status = "running" /\ UNCHANGED given
      /\ processors' = [processors EXCEPT ![k].status = how]
      /\ jobs' = [j \in 1 .. Len(jobs) |-> settled(j)]
  BY <1>1 DEF Tools!Settle
<1>3. /\ processors' \in Seq(Made) /\ Len(processors') = Len(processors)
      /\ \A i \in 1 .. Len(processors) :
           /\ processors'[i].job = processors[i].job
           /\ processors'[i].place = processors[i].place
           /\ processors'[i].name = processors[i].name
           /\ processors'[i].status = IF i = k THEN how ELSE processors[i].status
           /\ i # k => processors'[i] = processors[i]
      /\ \A j : Tools!CallsOf(j)' = Tools!CallsOf(j)
  <2>1. how \in {"running", "ok", "failed"}
    OBVIOUS
  <2> QED
    BY <1>1, <1>2, <2>1, CallEnds
<1>4. \A j : Tools!Awaited(j, processors') \in {"awaiting", "resolved", "rejected"}
  BY DEF Tools!Awaited
<1>5. \A j : Tools!Awaited(j, processors') = "resolved" =>
        \A i \in Tools!CallsOf(j) : processors'[i].status = "ok"
  <2>1. \A i \in 1 .. Len(processors) : processors'[i].status \in {"running", "ok", "failed"}
    <3>1. \A i \in 1 .. Len(processors') : processors'[i] \in Made
      BY <1>3, ElementOfSeq
    <3> QED
      BY <1>3, <3>1 DEF Made
  <2>2. \A j : \A i \in Tools!CallsOf(j) : i \in 1 .. Len(processors)
    BY <1>1, JobIs
  <2> QED
    BY <2>1, <2>2 DEF Tools!Awaited
<1>6. \A j \in 1 .. Len(jobs) : ~Active(jobs[j])
  BY <1>1, <1>2, JobIs DEF Tools!Idle, Tools!Inside, Tools!Looping, Active
<1>7. ASSUME NEW j \in 1 .. Len(jobs)
      PROVE  /\ settled(j) \in Job /\ ~Active(settled(j))
             /\ settled(j).list = jobs[j].list /\ settled(j).processors = jobs[j].processors
             /\ settled(j).place = jobs[j].place /\ settled(j).always = jobs[j].always
             /\ settled(j).ever = jobs[j].ever
             /\ IF jobs[j].status = "awaiting"
                THEN settled(j).status = Tools!Awaited(j, processors')
                ELSE settled(j) = jobs[j]
  <2>1. jobs[j] \in Job
    BY <1>1, JobIs
  <2>2. PICK status : status = Tools!Awaited(j, processors')
    OBVIOUS
  <2>3. status \in Statuses
    BY <1>4, <2>2 DEF Statuses
  <2>4. ~Active([jobs[j] EXCEPT !.status = status])
    BY <1>4, <2>1, <2>2 DEF Active, Job
  <2> QED
    BY <1>6, <2>1, <2>2, <2>3, <2>4 DEF Job
<1>8. \A j \in 1 .. Len(jobs) : jobs'[j] = settled(j)
  BY <1>2
<1>9. jobs' \in Seq(Job) /\ Len(jobs') = Len(jobs)
  <2>1. jobs' \in [1 .. Len(jobs) -> Job]
    BY <1>2, <1>7
  <2> QED
    BY <1>1, <2>1
<1> HIDE DEF settled
<1>10. JobsInv'
  <2>1. \A j \in 1 .. Len(jobs) :
          /\ jobs'[j].place \in 1 .. Len(jobs'[j].list)
          /\ \A i \in 1 .. Len(jobs'[j].list) : jobs'[j].list[i] \in 1 .. Len(given)
    <3> SUFFICES ASSUME NEW j \in 1 .. Len(jobs)
                 PROVE  /\ jobs'[j].place \in 1 .. Len(jobs'[j].list)
                        /\ \A i \in 1 .. Len(jobs'[j].list) : jobs'[j].list[i] \in 1 .. Len(given)
      OBVIOUS
    <3>1. jobs'[j].list = jobs[j].list /\ jobs'[j].place = jobs[j].place
      BY <1>7, <1>8
    <3>2. /\ jobs[j].place \in 1 .. Len(jobs[j].list)
          /\ \A i \in 1 .. Len(jobs[j].list) : jobs[j].list[i] \in 1 .. Len(given)
      BY <1>1 DEF JobsInv
    <3> QED
      BY <3>1, <3>2
  <2>2. \A i \in 1 .. Len(processors) : processors'[i].job \in 0 .. Len(jobs)
    BY <1>1, <1>3 DEF JobsInv
  <2>3. \A j \in 1 .. Len(jobs) : ~Active(jobs'[j])
    BY <1>7, <1>8
  <2> QED
    BY <1>1, <1>2, <1>3, <1>9, <2>1, <2>2, <2>3 DEF JobsInv, Active
<1>11. ASSUME NEW j \in 1 .. Len(jobs)
       PROVE  (HavingInv(jobs[j]) /\ CallsInv(j) /\ OrderedInv(j))'
  <2>0. HavingInv(jobs[j]) /\ CallsInv(j) /\ jobs'[j] = settled(j)
    BY <1>8 DEF UtilitiesInv
  <2>1. HavingInv(jobs[j])'
    BY <1>2, <1>7, <2>0 DEF HavingInv
  <2>2. \A i \in Tools!CallsOf(j) : i \in 1 .. Len(processors)
    BY <1>1, JobIs
  <2>3. Tools!Called(j)' = Tools!Called(j) /\ OrderedInv(j)'
    BY <1>3, <2>2, SameCalls
  <2>4. Tools!Wanted(settled(j)) = Tools!Wanted(jobs[j])
    BY <1>7 DEF Tools!Wanted
  <2>5. InsideInv(j)' /\ BehindInv(j)'
    BY <1>7, <2>0 DEF InsideInv, BehindInv, Active
  <2>6. KnownInv(j)'
    BY <1>7, <2>0, <2>3, <2>4 DEF CallsInv, KnownInv
  <2>7. CalledInv(j)'
    <3> SUFFICES ASSUME settled(j).status # "rejected",
                        NEW q \in 1 .. Len(jobs[j].list), NEW m \in 1 .. 4,
                        <<q, Tools!Names[m]>> \in jobs[j].always \cap Tools!Wanted(jobs[j])
                 PROVE  <<q, Tools!Names[m]>> \in Tools!Called(j)
      <4>1. /\ jobs'[j].status = settled(j).status /\ jobs'[j].list = jobs[j].list
            /\ jobs'[j].always = jobs[j].always /\ ~Active(jobs'[j])
            /\ Tools!Wanted(jobs'[j]) = Tools!Wanted(jobs[j])
        BY <1>7, <2>0, <2>4
      <4> QED
        BY <2>3, <4>1 DEF CalledInv
    <3>1. jobs[j].status # "rejected"
      BY <1>7
    <3> QED
      BY <1>6, <2>0, <3>1 DEF CallsInv, CalledInv
  <2>8. WentWell(j)'
    <3> SUFFICES ASSUME settled(j).status = "resolved", NEW i \in Tools!CallsOf(j)
                 PROVE  processors'[i].status = "ok"
      BY <1>3, <2>0 DEF WentWell
    <3>1. CASE jobs[j].status = "awaiting"
      BY <1>5, <1>7, <3>1
    <3>2. CASE jobs[j].status # "awaiting"
      <4>1. processors[i].status = "ok"
        BY <1>7, <2>0, <3>2 DEF CallsInv, WentWell
      <4> QED
        BY <1>2, <1>3, <2>2, <4>1
    <3> QED
      BY <3>1, <3>2
  <2> QED
    BY <2>1, <2>3, <2>5, <2>6, <2>7, <2>8 DEF CallsInv
<1> QED
  BY <1>9, <1>10, <1>11 DEF UtilitiesInv

LEMMA UtilitiesInit == Tools!Init => UtilitiesInv
<1> SUFFICES ASSUME Tools!Init PROVE UtilitiesInv
  OBVIOUS
<1>1. given = <<>> /\ jobs = <<>> /\ processors = <<>>
  BY DEF Tools!Init
<1>2. Len(jobs) = 0 /\ Len(processors) = 0
  BY <1>1
<1>3. given \in Seq(SUBSET Tools!All) /\ jobs \in Seq(Job) /\ processors \in Seq(Made)
  BY <1>1
<1> QED
  BY <1>2, <1>3 DEF UtilitiesInv, JobsInv

LEMMA UtilitiesStep ==
  ASSUME UtilitiesInv, [Tools!Next]_tools
  PROVE  UtilitiesInv'
<1>1. \A a \in DOMAIN given : given[a] \in SUBSET Tools!All
  BY JobIs DEF UtilitiesInv
<1>2. ASSUME NEW config, Tools!Build(config) PROVE UtilitiesInv'
  BY <1>2, BuildKeeps
<1>3. ASSUME NEW a \in DOMAIN given, NEW name \in Tools!All, Tools!AddCapability(a, name)
      PROVE  UtilitiesInv'
  <2>1. given[a] \cup {name} \in SUBSET Tools!All
    BY <1>1
  <2> QED
    BY <1>3, <2>1, ChangeKeeps DEF Tools!AddCapability
<1>4. ASSUME NEW a \in DOMAIN given, NEW name \in Tools!All, Tools!RemoveCapability(a, name)
      PROVE  UtilitiesInv'
  <2>1. given[a] \ {name} \in SUBSET Tools!All
    BY <1>1
  <2> QED
    BY <1>4, <2>1, ChangeKeeps DEF Tools!RemoveCapability
<1>5. ASSUME NEW a \in DOMAIN given, NEW name \in Tools!All, Tools!IfCapable(a, name)
      PROVE  UtilitiesInv'
  BY <1>5, IfCapableKeeps
<1>6. ASSUME NEW list \in Tools!Lists, NEW wanted \in Processors,
             Tools!ProcessAggregates(list, wanted)
      PROVE  UtilitiesInv'
  BY <1>6, ProcessKeeps
<1>7. ASSUME NEW j \in DOMAIN jobs,
             Tools!Skip(j) \/ Tools!Call(j) \/ Tools!Return(j) \/ Tools!Throw(j)
      PROVE  UtilitiesInv'
  BY <1>7, SkipKeeps, CallKeeps, ReturnKeeps, ThrowKeeps
<1>8. ASSUME NEW k \in DOMAIN processors, NEW how \in {"ok", "failed"}, Tools!Settle(k, how)
      PROVE  UtilitiesInv'
  BY <1>8, SettleKeeps
<1>9. ASSUME UNCHANGED tools PROVE UtilitiesInv'
  <2>1. UNCHANGED <<given, jobs, processors>>
    BY <1>9 DEF tools
  <2>2. JobsInv'
    BY <2>1 DEF UtilitiesInv, JobsInv
  <2>3. ASSUME NEW j \in 1 .. Len(jobs)
        PROVE  (HavingInv(jobs[j]) /\ CallsInv(j) /\ OrderedInv(j))'
    <3>1. HavingInv(jobs[j])'
      BY <2>1 DEF UtilitiesInv, HavingInv
    <3>2. Tools!CallsOf(j)' = Tools!CallsOf(j)
      BY <2>1 DEF Tools!CallsOf
    <3> QED
      BY <2>1, <3>1, <3>2, Untouched
  <2> QED
    BY <2>1, <2>2, <2>3 DEF UtilitiesInv
<1> QED
  BY <1>2, <1>3, <1>4, <1>5, <1>6, <1>7, <1>8, <1>9 DEF Tools!Next

LEMMA UtilitiesTyped == UtilitiesInv => Tools!TypeOK
<1> SUFFICES ASSUME UtilitiesInv PROVE Tools!TypeOK
  OBVIOUS
<1>1. JobsInv
  BY DEF UtilitiesInv
<1>2. Tools!Range(given) \subseteq SUBSET Tools!All
  BY <1>1, JobIs DEF Tools!Range
<1>3. ASSUME NEW job \in Tools!Range(jobs)
      PROVE  /\ job.place \in DOMAIN job.list /\ job.stage \in DOMAIN Tools!Names
             /\ job.status \in Statuses
  <2>1. PICK j \in 1 .. Len(jobs) : job = jobs[j]
    BY <1>1, JobIs DEF Tools!Range
  <2>2. jobs[j].place \in 1 .. Len(jobs[j].list)
    BY <1>1 DEF JobsInv
  <2>3. jobs[j] \in Job /\ DOMAIN jobs[j].list = 1 .. Len(jobs[j].list)
    BY <1>1, JobIs
  <2> QED
    BY <2>1, <2>2, <2>3, NamesAre DEF Job
<1>4. ASSUME NEW one \in Tools!Range(processors)
      PROVE  one.status \in {"running", "ok", "failed"}
  <2>1. PICK i \in 1 .. Len(processors) : one = processors[i]
    BY <1>1, JobIs DEF Tools!Range
  <2> QED
    BY <1>1, <2>1, JobIs DEF Made
<1> DEFINE active == {j \in DOMAIN jobs : Tools!Looping(j) \/ Tools!Inside(j)}
<1>5. Cardinality(active) <= 1
  <2>1. \A j, k \in active : j = k
    BY <1>1, JobIs DEF JobsInv, Active, Tools!Looping, Tools!Inside
  <2>2. active = {} \/ \E j : active = {j}
    BY <2>1
  <2> HIDE DEF active
  <2>3. CASE active = {}
    BY <2>3, FS_EmptySet
  <2>4. ASSUME NEW j, active = {j} PROVE Cardinality(active) = 1
    BY <2>4, FS_Singleton
  <2> QED
    BY <2>2, <2>3, <2>4
<1>6. Tools!Cardinality(active) = Cardinality(active)
  BY DEF Tools!Cardinality, Cardinality
<1> QED
  BY <1>2, <1>3, <1>4, <1>5, <1>6 DEF Tools!TypeOK, Statuses

LEMMA UtilitiesProcess == UtilitiesInv => Tools!ResolvedMeansProcessed
<1> SUFFICES ASSUME UtilitiesInv, NEW j \in DOMAIN jobs
             PROVE  /\ jobs[j].status = "resolved" =>
                         /\ jobs[j].always \cap Tools!Wanted(jobs[j]) \subseteq Tools!Called(j)
                         /\ Tools!Called(j) \subseteq jobs[j].ever \cap Tools!Wanted(jobs[j])
                         /\ \A i \in Tools!CallsOf(j) : processors[i].status = "ok"
                    /\ \A i, k \in Tools!CallsOf(j) : i < k =>
                         \/ processors[i].place < processors[k].place
                         \/ /\ processors[i].place = processors[k].place
                            /\ \E m, n \in DOMAIN Tools!Names :
                                 /\ m < n /\ processors[i].name = Tools!Names[m]
                                 /\ processors[k].name = Tools!Names[n]
  BY DEF Tools!ResolvedMeansProcessed
<1>1. CallsInv(j) /\ OrderedInv(j) /\ jobs[j] \in Job
      /\ DOMAIN jobs[j].list = 1 .. Len(jobs[j].list)
  BY JobWithIt, JobIs
<1>2. ASSUME jobs[j].status = "resolved",
             NEW w \in jobs[j].always \cap Tools!Wanted(jobs[j])
      PROVE  w \in Tools!Called(j)
  <2>1. PICK p \in 1 .. Len(jobs[j].list), name \in jobs[j].processors : w = <<p, name>>
    BY <1>1 DEF Tools!Wanted
  <2>2. name \in Tools!All
    BY <1>1 DEF Job
  <2>3. PICK m \in 1 .. 4 : name = Tools!Names[m]
    BY <2>2, NamesAre
  <2> QED
    BY <1>1, <1>2, <2>1, <2>3 DEF CallsInv, CalledInv, Active
<1>3. jobs[j].status = "resolved" => \A i \in Tools!CallsOf(j) : processors[i].status = "ok"
  BY <1>1 DEF CallsInv, WentWell
<1>4. Tools!Called(j) \subseteq jobs[j].ever \cap Tools!Wanted(jobs[j])
  BY <1>1 DEF CallsInv, KnownInv
<1>5. DOMAIN Tools!Names = 1 .. 4
  BY NamesAre
<1> QED
  BY <1>1, <1>2, <1>3, <1>4, <1>5 DEF OrderedInv, Precedes

(* Whatever the aggregates can, whatever list with whatever repetitions is *)
(* processed, and whatever the processors do to capabilities meanwhile: a  *)
(* job that resolves has called the processor of every capability that was *)
(* there all along, and of none that never was, once, in order, and every  *)
(* call went well (processAggregatesWithCapabilities).                     *)
THEOREM AllAreProcessed == MCSpec => []AllWereProcessed
<1>1. MCInit => UtilitiesInv
  BY UtilitiesInit DEF MCInit
<1>2. UtilitiesInv /\ [MCNext]_mcvars => UtilitiesInv'
  BY PartsStay, UtilitiesStep
<1>3. UtilitiesInv => AllWereProcessed
  BY UtilitiesTyped, UtilitiesProcess DEF AllWereProcessed
<1> QED
  BY <1>1, <1>2, <1>3, PTL DEF MCSpec

-----------------------------------------------------------------------------
(* The comparison of two object graphs, for every heap, circular or not.   *)
(* EqualIsProved only speaks of the end.  The invariant carries it there:  *)
(* every key of a visited pair either holds two values that need no        *)
(* further look, or is still on the stack to be compared (KeysAccounted).      *)
(* When the stack is empty only the first case is left.                    *)

\* The frames of a stack are pairs that were visited, with keys of both.
FramesOf(s) ==
    \A i \in 1 .. Len(s) : /\ visited[s[i].left] = s[i].right
                           /\ s[i].keys \subseteq KeysOf(s[i].left)

OnceIn(s) == \A i, j \in 1 .. Len(s) : s[i].left = s[j].left => i = j

Todo(s, o, k) == \E i \in 1 .. Len(s) : s[i].left = o /\ k \in s[i].keys

\* Every visited pair has the same keys, and a key that is not alike is to do.
KeysAccounted ==
    result # "different" =>
        \A o \in Objects : visited[o] # NotMet =>
            /\ KeysOf(o) = KeysOf(visited[o])
            /\ \A k \in KeysOf(o) :
                  Alike(heap[o][k], heap[visited[o]][k]) \/ Todo(stack, o, k)

Begun == result \in {"comparing", "equal"} => Alike(left, right)

Fresh ==
    result = "called" => stack = << >> /\ \A o \in Objects : visited[o] = NotMet

ComparisonInv ==
    /\ ComparisonOK
    /\ FramesOf(stack)
    /\ EnteredOnce
    /\ KeysAccounted
    /\ Begun
    /\ Fresh

-----------------------------------------------------------------------------
\* A key an object has holds a value.
LEMMA KeysHoldValues ==
    ASSUME ComparisonOK, NEW o \in Objects, NEW k \in KeysOf(o)
    PROVE  heap[o][k] \in Values
  BY DEF ComparisonOK, Heaps, KeysOf, Values

\* One call of deepEqual keeps the invariant, when the values it compares are
\* the only ones the stack of its callers no longer has to do.
LEMMA CompareKeeps ==
    ASSUME NEW v \in Values, NEW w \in Values, NEW rest \in Seq(Frames),
           ComparisonOK, FramesOf(stack), EnteredOnce,
           FramesOf(rest), OnceIn(rest),
           result \in {"called", "comparing"},
           \A o \in Objects : visited[o] # NotMet =>
               /\ KeysOf(o) = KeysOf(visited[o])
               /\ \A k \in KeysOf(o) :
                     \/ Alike(heap[o][k], heap[visited[o]][k])
                     \/ Todo(rest, o, k)
                     \/ heap[o][k] = v /\ heap[visited[o]][k] = w,
           Alike(left, right) \/ (left = v /\ right = w),
           Compare(v, w, rest)
    PROVE  ComparisonInv'
<1>0. NotMet \notin Objects
  BY DisjointAssumption DEF NotMet
<1>1. heap' = heap /\ left' = left /\ right' = right
  BY DEF Compare
<1>2. \A o : KeysOf(o)' = KeysOf(o)
  BY <1>1 DEF KeysOf
<1>3. CASE Identical(v, w, rest)
  <2>1. visited' = visited /\ stack' = rest /\ result' = "comparing" /\ v = w
    BY <1>3 DEF Identical
  <2>2. \A x, y : Alike(x, y)' <=> Alike(x, y)
    BY <2>1 DEF Alike
  <2>3. Alike(v, w)
    BY <2>1 DEF Alike
  <2>4. ComparisonOK'
    BY <1>1, <2>1 DEF ComparisonOK
  <2>5. FramesOf(stack)' /\ EnteredOnce'
    BY <1>2, <2>1 DEF FramesOf, OnceIn, EnteredOnce
  <2>6. KeysAccounted'
    BY <1>1, <1>2, <2>1, <2>2, <2>3 DEF KeysAccounted, Todo
  <2>7. Begun' /\ Fresh'
    BY <1>1, <2>1, <2>2, <2>3 DEF Begun, Fresh
  <2> QED
    BY <2>4, <2>5, <2>6, <2>7 DEF ComparisonInv
<1>4. CASE Unlike(v, w)
  <2>1. visited' = visited /\ stack' = stack /\ result' = "different"
    BY <1>4 DEF Unlike
  <2>2. ComparisonOK'
    BY <1>1, <2>1 DEF ComparisonOK
  <2>3. FramesOf(stack)' /\ EnteredOnce'
    BY <1>2, <2>1 DEF FramesOf, EnteredOnce
  <2> QED
    BY <2>1, <2>2, <2>3 DEF ComparisonInv, KeysAccounted, Begun, Fresh
<1>5. CASE MetBefore(v, w, rest) /\ visited[v] = w
  <2>1. visited' = visited /\ stack' = rest /\ result' = "comparing"
    BY <1>5 DEF MetBefore
  <2>2. \A x, y : Alike(x, y)' <=> Alike(x, y)
    BY <2>1 DEF Alike
  <2>3. Alike(v, w)
    BY <1>5 DEF Alike, MetBefore
  <2>4. ComparisonOK'
    BY <1>1, <2>1 DEF ComparisonOK
  <2>5. FramesOf(stack)' /\ EnteredOnce'
    BY <1>2, <2>1 DEF FramesOf, OnceIn, EnteredOnce
  <2>6. KeysAccounted'
    BY <1>1, <1>2, <2>1, <2>2, <2>3 DEF KeysAccounted, Todo
  <2>7. Begun' /\ Fresh'
    BY <1>1, <2>1, <2>2, <2>3 DEF Begun, Fresh
  <2> QED
    BY <2>4, <2>5, <2>6, <2>7 DEF ComparisonInv
<1>6. CASE MetBefore(v, w, rest) /\ visited[v] # w
  <2>1. visited' = visited /\ stack' = stack /\ result' = "different"
    BY <1>6 DEF MetBefore
  <2>2. ComparisonOK'
    BY <1>1, <2>1 DEF ComparisonOK
  <2>3. FramesOf(stack)' /\ EnteredOnce'
    BY <1>2, <2>1 DEF FramesOf, EnteredOnce
  <2> QED
    BY <2>1, <2>2, <2>3 DEF ComparisonInv, KeysAccounted, Begun, Fresh
<1>7. CASE OtherKeys(v, w)
  <2>1. /\ v \in Objects /\ w \in Objects /\ visited[v] = NotMet
        /\ visited' = [visited EXCEPT ![v] = w]
        /\ stack' = stack /\ result' = "different"
    BY <1>7 DEF OtherKeys
  <2>2. ComparisonOK'
    BY <1>1, <2>1 DEF ComparisonOK
  <2>3. ASSUME NEW i \in 1 .. Len(stack)
        PROVE  visited'[stack[i].left] = visited[stack[i].left]
    <3>1. stack[i] \in Frames
      BY DEF ComparisonOK
    <3>2. visited[stack[i].left] = stack[i].right /\ stack[i].right \in Objects
      BY <3>1 DEF FramesOf, Frames
    <3>3. stack[i].left # v
      BY <1>0, <2>1, <3>2
    <3> QED
      BY <2>1, <3>1, <3>3 DEF ComparisonOK, Frames
  <2>4. FramesOf(stack)' /\ EnteredOnce'
    BY <1>2, <2>1, <2>3 DEF FramesOf, EnteredOnce
  <2> QED
    BY <2>1, <2>2, <2>4 DEF ComparisonInv, KeysAccounted, Begun, Fresh
<1>8. CASE Enter(v, w, rest)
  <2> DEFINE top == [left |-> v, right |-> w, keys |-> KeysOf(v)]
             alike(x, y) == x = y \/ (x \in Objects /\ y \in Objects /\ visited'[x] = y)
             todo(o, k) == \E i \in 1 .. Len(stack') : stack'[i].left = o /\ k \in stack'[i].keys
  <2>1. /\ v \in Objects /\ w \in Objects /\ visited[v] = NotMet
        /\ KeysOf(v) = KeysOf(w)
        /\ visited' = [visited EXCEPT ![v] = w]
        /\ stack' = Append(rest, top) /\ result' = "comparing"
    BY <1>8 DEF Enter
  <2>2. top \in Frames
    BY <2>1 DEF Frames, KeysOf
  <2>3. /\ stack' \in Seq(Frames) /\ Len(stack') = Len(rest) + 1
        /\ \A i \in 1 .. Len(rest) : stack'[i] = rest[i]
        /\ stack'[Len(rest) + 1] = top
    BY <2>1, <2>2
  <2>4. ComparisonOK'
    BY <1>1, <2>1, <2>3 DEF ComparisonOK
  <2>5. /\ visited'[v] = w
        /\ \A o \in Objects : o # v => visited'[o] = visited[o]
        /\ \A o \in Objects : visited[o] # NotMet => visited'[o] = visited[o]
    BY <2>1 DEF ComparisonOK
  <2>6. ASSUME NEW i \in 1 .. Len(rest)
        PROVE  /\ rest[i] \in Frames /\ rest[i].left \in Objects
               /\ rest[i].left # v
               /\ visited'[rest[i].left] = rest[i].right
    <3>1. rest[i] \in Frames
      OBVIOUS
    <3>2. visited[rest[i].left] = rest[i].right /\ rest[i].right \in Objects
      BY <3>1 DEF FramesOf, Frames
    <3>3. rest[i].left # v /\ rest[i].left \in Objects
      BY <1>0, <2>1, <3>1, <3>2 DEF Frames
    <3> QED
      BY <2>5, <3>1, <3>2, <3>3
  <2>7. FramesOf(stack)'
    <3>1. ASSUME NEW i \in 1 .. Len(rest) + 1
          PROVE  /\ visited'[stack'[i].left] = stack'[i].right
                 /\ stack'[i].keys \subseteq KeysOf(stack'[i].left)
      <4>1. CASE i = Len(rest) + 1
        BY <2>3, <2>5, <4>1
      <4>2. CASE i \in 1 .. Len(rest)
        BY <2>3, <2>6, <4>2 DEF FramesOf
      <4> QED
        BY <4>1, <4>2
    <3> QED
      BY <1>2, <2>3, <3>1 DEF FramesOf
  <2>8. EnteredOnce'
    <3>1. \A i \in 1 .. Len(rest) + 1 :
             stack'[i].left = v => i = Len(rest) + 1
      BY <2>3, <2>6
    <3>2. stack'[Len(rest) + 1].left = v
      BY <2>3
    <3>3. ASSUME NEW i \in 1 .. Len(rest) + 1, NEW j \in 1 .. Len(rest) + 1,
                 stack'[i].left = stack'[j].left
          PROVE  i = j
      <4>1. CASE i = Len(rest) + 1 \/ j = Len(rest) + 1
        BY <3>1, <3>2, <3>3, <4>1
      <4>2. CASE i \in 1 .. Len(rest) /\ j \in 1 .. Len(rest)
        BY <2>3, <3>3, <4>2 DEF OnceIn
      <4> QED
        BY <4>1, <4>2
    <3> QED
      BY <2>3, <3>3 DEF EnteredOnce
  <2>9. \A x, y : Alike(x, y) => alike(x, y)
    BY <1>0, <2>5 DEF Alike
  <2>10. alike(v, w)
    BY <2>1, <2>5 DEF Alike
  <2>11. \A o, k : Todo(rest, o, k) => todo(o, k)
    BY <2>3 DEF Todo
  <2>12. \A k \in KeysOf(v) : todo(v, k)
    BY <2>3 DEF Todo
  <2>13. ASSUME NEW o \in Objects, visited'[o] # NotMet
         PROVE  /\ KeysOf(o) = KeysOf(visited'[o])
                /\ \A k \in KeysOf(o) :
                      alike(heap[o][k], heap[visited'[o]][k]) \/ todo(o, k)
    <3>1. CASE o = v
      BY <2>1, <2>5, <2>12, <3>1
    <3>2. CASE o # v
      <4>1. visited[o] # NotMet /\ visited'[o] = visited[o]
        BY <2>5, <2>13, <3>2
      <4>2. KeysOf(o) = KeysOf(visited[o])
        BY <4>1
      <4>3. ASSUME NEW k \in KeysOf(o)
            PROVE  alike(heap[o][k], heap[visited'[o]][k]) \/ todo(o, k)
        <5>1. \/ Alike(heap[o][k], heap[visited[o]][k])
              \/ Todo(rest, o, k)
              \/ heap[o][k] = v /\ heap[visited[o]][k] = w
          BY <4>1
        <5>2. CASE Alike(heap[o][k], heap[visited[o]][k])
          BY <2>9, <4>1, <5>2
        <5>3. CASE Todo(rest, o, k)
          BY <2>11, <5>3
        <5>4. CASE heap[o][k] = v /\ heap[visited[o]][k] = w
          BY <2>10, <4>1, <5>4
        <5> QED
          BY <5>1, <5>2, <5>3, <5>4
      <4> QED
        BY <4>1, <4>2, <4>3
    <3> QED
      BY <3>1, <3>2
  <2>14. KeysAccounted'
    BY <1>1, <1>2, <2>13 DEF KeysAccounted, Alike, Todo
  <2>15. Begun' /\ Fresh'
    BY <1>1, <2>1, <2>9, <2>10 DEF Begun, Fresh, Alike
  <2> QED
    BY <2>4, <2>7, <2>8, <2>14, <2>15 DEF ComparisonInv
<1> QED
  BY <1>3, <1>4, <1>5, <1>6, <1>7, <1>8 DEF Compare

-----------------------------------------------------------------------------
LEMMA ComparisonBegins == ASSUME ComparisonInit PROVE ComparisonInv
<1>1. ComparisonOK
  <2>1. << >> \in Seq(Frames)
    OBVIOUS
  <2>2. visited \in [Objects -> Objects \union {NotMet}]
    BY DEF ComparisonInit, InitWith
  <2> QED
    BY <2>1, <2>2 DEF ComparisonInit, InitWith, ComparisonOK
<1>2. stack = << >> /\ result = "called" /\ \A o \in Objects : visited[o] = NotMet
  BY DEF ComparisonInit, InitWith
<1>3. FramesOf(stack) /\ EnteredOnce
  BY <1>2 DEF FramesOf, EnteredOnce
<1>4. KeysAccounted /\ Begun /\ Fresh
  BY <1>2 DEF KeysAccounted, Begun, Fresh
<1> QED
  BY <1>1, <1>3, <1>4 DEF ComparisonInv

LEMMA StartKeeps == ASSUME ComparisonInv, Start PROVE ComparisonInv'
<1>1. stack = << >> /\ result = "called" /\ \A o \in Objects : visited[o] = NotMet
  BY DEF ComparisonInv, Fresh, Start
<1>2. PICK v \in Values, w \in Values : v = left /\ w = right
  BY DEF ComparisonInv, ComparisonOK
<1>3. << >> \in Seq(Frames) /\ FramesOf(<< >>) /\ OnceIn(<< >>)
  BY DEF FramesOf, OnceIn
<1>4. Compare(v, w, << >>)
  BY <1>2 DEF Start
<1>5. ComparisonOK /\ FramesOf(stack) /\ EnteredOnce
  BY DEF ComparisonInv
<1>6. \A o \in Objects : visited[o] = NotMet
  BY <1>1
<1> QED
  BY <1>1, <1>2, <1>3, <1>4, <1>5, <1>6, CompareKeeps

\* What is left to do when the innermost pair has one key less to do.
LEMMA NextKeyKeeps == ASSUME ComparisonInv, NextKey PROVE ComparisonInv'
<1> DEFINE n == Len(stack)
<1>1. /\ ComparisonOK /\ FramesOf(stack) /\ EnteredOnce /\ KeysAccounted /\ Begun
      /\ result = "comparing" /\ stack # << >> /\ stack \in Seq(Frames)
  BY DEF ComparisonInv, NextKey, ComparisonOK
<1>2. n \in 1 .. Len(stack)
  BY <1>1
<1> DEFINE less(k) == [left |-> stack[n].left, right |-> stack[n].right,
                       keys |-> stack[n].keys \ {k}]
           without(k) == [stack EXCEPT ![n] = less(k)]
<1>3. PICK k \in stack[n].keys :
          Compare(heap[stack[n].left][k], heap[stack[n].right][k], without(k))
  BY DEF NextKey
<1>4. stack[n] \in Frames
  BY <1>1, <1>2
<1>5. PICK top \in Objects : top = stack[n].left
  BY <1>4 DEF Frames
<1>6. /\ visited[top] = stack[n].right /\ visited[top] # NotMet
      /\ k \in KeysOf(top)
      /\ stack[n].right \in Objects
  BY <1>1, <1>2, <1>3, <1>4, <1>5, DisjointAssumption DEF FramesOf, Frames, NotMet
<1>7. KeysOf(top) = KeysOf(stack[n].right)
  BY <1>1, <1>6 DEF KeysAccounted
<1>8. PICK v \in Values, w \in Values :
          v = heap[top][k] /\ w = heap[stack[n].right][k]
  BY <1>1, <1>6, <1>7, KeysHoldValues
<1>9. PICK rest : rest = without(k)
  OBVIOUS
<1>10. less(k) \in Frames
  BY <1>4 DEF Frames
<1>11. /\ rest \in Seq(Frames) /\ Len(rest) = n
       /\ rest[n] = less(k)
       /\ \A i \in 1 .. n : i # n => rest[i] = stack[i]
  <2>1. PICK e \in Frames : e = less(k)
    BY <1>10
  <2>2. PICK s \in Seq(Frames) : s = stack
    BY <1>1
  <2>3. PICK m \in 1 .. Len(s) : m = n
    BY <1>2, <2>2
  <2>4. /\ [s EXCEPT ![m] = e] \in Seq(Frames)
        /\ Len([s EXCEPT ![m] = e]) = Len(s)
        /\ \A j \in 1 .. Len(s) : [s EXCEPT ![m] = e][j] = IF j = m THEN e ELSE s[j]
    BY ONLY <2>1, <2>2, <2>3, ExceptSeq
  <2>5. rest = [s EXCEPT ![m] = e]
    BY <1>9, <2>1, <2>2, <2>3
  <2> HIDE DEF less, without
  <2> QED
    BY <1>2, <2>1, <2>2, <2>3, <2>4, <2>5
<1>12. \A i \in 1 .. n : /\ rest[i].left = stack[i].left
                         /\ rest[i].right = stack[i].right
                         /\ rest[i].keys \subseteq stack[i].keys
                         /\ i # n => rest[i].keys = stack[i].keys
  BY <1>11
<1>13. FramesOf(rest)
  BY <1>1, <1>11, <1>12 DEF FramesOf
<1>14. OnceIn(rest)
  BY <1>1, <1>11, <1>12 DEF OnceIn, EnteredOnce
<1>15. Compare(v, w, rest)
  BY <1>3, <1>5, <1>8, <1>9
<1>16. ASSUME NEW o \in Objects, visited[o] # NotMet
       PROVE  /\ KeysOf(o) = KeysOf(visited[o])
              /\ \A h \in KeysOf(o) :
                    \/ Alike(heap[o][h], heap[visited[o]][h])
                    \/ Todo(rest, o, h)
                    \/ heap[o][h] = v /\ heap[visited[o]][h] = w
  <2>1. KeysOf(o) = KeysOf(visited[o])
    BY <1>1, <1>16 DEF KeysAccounted
  <2>2. ASSUME NEW h \in KeysOf(o)
        PROVE  \/ Alike(heap[o][h], heap[visited[o]][h])
               \/ Todo(rest, o, h)
               \/ heap[o][h] = v /\ heap[visited[o]][h] = w
    <3>1. Alike(heap[o][h], heap[visited[o]][h]) \/ Todo(stack, o, h)
      BY <1>1, <1>16 DEF KeysAccounted
    <3>2. ASSUME Todo(stack, o, h)
          PROVE  Todo(rest, o, h) \/ (heap[o][h] = v /\ heap[visited[o]][h] = w)
      <4>1. PICK i \in 1 .. n : stack[i].left = o /\ h \in stack[i].keys
        BY <3>2 DEF Todo
      <4>2. CASE i = n /\ h = k
        BY <1>5, <1>6, <1>8, <4>1, <4>2
      <4>3. CASE i = n /\ h # k
        <5>1. h \in rest[i].keys /\ rest[i].left = o
          BY <1>11, <4>1, <4>3
        <5> QED
          BY <1>11, <5>1 DEF Todo
      <4>4. CASE i # n
        BY <1>11, <1>12, <4>1, <4>4 DEF Todo
      <4> QED
        BY <4>2, <4>3, <4>4
    <3> QED
      BY <3>1, <3>2
  <2> QED
    BY <2>1, <2>2
<1>17. Alike(left, right)
  BY <1>1 DEF Begun
<1> QED
  BY <1>1, <1>11, <1>13, <1>14, <1>15, <1>16, <1>17, CompareKeeps

LEMMA ReturnTrueKeeps == ASSUME ComparisonInv, ReturnTrue PROVE ComparisonInv'
<1> DEFINE n == Len(stack)
<1>1. /\ ComparisonOK /\ FramesOf(stack) /\ EnteredOnce /\ KeysAccounted /\ Begun
      /\ result = "comparing" /\ stack # << >> /\ stack \in Seq(Frames)
      /\ stack[n].keys = {}
      /\ stack' = SubSeq(stack, 1, n - 1)
      /\ UNCHANGED <<heap, left, right, visited, result>>
  BY DEF ComparisonInv, ReturnTrue, ComparisonOK
<1>2. n \in Nat /\ n > 0
  BY <1>1
<1>3. /\ stack' \in Seq(Frames) /\ Len(stack') = n - 1
      /\ \A i \in 1 .. n - 1 : stack'[i] = stack[i]
  <2>1. n - 1 \in Int /\ \A i \in 1 .. n - 1 : stack[i] \in Frames
    BY <1>1, <1>2
  <2>2. PICK t : t = SubSeq(stack, 1, n - 1)
    OBVIOUS
  <2>3. PICK m \in Int : m = n - 1
    BY <2>1
  <2>4. /\ SubSeq(stack, 1, m) \in Seq(Frames)
        /\ Len(SubSeq(stack, 1, m)) = IF 1 <= m THEN m - 1 + 1 ELSE 0
        /\ \A i \in 1 .. m - 1 + 1 : SubSeq(stack, 1, m)[i] = stack[1 + i - 1]
    BY <2>1, <2>3, SubSeqProperties
  <2>5. /\ t \in Seq(Frames)
        /\ Len(t) = IF 1 <= m THEN m - 1 + 1 ELSE 0
        /\ \A i \in 1 .. m - 1 + 1 : t[i] = stack[1 + i - 1]
    BY ONLY <2>2, <2>3, <2>4, Zenon
  <2>6. stack' = t
    BY <1>1, <2>2
  <2>7. m - 1 + 1 = m /\ (1 <= m \/ m = 0)
    BY <1>2, <2>3
  <2>8. Len(t) = m
    BY <2>5, <2>7
  <2>9. \A i \in 1 .. m : t[i] = stack[i]
    BY <2>5, <2>7
  <2> QED
    BY <2>3, <2>5, <2>6, <2>8, <2>9
<1>4. ComparisonOK'
  BY <1>1, <1>3 DEF ComparisonOK
<1>5. \A o : KeysOf(o)' = KeysOf(o)
  BY <1>1 DEF KeysOf
<1>6. FramesOf(stack)'
  BY <1>1, <1>2, <1>3, <1>5 DEF FramesOf
<1>7. EnteredOnce'
  BY <1>1, <1>2, <1>3 DEF EnteredOnce
<1>8. \A o, k : Todo(stack, o, k) => Todo(stack, o, k)'
  <2> SUFFICES ASSUME NEW o, NEW k, Todo(stack, o, k)
               PROVE  Todo(stack, o, k)'
    OBVIOUS
  <2>1. PICK i \in 1 .. n : stack[i].left = o /\ k \in stack[i].keys
    BY DEF Todo
  <2>2. i # n
    BY <1>1, <2>1
  <2> QED
    BY <1>2, <1>3, <2>1, <2>2 DEF Todo
<1>9. \A x, y : Alike(x, y)' <=> Alike(x, y)
  BY <1>1 DEF Alike
<1>10. KeysAccounted'
  BY <1>1, <1>5, <1>8, <1>9 DEF KeysAccounted
<1>11. Begun' /\ Fresh'
  BY <1>1, <1>9 DEF Begun, Fresh
<1> QED
  BY <1>4, <1>6, <1>7, <1>10, <1>11 DEF ComparisonInv

LEMMA FinishKeeps == ASSUME ComparisonInv, Finish PROVE ComparisonInv'
<1>1. /\ stack = << >> /\ result' = "equal" /\ result = "comparing"
      /\ UNCHANGED <<heap, left, right, stack, visited>>
  BY DEF Finish
<1>2. ComparisonOK'
  BY <1>1 DEF ComparisonInv, ComparisonOK
<1>3. \A o : KeysOf(o)' = KeysOf(o)
  BY <1>1 DEF KeysOf
<1>4. \A x, y : Alike(x, y)' <=> Alike(x, y)
  BY <1>1 DEF Alike
<1>5. FramesOf(stack)' /\ EnteredOnce'
  BY <1>1, <1>3 DEF ComparisonInv, FramesOf, EnteredOnce
<1>6. KeysAccounted'
  BY <1>1, <1>3, <1>4 DEF ComparisonInv, KeysAccounted, Todo
<1>7. Begun' /\ Fresh'
  BY <1>1, <1>4 DEF ComparisonInv, Begun, Fresh
<1> QED
  BY <1>2, <1>5, <1>6, <1>7 DEF ComparisonInv

LEMMA ComparisonStutters == ASSUME ComparisonInv, UNCHANGED comparison PROVE ComparisonInv'
  BY DEF comparison, ComparisonInv, ComparisonOK, FramesOf, EnteredOnce, KeysAccounted, Begun, Fresh,
         Todo, Alike, KeysOf

LEMMA ComparisonStep == ASSUME ComparisonInv, [ComparisonNext]_comparison PROVE ComparisonInv'
  BY StartKeeps, NextKeyKeeps, ReturnTrueKeeps, FinishKeeps, ComparisonStutters DEF ComparisonNext

LEMMA ComparisonInvariance == ComparisonSpec => []ComparisonInv
<1>1. ComparisonInit => ComparisonInv
  BY ComparisonBegins
<1>2. ComparisonInv /\ [ComparisonNext]_comparison => ComparisonInv'
  BY ComparisonStep
<1> QED
  BY <1>1, <1>2, PTL DEF ComparisonSpec

\* The state of a comparison keeps its shape (LibUtils.deepEqual).
THEOREM ComparisonTypes == ComparisonSpec => []ComparisonOK
<1>1. ComparisonInv => ComparisonOK
  BY DEF ComparisonInv
<1> QED
  BY <1>1, ComparisonInvariance, PTL

\* On every heap, circular or not, no object of the first graph is entered again
\* while it is being compared (visitedPairs of LibUtils.deepEqual).
THEOREM NeverEnteredTwice == ComparisonSpec => []EnteredOnce
<1>1. ComparisonInv => EnteredOnce
  BY DEF ComparisonInv
<1> QED
  BY <1>1, ComparisonInvariance, PTL

\* On every heap, a comparison that answers true has visited pairs that prove
\* it: the two graphs agree along every path (LibUtils.deepEqual).
THEOREM TrueAnswersAreProved == ComparisonSpec => []EqualIsProved
<1>1. ASSUME ComparisonInv, result = "equal"
      PROVE  /\ Alike(left, right)
             /\ \A o \in Objects : visited[o] # NotMet =>
                   /\ KeysOf(o) = KeysOf(visited[o])
                   /\ \A k \in KeysOf(o) : Alike(heap[o][k], heap[visited[o]][k])
  <2>1. stack = << >>
    BY <1>1 DEF ComparisonInv, ComparisonOK
  <2>2. \A o, k : ~Todo(stack, o, k)
    BY <2>1 DEF Todo
  <2>3. Alike(left, right)
    BY <1>1 DEF ComparisonInv, Begun
  <2> QED
    BY <1>1, <2>2, <2>3 DEF ComparisonInv, KeysAccounted
<1>2. ComparisonInv => EqualIsProved
  BY <1>1 DEF EqualIsProved
<1> QED
  BY <1>2, ComparisonInvariance, PTL

=============================================================================
