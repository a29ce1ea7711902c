---------------------------- MODULE AggregateTools ----------------------------
(***************************************************************************)
(* The ways aggregates get their capabilities (aggregate-root.builder.ts)  *)
(* and what an application does to them by capability                      *)
(* (aggregate-utilities.ts): one operation on an aggregate that may have   *)
(* the capability, and processAggregatesWithCapabilities, which goes over  *)
(* a list, calls the processors of each aggregate's capabilities, and      *)
(* awaits the asynchronous ones together.  The loop is synchronous, but a  *)
(* processor it calls may give and take capabilities.  AggregateRoot has   *)
(* what the capabilities do.                                               *)
(***************************************************************************)
EXTENDS Naturals, Sequences, FiniteSets, SequencesExt

CONSTANTS
  Configs,       \* the CapabilityConfigs, as sets of what is enabled
  Processors,    \* sets of the processors given
  MaxAggregates, MaxLength, MaxJobs, MaxChanges    \* bounds: aggregates, length
                 \* of a list, jobs and changes of capabilities

\* In the order in which the loop asks for them.
Names == <<"snapshot", "audit", "versioning", "eventSourcing">>
All   == Range(Names)

ToolsAssumption ==
  /\ Configs \subseteq SUBSET All /\ Processors \subseteq SUBSET All
  /\ {MaxAggregates, MaxLength, MaxJobs, MaxChanges} \subseteq Nat

VARIABLES
  caps,      \* Seq(SUBSET All): the capabilities of each aggregate
  jobs,      \* Seq([list, processors, place, stage, status, always, ever])
  calls,     \* Seq([job, place, name, status]): what was called, job 0: alone
  changes

vars == <<caps, jobs, calls, changes>>

Init == caps = <<>> /\ jobs = <<>> /\ calls = <<>> /\ changes = 0

-----------------------------------------------------------------------------
\* withSnapshots() to withAudit(), one after the other.
Enabled(config) == config \cap All

Lightweight  == {}
Testing      == {"audit"}
FullFeatured == All

\* createAggregateWithConfig(), AggregateBuilder, AggregateTestBuilder,
\* LightweightAggregateBuilder and FullFeaturedAggregateBuilder.
Build(config) ==
  /\ Len(caps) < MaxAggregates
  /\ caps' = Append(caps, Enabled(config))
  /\ UNCHANGED <<jobs, calls, changes>>

\* "inside": a processor has the control.
Looping(j) == jobs[j].status = "loop"
Inside(j)  == jobs[j].status = "inside"
Idle == \A j \in DOMAIN jobs : ~Looping(j) /\ ~Inside(j)

\* The places of a job's list that hold an aggregate that has a capability.
Having(list, now) == {p \in (DOMAIN list) \X All : p[2] \in now[list[p[1]]]}

\* withX() of a builder whose aggregate was built already, addCapability() and
\* removeCapability(), by a processor too.
Change(a, now) ==
  /\ Idle \/ \E j \in DOMAIN jobs : Inside(j)
  /\ changes < MaxChanges /\ changes' = changes + 1
  /\ caps' = [caps EXCEPT ![a] = now]
  /\ jobs' = [j \in DOMAIN jobs |->
       [jobs[j] EXCEPT !.always = @ \cap Having(jobs[j].list, caps'),
                       !.ever   = IF Inside(j) THEN @ \cup Having(jobs[j].list, caps') ELSE @]]
  /\ UNCHANGED calls

AddCapability(a, name)    == Change(a, caps[a] \cup {name})
RemoveCapability(a, name) == Change(a, caps[a] \ {name})

-----------------------------------------------------------------------------
HasCapability(a, name) == name \in caps[a]

HasAllCapabilities(a, names) == \A name \in names : HasCapability(a, name)

\* createSnapshotIfCapable() to registerUpcasterIfCapable(): the capability's
\* own method, or nothing.  asSnapshotAggregate() and its like throw instead.
IfCapable(a, name) ==
  /\ Idle /\ HasAllCapabilities(a, {name})
  /\ Cardinality({i \in DOMAIN calls : calls[i].job = 0}) < MaxJobs
  /\ calls' = Append(calls, [job |-> 0, place |-> a, name |-> name,
                 status |-> IF name = "eventSourcing" THEN "running" ELSE "ok"])
  /\ UNCHANGED <<caps, jobs, changes>>

ProcessAggregates(list, processors) ==
  /\ Idle /\ Len(jobs) < MaxJobs
  /\ jobs' = Append(jobs, [list |-> list, processors |-> processors, place |-> 1,
                           stage |-> 1, status |-> "loop",
                           always |-> Having(list, caps), ever |-> Having(list, caps)])
  /\ UNCHANGED <<caps, calls, changes>>

CallsOf(j) == {i \in DOMAIN calls : calls[i].job = j}

\* What Promise.all() makes of the calls of a job.
Awaited(j, now) ==
  LET states == {now[i].status : i \in CallsOf(j)}
  IN  IF "failed" \in states THEN "rejected"
      ELSE IF "running" \in states THEN "awaiting" ELSE "resolved"

\* On to the next capability, aggregate, or the await.
Advanced(j) ==
  LET job == jobs[j]
  IN  IF job.stage < Len(Names) THEN [job EXCEPT !.stage = @ + 1, !.status = "loop"]
      ELSE IF job.place < Len(job.list)
      THEN [job EXCEPT !.stage = 1, !.place = @ + 1, !.status = "loop"]
      ELSE [job EXCEPT !.status = Awaited(j, calls')]

Asked(j) == Names[jobs[j].stage]
Due(j) == Asked(j) \in jobs[j].processors /\ HasCapability(jobs[j].list[jobs[j].place], Asked(j))

Skip(j) ==
  /\ Looping(j) /\ ~Due(j)
  /\ UNCHANGED <<caps, calls, changes>>
  /\ jobs' = [jobs EXCEPT ![j] = Advanced(j)]

Call(j) ==
  /\ Looping(j) /\ Due(j)
  /\ calls' = Append(calls, [job |-> j, place |-> jobs[j].place, name |-> Asked(j),
                            status |-> "running"])
  /\ jobs' = [jobs EXCEPT ![j].status = "inside"]
  /\ UNCHANGED <<caps, changes>>

Return_EndsAggregate(j) ==
  /\ Inside(j)
  /\ calls' = [calls EXCEPT ![Len(calls)].status =
                 IF Asked(j) = "eventSourcing" THEN "running" ELSE "ok"]
  /\ jobs' = [jobs EXCEPT ![j] =
       IF jobs[j].place < Len(jobs[j].list)
       THEN [@ EXCEPT !.stage = 1, !.place = @ + 1, !.status = "loop"]
       ELSE [@ EXCEPT !.status = Awaited(j, calls')]]
  /\ UNCHANGED <<caps, changes>>

\* The processor returns, or returns a promise.
Return(j) ==
  /\ Inside(j)
  /\ calls' = [calls EXCEPT ![Len(calls)].status =
                 IF Asked(j) = "eventSourcing" THEN "running" ELSE "ok"]
  /\ jobs' = [jobs EXCEPT ![j] = Advanced(j)]
  /\ UNCHANGED <<caps, changes>>

\* It throws, and nobody waits for the promises collected so far.
Throw(j) ==
  /\ Inside(j)
  /\ calls' = [calls EXCEPT ![Len(calls)].status = "failed"]
  /\ jobs' = [jobs EXCEPT ![j].status = "rejected"]
  /\ UNCHANGED <<caps, changes>>

Settle(i, how) ==
  /\ Idle /\ calls[i].status = "running"
  /\ calls' = [calls EXCEPT ![i].status = how]
  /\ jobs' = [j \in DOMAIN jobs |->
       IF jobs[j].status = "awaiting" THEN [jobs[j] EXCEPT !.status = Awaited(j, calls')]
       ELSE jobs[j]]
  /\ UNCHANGED <<caps, changes>>

Lists == UNION {[1 .. n -> DOMAIN caps] : n \in 1 .. MaxLength}

Next ==
  \/ \E config \in Configs \cup {Lightweight, Testing, FullFeatured} : Build(config)
  \/ \E a \in DOMAIN caps, name \in All :
       AddCapability(a, name) \/ RemoveCapability(a, name) \/ IfCapable(a, name)
  \/ \E list \in Lists, processors \in Processors : ProcessAggregates(list, processors)
  \/ \E j \in DOMAIN jobs : Skip(j) \/ Call(j) \/ Return(j) \/ Throw(j)
  \/ \E i \in DOMAIN calls, how \in {"ok", "failed"} : Settle(i, how)

Spec == Init /\ [][Next]_vars

-----------------------------------------------------------------------------
TypeOK ==
  /\ Range(caps) \subseteq SUBSET All
  /\ \A job \in Range(jobs) :
       /\ job.place \in DOMAIN job.list /\ job.stage \in DOMAIN Names
       /\ job.status \in {"loop", "inside", "awaiting", "resolved", "rejected"}
  /\ \A call \in Range(calls) : call.status \in {"running", "ok", "failed"}
  /\ Cardinality({j \in DOMAIN jobs : Looping(j) \/ Inside(j)}) <= 1

\* A job that resolves has called, for each aggregate of the list, the processor
\* of every capability it had all along and of none it never had, once each, in
\* order, and none of them is still running or failed, whatever the processors
\* did to the aggregates meanwhile
\* (processAggregatesWithCapabilities).
Called(j) == {<<calls[i].place, calls[i].name>> : i \in CallsOf(j)}

Wanted(job) == (DOMAIN job.list) \X job.processors

ResolvedMeansProcessed ==
  \A j \in DOMAIN jobs :
    /\ jobs[j].status = "resolved" =>
         /\ jobs[j].always \cap Wanted(jobs[j]) \subseteq Called(j)
         /\ Called(j) \subseteq jobs[j].ever \cap Wanted(jobs[j])
         /\ \A i \in CallsOf(j) : calls[i].status = "ok"
    /\ \A i, k \in CallsOf(j) : i < k =>
         \/ calls[i].place < calls[k].place
         \/ /\ calls[i].place = calls[k].place
            /\ \E m, n \in DOMAIN Names :
                 m < n /\ calls[i].name = Names[m] /\ calls[k].name = Names[n]

=============================================================================
