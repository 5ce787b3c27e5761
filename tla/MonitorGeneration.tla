------------------------- MODULE MonitorGeneration -------------------------
(***************************************************************************)
(* Draft Datadog monitors for one metric: analyses of alert coverage       *)
(* propose the monitor as a step of a recommendation (lib/agent-recgen.ts, *)
(* lib/alert-coverage.ts, functions/_shared/recgen-store.ts), members      *)
(* approve the step (Approvals), and its job creates the monitor           *)
(* (lib/agent-ddalert.ts, lib/datadog-alert.ts, functions/_shared/         *)
(* ddalert-store.ts).                                                      *)
(*                                                                         *)
(* The spec that an analysis proposes is named by the analysis.            *)
(***************************************************************************)
EXTENDS Approvals

CONSTANTS
    Ticks,          \* worker ticks that create monitors
    Analyses,       \* recommendation_generation jobs; 0 is no spec
    MaxLosses,      \* bound: disappearances of the metric
    MaxFaults       \* failures, kills, failed searches and failed looks

ASSUME MonitorsAssumption ==
    /\ 0 \notin Analyses /\ MaxLosses \in Nat /\ MaxFaults \in Nat
    /\ Members \cap Ticks = {}

VARIABLES
    analysis,       \* each analysis: progress, coverage snapshot, what it read
    write,          \* the external_write_actions row of the step
    live,           \* the metric exists in Datadog
    monitors,       \* the monitors of the step in Datadog: spec, and approval they were made for
    tick,           \* local state of each executor
    misses,         \* searches for the monitor that found nothing though it was there
    late,           \* monitors created after the approval was revoked
    faults,
    \* History of the metric, and of the proposals: no action depends on it, but for `losses`.
    losses,         \* times the metric disappeared
    passed,         \* jobs that had found the metric when it last disappeared
    blind,          \* monitors each job has created without the metric since
    asked,          \* the proposal each approval was requested for
    replaced,       \* approvals whose proposal was replaced out of an older reading
    base            \* approvals there were when a writer of the steps read them

metricVars == <<live, losses, passed, blind>>
specVars == <<asked, replaced, base>>
dataVars == <<write, monitors, misses, late>>
monVars == <<analysis, dataVars, metricVars, specVars, tick, faults>>
vars == <<memberVars, monVars>>
rows == <<approval, rec, member, calls>>

NoAnalysis == [pc |-> "gather", live |-> FALSE, covered |-> FALSE, gap |-> FALSE,
               finding |-> "none", seen |-> 0]
NoWrite == [state |-> "absent", made |-> 0]
IdleTick == [pc |-> "idle", id |-> 0, set |-> "", then |-> "", spec |-> 0, made |-> 0, copy |-> <<>>]

-----------------------------------------------------------------------------
(* The analyses.                                                           *)

At(a, pc) == analysis[a].pc = pc
End(a) == analysis' = [analysis EXCEPT ![a] = [NoAnalysis EXCEPT !.pc = "end"]]

\* What the provider lists for the namespace: whether the metric is there, and its monitors.
ListMetrics == live
ListMonitors == monitors

\* A metric is covered by any monitor whose query names it.
MetricCovered(list) == list # <<>>

\* saveCoverage: the snapshot of the metrics, of their monitors and of the gaps the scan found.
SaveCoverage(a, gap) ==
    analysis' = [analysis EXCEPT ![a] = [NoAnalysis EXCEPT !.pc = "draft",
                   !.live = ListMetrics, !.covered = MetricCovered(ListMonitors), !.gap = gap]]

Gather(a) ==
    /\ At(a, "gather")
    /\ \E gap \in BOOLEAN : SaveCoverage(a, gap)
    /\ UNCHANGED <<memberVars, dataVars, metricVars, specVars, tick, faults>>

\* What the model may answer: nothing well-formed, a query that is not about the metric it
\* names, a monitor, or a monitor for which the metric must be instrumented first.
Findings == {"none", "inconsistent", "monitor", "needs_instrumentation"}

\* The gates on a finding: a query about the metric, which no monitor watches, and which
\* exists or will once the gap is closed.  Only the first kind can be created already.
Select(finding, snapshot) ==
    IF finding \in {"none", "inconsistent"} \/ snapshot.covered THEN "none"
    ELSE IF snapshot.live THEN "available"
    ELSE IF finding = "needs_instrumentation" /\ snapshot.gap THEN "locked" ELSE "none"

SaveFindings(a, finding) == analysis' = [analysis EXCEPT ![a].finding = finding, ![a].pc = "upsert"]

Draft(a) ==
    /\ At(a, "draft")
    /\ \E finding \in Findings : SaveFindings(a, finding)
    /\ UNCHANGED <<memberVars, dataVars, metricVars, specVars, tick, faults>>

\* validate: what the gates leave of the saved finding, against the saved snapshot.
Proposal(a) == Select(analysis[a].finding, analysis[a])

Proposed(a) == [state |-> Proposal(a), made |-> 0, spec |-> a]

Fresh(s) == s.state \in {"available", "locked"} /\ s.made = 0

\* upsertAlertRecommendation: a first recommendation is inserted, one that was acted on
\* keeps its step.
Upsert(a) ==
    /\ At(a, "upsert")
    /\ \/ Proposal(a) = "none" /\ End(a) /\ UNCHANGED step
       \/ /\ Proposal(a) # "none" /\ step.state = "absent"
          /\ step' = Proposed(a)
          /\ End(a)
       \/ /\ Proposal(a) # "none" /\ step.state # "absent"
          /\ IF Fresh(step) THEN analysis' = [analysis EXCEPT ![a].pc = "check"] ELSE End(a)
          /\ UNCHANGED step
    /\ UNCHANGED <<rows, job, dataVars, metricVars, specVars, tick, faults>>

\* (Mutant) Only an approval that was not given yet.
FreezesRequested(state) == state = "requested"

Freezes(state) == state \in {"requested", "approved"}

\* The approvals of the recommendation, read after its step was.  An error of this select is
\* ignored, and looks like no approval.
CheckApprovals(a) ==
    /\ At(a, "check")
    /\ \/ /\ IF \E id \in Requested : Freezes(approval[id]) THEN End(a)
             ELSE analysis' = [analysis EXCEPT ![a].seen = Len(approval), ![a].pc = "refresh"]
          /\ UNCHANGED faults
       \/ /\ faults < MaxFaults /\ faults' = faults + 1
          /\ analysis' = [analysis EXCEPT ![a].seen = 0, ![a].pc = "refresh"]
    /\ UNCHANGED <<memberVars, dataVars, metricVars, specVars, tick>>

\* The active approvals newer than the reading a step is written from, whose proposal it replaces.
Replaces(new, n) == {id \in Requested : id > n /\ Active(id) /\ new.spec # asked[id]}

\* The step is replaced by the new proposal, whatever happened since the reads.
Refresh(a) ==
    /\ At(a, "refresh")
    /\ step' = Proposed(a)
    /\ replaced' = replaced \cup Replaces(Proposed(a), analysis[a].seen)
    /\ End(a)
    /\ UNCHANGED <<rows, job, dataVars, metricVars, asked, base, tick, faults>>

\* A phase throws or is killed: validate selects and upserts anew.
AnalysisFails(a) ==
    /\ At(a, "check") \/ At(a, "refresh")
    /\ faults < MaxFaults
    /\ faults' = faults + 1
    /\ analysis' = [analysis EXCEPT ![a].pc = "upsert", ![a].seen = 0]
    /\ UNCHANGED <<memberVars, dataVars, metricVars, specVars, tick>>

-----------------------------------------------------------------------------
(* The executor of an approved step.                                       *)

Phases == <<"inspect", "draft_monitor", "validate">>
Mine(t) == tick[t].id
Go(t, pc) == tick' = [tick EXCEPT ![t].pc = pc]

\* The phase the job goes on with; a job requeued after its last one has none left.
Resumed(id, phase) ==
    [IdleTick EXCEPT !.pc = IF phase \in DOMAIN Phases THEN Phases[phase] ELSE "done", !.id = id]

\* One tick works on a job, as if no lease ran out under it (module JobEngine).
Claim(t, id) ==
    /\ tick[t].pc = "idle" /\ job[id].state \in {"queued", "running"}
    /\ \A u \in Ticks : Mine(u) # id
    /\ job' = [job EXCEPT ![id].state = "running"]
    /\ tick' = [tick EXCEPT ![t] = Resumed(id, job[id].phase)]
    /\ UNCHANGED <<rows, step, analysis, dataVars, metricVars, specVars, faults>>

\* updateOwnedJob: a job that was requeued under the tick is no longer its own.
Owns(t) == job[Mine(t)].state = "running"

EndsIn(t, state) ==
    /\ job' = IF Owns(t) THEN [job EXCEPT ![Mine(t)].state = state] ELSE job
    /\ tick' = [tick EXCEPT ![t] = IdleTick]

PhaseDone(t) ==
    LET id   == Mine(t)
        next == job[id].phase + 1
    IN  /\ tick[t].pc = "done"
        /\ \/ /\ Owns(t) /\ next <= Len(Phases)
              /\ job' = [job EXCEPT ![id].phase = next]
              /\ tick' = [tick EXCEPT ![t] = Resumed(id, next)]
           \/ /\ Owns(t) /\ next > Len(Phases)
              /\ job' = [job EXCEPT ![id] = [state |-> "succeeded", phase |-> Len(Phases) + 1]]
              /\ tick' = [tick EXCEPT ![t] = IdleTick]
           \/ /\ ~Owns(t)
              /\ tick' = [tick EXCEPT ![t] = IdleTick] /\ UNCHANGED job
        /\ UNCHANGED <<rows, step, analysis, dataVars, metricVars, specVars, faults>>

\* An error that is not retryable fails the job.
Refuse(t) == EndsIn(t, "failed")

\* A retryable one does so once the budget is spent.
Throw(t) == \E state \in {"queued", "failed"} : EndsIn(t, state)

\* updateStep: the steps are read and written back with a field set, then the phase goes on.
SetStep(t, what, then) ==
    tick' = [tick EXCEPT ![t].pc = "read_steps", ![t].set = what, ![t].then = then]

ReadStep(t) ==
    /\ tick[t].pc = "read_steps"
    /\ tick' = [tick EXCEPT ![t].pc = "write_steps", ![t].copy = <<step>>]
    /\ base' = [base EXCEPT ![t] = Len(approval)]
    /\ UNCHANGED <<rows, job, step, analysis, dataVars, metricVars, asked, replaced, faults>>

WriteStep(t) ==
    LET local == tick[t] IN
    /\ local.pc = "write_steps"
    /\ step' = IF local.set = "link" THEN [local.copy[1] EXCEPT !.made = local.made]
               ELSE [local.copy[1] EXCEPT !.state = local.set]
    /\ replaced' = replaced \cup Replaces(local.copy[1], base[t])
    /\ IF local.then = "refuse" THEN Refuse(t) ELSE Go(t, local.then) /\ UNCHANGED job
    /\ base' = [base EXCEPT ![t] = 0]
    /\ UNCHANGED <<rows, analysis, dataVars, metricVars, asked, faults>>

\* metricExists: asked anew of the provider.
MetricExists == live

\* (Mutant) A metric that a finished step should have added is as good.
CanCreateExpected == TRUE

\* An alert is only creatable on a metric that exists now.
CanCreate == MetricExists

\* inspect: an approved plan only; the verification of the metric decides.
Inspect(t) ==
    /\ tick[t].pc = "inspect"
    /\ \/ ~Approved(Mine(t)) /\ Refuse(t)
       \/ /\ Approved(Mine(t)) /\ UNCHANGED job
          /\ IF CanCreate THEN SetStep(t, "generating", "done") ELSE SetStep(t, "failed", "refuse")
    /\ UNCHANGED <<rows, step, analysis, dataVars, metricVars, specVars, faults>>

\* loadPlan: the spec is the one on the step now.
ProposedPayload == step.spec

\* draft_monitor: a monitor that the audit knows is reused, otherwise the metric is verified
\* again.
DraftMonitor(t) ==
    /\ tick[t].pc = "draft_monitor"
    /\ \/ ~Approved(Mine(t)) /\ Refuse(t)
       \/ /\ Approved(Mine(t)) /\ UNCHANGED job
          /\ tick' = [tick EXCEPT ![t] =
               IF write.state = "succeeded"
               THEN [@ EXCEPT !.pc = "read_steps", !.set = "link", !.then = "done", !.made = write.made]
               ELSE IF CanCreate THEN [@ EXCEPT !.pc = "assert", !.spec = ProposedPayload]
               ELSE [@ EXCEPT !.pc = "read_steps", !.set = "failed", !.then = "refuse"]]
    /\ UNCHANGED <<rows, step, analysis, dataVars, metricVars, specVars, faults>>

\* An audit row, unless an earlier attempt left one.
Planned(row) == IF row.state = "absent" THEN [row EXCEPT !.state = "planned"] ELSE row

\* The approval is verified again ...
AssertApproved(t) ==
    /\ tick[t].pc = "assert"
    /\ IF Approved(Mine(t)) THEN Go(t, "insert") /\ UNCHANGED job ELSE Refuse(t)
    /\ UNCHANGED <<rows, step, analysis, dataVars, metricVars, specVars, faults>>

\* ... and the write recorded as planned.
InsertWrite(t) ==
    /\ tick[t].pc = "insert"
    /\ write' = Planned(write)
    /\ Go(t, "search")
    /\ UNCHANGED <<rows, job, step, analysis, monitors, misses, late, metricVars, specVars, faults>>

Recover(t, n) == tick' = [tick EXCEPT ![t].pc = "mark", ![t].made = n]

\* (Mutant) A retry creates the monitor again.
NeverSearch(t) ==
    /\ tick[t].pc = "search"
    /\ Go(t, "create")
    /\ UNCHANGED <<rows, job, step, analysis, dataVars, metricVars, specVars, faults>>

\* findMonitorByTag: the monitor an earlier attempt created is taken over.  An error of the
\* search counts as nothing found.
Search(t) ==
    /\ tick[t].pc = "search"
    /\ \/ monitors # <<>> /\ Recover(t, 1) /\ UNCHANGED <<misses, faults>>
       \/ monitors = <<>> /\ Go(t, "create") /\ UNCHANGED <<misses, faults>>
       \/ /\ monitors # <<>> /\ faults < MaxFaults
          /\ faults' = faults + 1 /\ misses' = misses + 1
          /\ Go(t, "create")
    /\ UNCHANGED <<rows, job, step, analysis, write, monitors, late, metricVars, specVars>>

Created(t) ==
    LET id == Mine(t) IN
    /\ monitors' = Append(monitors, [spec |-> tick[t].spec, id |-> id])
    /\ late' = IF Approved(id) THEN late ELSE late + 1
    /\ blind' = IF live THEN blind ELSE [blind EXCEPT ![id] = @ + 1]

Create(t) ==
    /\ tick[t].pc = "create"
    /\ Created(t)
    /\ Recover(t, Len(monitors) + 1)
    /\ UNCHANGED <<rows, job, step, analysis, write, live, losses, passed, misses, specVars, faults>>

\* The write fails, done or not; the row is marked and the error thrown.
CreateFails(t) ==
    /\ tick[t].pc = "create" /\ faults < MaxFaults
    /\ faults' = faults + 1
    /\ Created(t) \/ UNCHANGED <<monitors, late, blind>>
    /\ write' = [write EXCEPT !.state = "failed"]
    /\ Throw(t)
    /\ UNCHANGED <<rows, step, analysis, live, losses, passed, misses, specVars>>

MarkWrite(t) ==
    /\ tick[t].pc = "mark"
    /\ write' = [state |-> "succeeded", made |-> tick[t].made]
    /\ SetStep(t, "link", "done")
    /\ UNCHANGED <<rows, job, step, analysis, monitors, misses, late, metricVars, specVars, faults>>

Validate(t) ==
    /\ tick[t].pc = "validate"
    /\ SetStep(t, "ready", "done")
    /\ UNCHANGED <<rows, job, step, analysis, dataVars, metricVars, specVars, faults>>

\* A statement fails with a retryable error, or the tick is killed.
TickFails(t) ==
    /\ tick[t].pc # "idle" /\ faults < MaxFaults
    /\ faults' = faults + 1
    /\ \/ Throw(t)
       \/ tick' = [tick EXCEPT ![t] = IdleTick] /\ UNCHANGED job
    /\ UNCHANGED <<rows, step, analysis, dataVars, metricVars, specVars>>

-----------------------------------------------------------------------------

\* The metric is instrumented, and reported from then on ...
MetricAppears ==
    /\ ~live /\ live' = TRUE
    /\ UNCHANGED <<memberVars, analysis, dataVars, losses, passed, blind, specVars, tick, faults>>

\* ... until nothing reports it any longer.
MetricDisappears ==
    /\ live /\ losses < MaxLosses
    /\ live' = FALSE /\ losses' = losses + 1
    /\ passed' = {Mine(t) : t \in {u \in Ticks : tick[u].pc \in {"assert", "insert", "search", "create"}}}
    /\ blind' = [id \in Ids |-> 0]
    /\ UNCHANGED <<memberVars, analysis, dataVars, specVars, tick, faults>>

\* A console request: what it asks for, and what it writes out of an older reading.
MemberCalls(m) ==
    /\ Request(m)
    /\ asked' = [id \in Ids |-> IF id \in Requested' \ Requested THEN step.spec ELSE asked[id]]
    /\ base' = [base EXCEPT ![m] = IF member[m].pc = "read_steps" THEN Len(approval) ELSE 0]
    /\ replaced' = IF member[m].pc = "write_steps"
                   THEN replaced \cup Replaces(member[m].copy[1], base[m]) ELSE replaced
    /\ UNCHANGED <<analysis, dataVars, metricVars, tick, faults>>

Init ==
    /\ MembersInit
    /\ step = [state |-> "absent", made |-> 0, spec |-> 0]
    /\ analysis = [a \in Analyses |-> NoAnalysis]
    /\ write = NoWrite
    /\ live \in BOOLEAN
    /\ monitors = <<>>
    /\ tick = [t \in Ticks |-> IdleTick]
    /\ misses = 0 /\ late = 0 /\ faults = 0
    /\ losses = 0 /\ passed = {} /\ blind = [id \in Ids |-> 0]
    /\ asked = [id \in Ids |-> 0] /\ replaced = {} /\ base = [w \in Members \cup Ticks |-> 0]

Analyse(a) ==
    Gather(a) \/ Draft(a) \/ Upsert(a) \/ CheckApprovals(a) \/ Refresh(a) \/ AnalysisFails(a)

Execute(t) ==
    \/ \E id \in Ids : Claim(t, id)
    \/ PhaseDone(t) \/ ReadStep(t) \/ WriteStep(t)
    \/ Inspect(t) \/ DraftMonitor(t) \/ AssertApproved(t)
    \/ InsertWrite(t) \/ Search(t)
    \/ Create(t) \/ CreateFails(t) \/ MarkWrite(t) \/ Validate(t) \/ TickFails(t)

Next ==
    \/ \E a \in Analyses : Analyse(a)
    \/ \E t \in Ticks : Execute(t)
    \/ \E m \in Members : MemberCalls(m)
    \/ MetricAppears \/ MetricDisappears

Spec == Init /\ [][Next]_vars

-----------------------------------------------------------------------------
(* Properties.                                                             *)

\* Once the metric has disappeared a job creates one more monitor at most, and only if the
\* attempt under way had found it before, however often the job is resumed or retried
\* (agent-ddalert.ts:146-154).
NoMonitorOnLostMetric ==
    \A id \in Ids : blind[id] <= IF id \in passed THEN 1 ELSE 0

\* A step gets one monitor, through crashes, lost answers and new approvals, but for the
\* searches that failed and a write that was under way when its approval was revoked
\* (agent-ddalert.ts:165-167).
OneMonitorPerStep == Len(monitors) <= 1 + misses + late

\* A monitor is made of the proposal its approval was requested for, unless the steps were
\* written meanwhile by an analysis, a request or a tick whose reading of them (or look for
\* approvals, which may fail) was older (recgen-store.ts:244-258, actions.ts:183).
MonitorIsAsApproved ==
    \A n \in DOMAIN monitors :
        LET id == monitors[n].id IN id \in replaced \/ monitors[n].spec = asked[id]

-----------------------------------------------------------------------------
(* What makes them inductive.                                              *)

Specs == Analyses \cup {0}

Steps == [state : {"absent", "available", "locked", "generating", "ready", "failed"},
          made : Nat, spec : Specs]

AnalysisState ==
    [pc : {"gather", "draft", "upsert", "check", "refresh", "end"}, live : BOOLEAN,
     covered : BOOLEAN, gap : BOOLEAN, finding : Findings, seen : 0 .. MaxApprovals]

TickState ==
    [pc : {"idle", "done", "read_steps", "write_steps", "assert", "insert", "search", "create", "mark"}
          \cup {Phases[n] : n \in DOMAIN Phases},
     id : 0 .. MaxApprovals, set : {"", "generating", "link", "ready", "failed"},
     then : {"", "done", "refuse"}, spec : Specs, made : Nat, copy : Seq(Steps)]

\* Types of the tables, of what Datadog holds, and of the jobs' local state.
TypeOK ==
    /\ MembersTypeOK(Steps) /\ \A id \in Ids : job[id].phase \in 1 .. Len(Phases) + 1
    /\ step \in Steps
    /\ analysis \in [Analyses -> AnalysisState]
    /\ write \in [state : {"absent", "planned", "failed", "succeeded"}, made : Nat]
    /\ live \in BOOLEAN /\ losses \in Nat
    /\ passed \subseteq Ids /\ blind \in [Ids -> Nat]
    /\ asked \in [Ids -> Specs] /\ replaced \subseteq Ids
    /\ base \in [Members \cup Ticks -> 0 .. MaxApprovals]
    /\ monitors \in Seq([spec : Specs, id : Ids])
    /\ tick \in [Ticks -> TickState]
    /\ misses \in Nat /\ late \in Nat /\ faults \in 0 .. MaxFaults

\* A job has one tick, and a tick the approval of its job and a field to set when it sets one.
TicksOK ==
    /\ \A t, u \in Ticks : Mine(t) = Mine(u) /\ Mine(t) # 0 => t = u
    /\ \A t \in Ticks : tick[t].pc # "idle" => Mine(t) \in Requested
    /\ \A t \in Ticks : tick[t].pc \in {"read_steps", "write_steps"} =>
          tick[t].set # "" /\ tick[t].then # ""
    /\ \A t \in Ticks : tick[t].pc = "write_steps" => Len(tick[t].copy) = 1

Creating == {"assert", "insert", "search", "create"}

\* Where the metric is gone, a tick that may still create had found it, and has not yet created.
FoundBefore ==
    \A t \in Ticks : ~live /\ tick[t].pc \in Creating => Mine(t) \in passed /\ blind[Mine(t)] = 0

\* A tick that may create was approved; while it still is, every monitor there is came of a
\* failed search or of a late write.
MayCreate ==
    \A t \in Ticks :
        /\ tick[t].pc \in {"insert", "search", "create"} => approval[Mine(t)] \in {"approved", "revoked"}
        /\ tick[t].pc = "create" /\ Approved(Mine(t)) => Len(monitors) <= misses + late

\* An analysis about to replace the step has a proposal, and the approvals it saw are over.
AnalysesOK ==
    \A a \in Analyses :
        /\ At(a, "check") \/ At(a, "refresh") => Proposal(a) # "none"
        /\ At(a, "refresh") =>
              analysis[a].seen <= Len(approval) /\ \A id \in 1 .. analysis[a].seen : ~ Active(id)

\* Approvals are of a step that is there, and monitors of an approval; no writer knows of more
\* approvals than there are.
ReferencesOK ==
    /\ Requested # {} => step.state # "absent"
    /\ \A t \in Ticks : tick[t].pc = "write_steps" => tick[t].copy[1].state # "absent"
    /\ \A w \in Members \cup Ticks : base[w] <= Len(approval)
    /\ \A n \in DOMAIN monitors : monitors[n].id \in Requested

\* A proposal is the one that approval asked for, or was replaced under it.
Kept(spec, id) == id \in replaced \/ spec = asked[id]

\* The step, every copy of it and every payload about to be created is as approved.
ProposalsOK ==
    /\ \A id \in Requested : Active(id) => Kept(step.spec, id)
    /\ \A m \in Members : member[m].pc = "write_steps" =>
          \A id \in Requested : Active(id) /\ id <= base[m] => Kept(member[m].copy[1].spec, id)
    /\ \A t \in Ticks : tick[t].pc = "write_steps" =>
          \A id \in Requested : Active(id) /\ id <= base[t] => Kept(tick[t].copy[1].spec, id)
    /\ \A t \in Ticks : tick[t].pc \in Creating => Kept(tick[t].spec, Mine(t))

MonitorsInv ==
    /\ TypeOK /\ MembersInv(Steps) /\ TicksOK
    /\ NoMonitorOnLostMetric /\ FoundBefore
    /\ OneMonitorPerStep /\ MayCreate /\ AnalysesOK
    /\ MonitorIsAsApproved /\ ReferencesOK /\ ProposalsOK
=============================================================================
