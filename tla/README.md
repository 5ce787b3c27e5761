# Instrument: TLA+ models and proofs

Instrument is an AI site-reliability agent. Datadog and GitHub webhooks, and people using the
console, create *jobs*; a durable job engine runs them phase by phase from short cron-driven
function invocations over Postgres; executors do the real work of a phase (read telemetry and
diffs, call a model, post review comments, open pull requests, create monitors).

This directory models that server side (`src/server`). TLC checks small instances of every model;
every safety property that holds is also proved with TLAPS, for every value of the constants (with hypotheses
where the theorem states them; those of the review's comments are stronger than the code ensures, see Proofs);
liveness is model-checked.

## Inventory

| Component | State it keeps | Operations | What is hard |
|---|---|---|---|
| Durable job engine (`lib/worker.ts`, `retry.ts`, `phases.ts`, `_shared/pgdb.ts`) | `jobs` rows: state, lease, owner, attempts, phases | tick: select, claim, checkpoint, requeue, fail, succeed | concurrent ticks, crashes at any statement, lost answers, leases that run out, backoff |
| Console actions (`lib/actions.ts`, `transitions.ts`) | `approvals`, `recommendations`, `jobs`, workspace settings | start, retry, request/decide approval, enqueue generation, dismiss/restore | check-then-write races between members and with ticks |
| PR review executor (`lib/agent-pr.ts`, `_shared/pr-review-store.ts`) | `pr_review_comments`, `external_write_actions`, GitHub's comments | claim, post, finalize, release, refresh | exactly-once posting over crashes, timeouts, two revisions, close and reopen |
| GitHub webhook (`functions/github-webhook`, `_shared/github-webhook-store.ts`) | `inbound_webhooks`, `github_pull_requests`, `jobs` | record delivery, upsert PR, enqueue analysis, outdate, reactivate, coalesce scans | duplicated, concurrent and reordered deliveries |
| Scan executor (`lib/agent-scan.ts`, `_shared/scan-store.ts`) | `recommendations`, `jobs.trigger_summary.pending_sha` | enumerate, analyze, rank, follow-up | pushes that arrive while a scan ends |
| Datadog webhook (`functions/datadog-webhook`, `_shared/datadog-webhook-store.ts`) | `inbound_webhooks`, `incidents`, `evidence_items`, `jobs` | fire, resolve, enqueue investigation, record evidence | replays, reordering, racing creates, crashes between writes |
| Investigation executor (`lib/agent-investigate.ts`, `_shared/investigate-store.ts`) | `incidents`, `evidence_items`, `ai_model_calls` | five phases, hypotheses write-back | resumption without repeated model calls, lost updates of the incident |
| PR and monitor generation (`lib/agent-prgen.ts`, `agent-ddalert.ts` and their stores) | `external_write_actions`, `recommendations.steps`, provider objects | plan, compose, branch/file/PR writes | revocation races, partial provider writes, re-generation |
| Recommendation generation (`lib/agent-recgen.ts`, `alert-coverage.ts`) | `recommendations` | upsert, outdate | stale analyses |
| Model calls (`lib/model-call.ts`, `_shared/model-call-store.ts`) | `ai_model_calls` | call, validate, record | retry of what was already recorded |
| Scripted investigation (`lib/agent.ts`, `_shared/agent-runtime.ts`) | `ai_model_calls`, `evidence_items` | turn, tool call, record | resumption between a result and its record |
| Telemetry, integration health (`lib/telemetry.ts`, `integration-health.ts` and their stores) | `telemetry_emissions`, `integrations` | emit, record, reflect | one signal per attempt over failures of every step; must not disturb the engine |
| Provider clients, redaction, hashing, console UI, TrueFoundry MCP service | none of its own | I/O and formatting | not modelled: nothing outlives a call |

Everything meets in the database: handlers never call one another, they read and write rows with
single statements (PostgREST offers no multi-statement transactions), and rely on unique indexes
and on the conditions of an UPDATE. The models therefore take **one database statement, or one
local decision between two statements, as one step**.

## Modules

| Module | What it holds | Built on |
|---|---|---|
| `JobEngine` | the job engine: table, ticks, retries, faults, time; its properties and the inductive invariants | |
| `JobLifecycle`, `JobEngineRefinement` | what an owner of a job is promised (abstract), and the mapping of the engine to it | `JobEngine` |
| `JobEngineProofs` | theorems: types, progress, exclusion, budget, refinement | the above |
| `PrReview` | analyses of one pull request: comment claims, posts, audit, GitHub's pending review, close and reopen | |
| `DatadogIncidents` | the Datadog webhook over the incidents of one alert cycle | |
| `AlertCycle` | what the console is promised about those incidents (abstract) | |
| `Investigation` | the five phases of an investigation, next to the webhook | `DatadogIncidents`, `ModelCall` |
| `IncidentsProofs` | theorems about both: types, one open incident, starts and evidence, refinement; audit, citations, billing | the above |
| `ModelCall` | the audit row of a model call, and what of an answer is accepted (operators) | |
| `GithubDelivery` | the GitHub delivery log (operators) | |
| `RepositoryScans`, `RepositoryScansProofs` | pushes, their coalescing into scans, the scans, their recommendations; theorems | `GithubDelivery` |
| `PullRequestSync` | pull-request deliveries: row, review jobs, archiving and restoring the review | `GithubDelivery` |
| `PullRequestProofs` | theorems about pull requests: deliveries (`PullRequestSync`), comments and audit (`PrReview`) | both |
| `Approvals`, `ApprovalsProofs` | members: request, decide, generate, retry, dismiss, restore; lemmas about them | |
| `Generation`, `GenerationProofs` | generated pull requests: the executor, GitHub, the merge that completes the step; theorems | `Approvals` |
| `MonitorGeneration`, `MonitorGenerationProofs` | coverage analyses, generated monitors, Datadog; theorems | `Approvals` |
| `Telemetry` | failure signals and integration health | |
| `Viability`, `ViabilityProofs` | the scripted investigation, whose failures it signals; theorems about both | `Telemetry` |
| `MC...` | symmetry sets and finite data for TLC | |

The engine is modelled once in full, in `JobEngine`. The other executors keep of it what they can
observe: a phase that throws or is killed is entered again from its first statement until the budget
is spent, and a job is in one tick at a time. The latter is what `NeverProcessedTwice` proves of the engine
when leases outlast a phase (`agent-runtime.ts:31-37` sizes the call timeouts for it) and one console request
is handled at a time. In `Generation` and `MonitorGeneration`, where members may race, it is an assumption of
`Claim`: a job that two of them retry is taken up again only once the tick that has it is done with it.

In every module one step is one database statement or one provider call. A fault is a failure or a
kill between two of them; a statement that is applied but goes unanswered is its success followed by
a failure. A provider call has three outcomes: refused, done and answered, done and unanswered.

### JobEngine and the code

`jobs[j]` is a row of `jobs`, reduced to the columns the engine compares: `state`, `locked_by`,
`lease_expires_at`, `next_run_at`, `attempt_count`, `max_attempts`, `phases`. The idempotency key
names the row. Times are kept *relative to now* (`lease` and `nextRun` count down), because the
code only compares them with the clock: `lease_expires_at < now` is strict, `next_run_at <= now` is
not. The sentinel `LEASE_FREE` lies in the past and is therefore the same value as an expired lease.

`worker[w]` is one run of `runTick`: its candidates, the job it is on, the attempt and the phases it
holds *in memory*, which may differ from the row. Its `pc` names the next statement:

| Action | Code |
|---|---|
| `SelectDue`, `SelectAbandoned` | the two selects of `runTick`; `order by next_run_at limit n` is any n rows |
| `ClaimWins`, `ClaimLoses`, `ClaimUnanswered` | `claim` and the WHERE clause of `claimJob`, whose error is ignored |
| `StartAttempt`, `BeginPhase`, `CompletePhase` | the owner-guarded checkpoints of `runJob` |
| `PhaseThrows` | the executor throws, retryably or not |
| `Requeue`, `FinishFailure`, `FinishSuccess` | the three ways out of `runJob` |
| `LeaseLost` | an owner-guarded update that matched no row |
| `PhaseWriteFails`, `SelectUnanswered`, `Crash` | failed statements (applied or not) and a killed function |
| `Enqueue` | `insertJob` behind its unique key |
| `RetryRead`, `RetryWrite` | `retryJob` / `enqueueGeneration`: check the row, then `requeueFailedJob` by id alone |
| `Elapse` | one unit of time |

`mergePhases` on an empty list seeds the plan, so an inserted row (`phases: []`) starts with all
phases pending. The state `skipped` of a phase is declared in `types.ts` and produced nowhere.
The finalization of a simulated incident and the telemetry call are in `Viability`. Left out: the audit
events, and the choice of the failure texts.

### JobLifecycle

One job as its owner sees it: enqueued, phases done one after the other, settled as succeeded
(only when all are done) or failed, possibly retried by hand. No leases, ticks, attempts or clocks.
The engine implements it when one console request is handled at a time.

### PrReview and the code

| Variable | Code |
|---|---|
| `jobs[h]` | the analysis job of head h: how far its phases are, who runs it, its stored findings |
| `rows` | `pr_review_comments`: revision fingerprint, status, external comment id |
| `writes` | `external_write_actions` by revision (the idempotency key) |
| `recommendation` | state of the pull request's review recommendation |
| `published`, `pending`, `added` | GitHub (external): visible comments, the one pending review of the reviewer |
| `tick[t]` | one run of `compose`, its `pc` the next statement or call |
| `pull`, `hook` | the pull request, and what is left of the lifecycle delivery in progress |

A semantic fingerprint is a gap; a revision fingerprint is gap, head and line. `claimPostedComment`
is an insert under two unique constraints (`Conflicts`) and two selects; `postReviewComment` is up
to five calls. `StartCompose` and `Settle` stand for the engine: with `Exclusive` a job is in one
tick at a time, which is what `NeverProcessedTwice` proves of the engine as long as leases do not
run out under a tick; without it a lease has run out. Lifecycle deliveries are handled one after
the other here; `PullRequestSync` reorders them. GitHub is modelled from how
the code uses it: one pending review, a second `create` is an error, submitting an empty review
with a body is accepted, pending comments are not listed.

### DatadogIncidents, Investigation, ModelCall and the code

`deliveries`, `incidents`, `evidence`, `jobs` are the tables reduced to one correlation key: an incident
keeps its state, the key of the last transition applied (`last_alert_transition_key`), whether it starts
by itself, its linked job and its timeline. `handler[h]` is one request: the alert, the incident it
found and *the copy it read*, which `Folded` writes back whole. `Handle` lists a request's statements in
the order of `datadog-webhook/index.ts`; the two reads of an insert race and the guards
`incident_state = 'active'` of both updates are `RefindIncident` and `StillActive`. The mode that
decides automatic starts is a choice of each delivery.

`Investigation` adds jobs whose ticks run triage, gather, correlate, hypotheses and summarize of
`agent-investigate.ts` over those same incidents, while alerts keep writing them. A tick's `pc` is the next
statement; `LoadFacts` is the set of listings the prompt can be made from (rows observed at once may come in either
order); `call[i]` is the `ai_model_calls` row, `output[i]` the persisted answer *with the facts the
model was shown*. Answers are: prose, an object the schema refuses, or hypotheses citing keys, invented
ones included. `ModelCall` is `runModelCall` and `saveModelCall`: what is kept when a call is repeated.

### RepositoryScans, PullRequestSync, GithubDelivery and the code

`GithubDelivery` is the row behind the unique delivery id: terminal when processed, or ignored with a
valid signature; anything else is refreshed and handled again. `Reject` is a delivery with a signature
that does not verify. In `RepositoryScans`, `Decision` is `decideScan` on the latest scan, `Decide` its use, `Stamp` the guarded
update of `markScanPending` (which, when the scan has ended, falls through to `Enqueue`), and `Upsert`,
`List`, `Outdate`, `LoadPending`, `EnqueueFollowup` the statements of `rank`. `ReadMerged` and `WriteMerged` are
`markGeneratedPrMerged` for a recommendation of one step. In `PullRequestSync` GitHub's
history (`events`) is delivered in any order and again; `row` is `github_pull_requests`, `comments` the
posted comments of the review, and a request works through upsert, enqueue, clearing and archiving.

### Approvals, Generation, MonitorGeneration and the code

`approval`, `job`, `rec`, `step` are one recommendation with its one step. A console request reads, then
writes: `ReadApproval` and `UpdateApproval` are the guarded decision, `CheckApproved`, `FindJob` and `InsertJob`
are `enqueueGeneration`, `RetryJob` is the check of `retryJob`; both go on to `RequeueJob` (by id alone, whatever
became of the job) and to `markStepGenerating` (`ReadSteps`, `WriteSteps`). A tick whose job was requeued under it
finds out at its next owner-guarded update (`Owns`). In
`Generation` a tick runs plan, compose_patch and handoff; each of the three provider writes is find, assert
approved, insert `planned`, perform, mark. Step updates are a read and a write of the whole array.
`MonitorGeneration` has the analyses (gather, draft, upsert of the recommendation with the freezing rule) and the
executor that creates the monitor or adopts it by its tag. The metric may disappear at any moment, and the
select of `CheckApprovals` may fail, which the code takes for no approval. Its last variables are history:
`blind` counts what each job created without the metric, `asked` is the proposal an approval was requested for,
and `replaced` the approvals whose proposal was written over by a writer with an older reading.

### Telemetry, Viability and the code

A failed attempt is signalled in the tick that wrote the failure: reserve the row under its key (metric and
attempt), submit the metric, submit the event, finish, reflect on the integrations. `counted` is what
Datadog has. `unsure` collects the rows whose sending was cut off, or which two ticks sent at the same
time: nothing in the code can make those exact. `Viability` is the executor of `agent.ts` with
has-then-record, and the engine's ends that the other modules leave out: budget requeue with the attempt given back,
attempt numbers from the selected row, finalization. The state of the integrations and the `finalized` flag are
there because the handlers write them; no property depends on them.

## Runs

All runs pass but `acceptance`, which shows a disagreement between a comment and the code.

| Run | Bounds | What it shows |
|---|---|---|
| `engine_timely` | 1 job, 2 ticks, 2 phases, budget 2, 2 faults, 1 retry, no overrun, `FairSpec` | exclusion and settlement under crashes, lost answers, requeues, backoff and a retry; `JobLifecycle` implemented |
| `engine_races` | the same job with 2 console requests, 2 retries, leases that run out twice under a running phase, 1 fault | the table never loses progress or order, a stale tick never starts a done phase, the attempts stay within what the retries granted, and only a request in the window between the check of the job and its update takes a success back |
| `review_one_revision` | 1 head, 2 gaps, 1 tick, 2 crashes, 2 failed calls, 1 close | exactly one comment, nothing dropped |
| `review_audit` | 2 heads, 2 gaps, 1 tick, one fault of each kind | the audit never lies |
| `incidents` | a cycle of three alerts delivered up to 4 times to 2 handlers, 1 fault | one open incident, automatic start and evidence not lost or doubled, `AlertCycle` implemented |
| `investigation` | 2 alerts, 1 handler, 1 tick, budget 2, 2 faults | audit, output, citations and hypotheses agree; no answer paid for twice |
| `scans` | 2 of 3 pushes (2 to the primary branch), or one and its redelivery, 2 handlers, 2 ticks, 1 gap and its merge, 1 fault | no push lost, no stamp dropped, no dismissal taken back by a scan |
| `pull_requests` | 3 events, 3 deliveries in any order, 2 handlers, 1 fault | an answered delivery has had its effect |
| `generation` | 2 members, 1 tick, 2 approvals in turn, 4 calls, 1 pull request, 1 fault | revocation, audit, completion, decisions |
| `acceptance` | 1 member, 1 tick, 1 approval, 2 calls, no fault | violated: a recommendation dismissed during the merge delivery is accepted |
| `monitors` | 2 analyses, 1 member, 1 tick, 2 approvals in turn, 3 calls, a metric that disappears once, 1 fault | one monitor, of the proposal that was approved, and none on a metric that is gone but by the attempt that had found it |
| `reliability` | 1 scripted job of 5 phases, 2 ticks, budget 2, 3 faults | signals counted once and audited truthfully, work recorded once |

Why the bounds are enough: two ticks (or handlers, or members) and one row exhibit every race of two
statements on that row, and no step involves three of them. Ticks never write a row other than
the one they work on, so one row is enough for the engine's runs; that no safety property depends on there being one
is what the theorems add. That no job starves behind another, with more due jobs than a tick takes, is not checked
(see the limits). `ImplementsLifecycle` is checked without overruns, since two racing requests refute it, and proved with them. Two phases distinguish order, partial progress and the budget requeue in the
middle. A budget of two has a retried, a last and an exhausted attempt. Two faults let a fault hit the
recovery from the first; where one suffices to fill the five minutes, the run has one. Three alerts
are a trigger, a renotification and a recovery, and a fourth sending replays any of them. Two
deliveries are one push being scanned and one stamped on it, replayed, or ignored for its branch. Two approvals of a step are
the one revoked and the one after it. `engine_races` takes two requests and two retries, the least with which a
request can update a job that has left the state it checked. Gaps are independent of one
another, so `scans` has one. Three calls approve, revoke and approve again. `reliability` takes three faults for a failure in the sending of
the signal of the second of two claims that share an attempt number.
`MaxFacts` is 6 in place of 20: more than the two alerts, a commit and one of each telemetry kind need.

Deadlock is checked for the engine; elsewhere deliveries, calls, approvals and attempts are used up and
the system stops, so those runs set `CHECK_DEADLOCK FALSE`. Symmetry is used for sets of alike model
values, and not where liveness is checked. The inductive invariants of the proofs (`BudgetInv`, `IncidentsInv`, `InvestigationInv`,
`GenerationInv`, `MonitorsInv`, `ViabilityInv`, `SyncInv`, `ScansInv`, `ReviewInv`, `AuditInv`, `PostInv`) stand at the end of their modules and
hold on the instances of the runs; they contain the type invariants, and no run lists them again.

### Fairness

`FairSpec` assumes weak fairness of each tick's steps, of the write of a console request that has
read its job, and of time. The schedule fires every minute and the runtime keeps running a function
until it returns or is killed (a crash is an action, bounded by `MaxFaults`), so a tick slot always
takes its next step. No fairness is assumed of crashes, console requests or enqueues. Without the
bound on crashes a job whose phase always kills the function would be reclaimed for ever, since
only thrown errors count against the budget.

## Limits and disagreements met while modelling

The runs hold under the constants above. What follows is what the code does outside of them or
what a property had to except, so that a reader does not take a run for more than it shows.

Engine
* Two members who retry one failed job at once (`Retriers` of two) break `NoDoubleProcessing`: the second write
  re-queues by id alone a row that a tick is executing (`actions.ts:155`; `worker.ts:61-63` promises otherwise). It may also
  take back a success; `OnlyRacingRetryUndoesSuccess` says that nothing else can. A requeued job whose phases are all done
  succeeds again at once, but `markStepGenerating` leaves its step 'generating'.
* `attempt_count` comes from the selected row, so two claims can share a number (`worker.ts:113`). `telemetry.ts:131-134`
  ("a given attempt resolves to exactly one of retry/error") then fails: the second failure of an
  attempt is swallowed, or becomes the other kind.
* `attempt_count` can pass `max_attempts` without a single fault (`worker.ts:113`, `actions.ts:163`): a claim from a
  stale list of candidates sets the count *back*, a permanent failure and a retry then fix the budget at the
  lower number plus three, and another stale candidate claims beyond it. `AttemptBudget` therefore allows
  every retry a whole budget, and every fault and overrun one attempt.
* Due rows are served before abandoned ones and cut at five, so a steady load of due jobs starves recovery.
* Nothing repeats a finalization that was lost after the success write (`worker.ts:260`).

Review (`PrReview`)
* A claim released after a failed post is resumed as outdated, not re-claimed; a later revision posts the gap again (`agent-pr.ts:427`).
* Two ticks on one job (`Exclusive = FALSE`) both resume a claim and post (`pr-review-store.ts:379`, against `agent-pr.ts:15-17`).
* Two ticks on two heads delete and submit each other's pending review (`pr-review-store.ts:116`).
* A claim whose owner never posted is moved to a newer revision, and both jobs skip it (`agent-pr.ts:369`).
* A late job re-activates the recommendation of a closed pull request (`pr-review-store.ts:317`).
* Two heads and one gap without a failed post keep `AtMostOneComment` (one tick per job, two crashes): the claim
  serializes the revisions.
* Two gaps on one line and a crash, or a lost select after a claim conflict, drop a finding (`pr-review-store.ts:169`, `:378`).

Incidents and investigations
* A recovery that crashes after resolving loses its evidence; a firing alert replayed unacknowledged after the
  recovery opens a second incident; overlapping redeliveries can double the evidence or lose an automatic start
  (the `overlapped` exception).
* Concurrent handlers, and `writeHypotheses`, write timeline and signals back from a stale read and lose entries.
* The telemetry note can be false when there is more evidence than the prompt takes (20 rows), and an
  "unavailable" row can stand next to gathered metrics after a resumption.

Pushes and pull requests
* A push stamped between the scan's read of its stamp and its completion is not followed (the `late` exception);
  a scan that fails takes its stamp with it; of two stamps at once one survives, in either order; two concurrent pushes may both
  enqueue ("one scan per repo at a time", `lib/github-webhook.ts:150`).
* An older scan that ends later outdates the newer one's findings; a gap flagged again stays outdated.
* The pull-request row can go back to an older snapshot; a dismissed review recommendation is
  resurrected by closing and reopening; a delivery handled while out of scope is terminal, so its
  redelivery does nothing.

Approvals and generation
* The approval hash covers the ids of the recommendation, the step and the action only (`Recommendations.tsx:85`), so "a
  DIFFERENT approval (new hash)" (`agent-prgen.ts:217-218`) never occurs: a new approval reuses the old one's writes
  and adopts its monitor, and the monitor's spec may be replaced between request and creation without the hash
  noticing (`docs/ERD.md:701`, `agent-ddalert.ts:155-158`): by a refresh whose look for approvals came before the request or
  failed (the select drops its error, `recgen-store.ts:255`), or by steps that a member or a tick read before and wrote back
  after. `MonitorIsAsApproved` states what does hold; those approvals are in `replaced`.
* A metric that disappears between its verification and the creation gets its monitor, once (`agent-ddalert.ts:149`, `:168`):
  the jobs in `passed`.
* A revoked job's last verified write can land in the branch of the next approval.
* Step updates overwrite one another: 'done' by 'ready', a finished step by 'generating', a merge before
  `setGeneratedPr` is missed; a refused generation leaves the step 'generating'.
* A merge accepts the recommendation by id, out of the state it read: a dismissal in between is overwritten, against
  the comment at `github-webhook-store.ts:327-328` (run `acceptance`; `DismissalIsRespected` names this exception).

Telemetry
* A store failure while reserving also skips the reflection on the provider's health.
* Nothing in the source restores 'connected', although `integration-health-store.ts:49-51` expects the workflows to.

## Proofs

Every theorem holds for every value of the constants that satisfies the module's named assumption;
further hypotheses are part of the theorem. The argument is always the same: an inductive invariant
made of named parts, checked by TLC first, that each action is shown to preserve. What the parts are and why
each is needed:

* **Types** (`JobEngineProofs`): `TypeOK` is inductive on its own. `TickOK` and `RetryOK` are in it
  because applying `jobs` to the job of an idle tick would have no meaning.
* **Progress** (`JobEngineProofs`): `PhasesInOrder`, `ProgressKept` and `NoPhaseRerun` are not
  inductive: they need to know what a tick holds in memory when it writes. `ProgressInv` adds that
  every tick's own phases are in order (`TicksInOrder`) and that the phases of a tick that owns its
  row agree with the row (`OwnersAgree`), except for one: after a failed checkpoint
  (`PhaseWriteFails`) the local list may be ahead of the row by exactly the next phase, which the
  failure handler then persists. `NoRowStuck` is proved along the way. No assumption on leases or
  on console requests is needed: these hold under overruns and racing retries too.
* **Exclusion** (`JobEngineProofs`): with `MaxOverruns = 0` and at most one retrier,
  `OwnersHoldLeases` (a tick that has not failed owns its row under a running lease) and
  `RetriesAreFresh` (the job a request decided to retry is still failed) are inductive; they give
  `NoDoubleProcessing`. Both assumptions are needed: two retriers break it (see the limits),
  and the overrun is what `worker.ts` sizes its lease against.
* **Finality** (`JobEngineProofs`): `OnlyRacingRetryUndoesSuccess` needs no hypothesis on leases or requests. That a row which
  succeeded is nobody's is part of `ProgressInv` (in `NoRowStuck`); `RequestsReadFailed` adds that a request under way had read a failed job.
* **Budget** (`JobEngineProofs`): `AttemptBudget` bounds the row, but a tick writes back counts it selected long
  ago. `BudgetInv` bounds every count there is, in the rows, in the ticks' candidates and memories and in the
  requests under way (`CountsBounded`); says that a row that can be claimed has room for one more attempt
  (`RoomToClaim`); and that the owner of a row knows its count and budget (`OwnersCount`). A retry counts from
  its write on, which is why the requests still to write (`Pending`) are taken off the allowance.
* **Refinement** (`JobEngineProofs`): every step of the engine is a step of `JobLifecycle`
  or leaves it unchanged, and the initial states map to initial states.
* **Incidents** (`IncidentsProofs`): `IncidentsInv` has the unique index at its heart (`OneActiveIncident`
  is inductive given the types), but the number of incidents is bounded only because every request that may
  still open one has a delivery of its own (`OpenersDelivered`). A request has one delivery, open until it is
  handled, except where redeliveries overlap (`OneHandlerPerKey`, `OpenUntilHandled`); a request that is past its
  incident has put right what an earlier crash left (`JobsFollow`, `EvidenceFollows`). With these every step is a
  step of `AlertCycle` or none.
* **Investigations** (`IncidentsProofs`): an executor writes nothing of the webhook's but timelines (`Aside`), and the webhook
  only adds evidence and jobs to what an executor reads (`Grown`); so `IncidentsInv` and the refinement survive, and every
  property holds of the two together. `InvestigationInv` adds that a job has one tick (`OneTickPerJob`); that a tick which is
  about to ask, or has asked, has no output yet, and holds facts that are still rows of the incident (`PlaceOK`, `ShownOK`);
  that before the output is saved the call's row is the answer in the tick's hand (`PlaceOK`); and that the hypotheses are what
  `Select` makes of the saved output (`ResultsOK`). That a full prompt without telemetry must have left out a citable row is
  a counting argument (`FullPrompt`). `OneTickPerJob` is built into `Claim`: it is what `NeverProcessedTwice` proves of the engine.
* **Members** (`ApprovalsProofs`): lemmas on `MembersInv` that the next two share: a step of a member keeps one active
  approval per step (`OneActiveApproval`), a job for approvals only (`JobsRequested`), and the promise of
  what a request has read (`RequestOK`).
* **Generated pull requests** (`GenerationProofs`): `GenerationInv` adds that a tick about to write has a verification
  that no earlier late write used up (`LateOK`), that a write is planned before it is performed
  and performed before it is marked (`AuditFollows`), and that any copy of the step that says done was read after the merge (`CopiesOK`,
  `LinksExist`).
* **Generated monitors** (`MonitorGenerationProofs`): `MonitorsInv` adds that, where the metric is gone, a tick that may still
  create had found it and has not created since (`FoundBefore`), and that while its approval stands its search was empty or
  failed (`MayCreate`); that an analysis about to replace a proposal saw only approvals that are over (`AnalysesOK`); and that
  the step, every copy of it that may be written back, and every payload is the approved one, unless its approval is in
  `replaced` (`ProposalsOK`, `ReferencesOK`).
* **Telemetry** (`ViabilityProofs`): `SignalInv` follows one row of the audit: about a row that is not `unsure` there is
  one sender, which knows whether the metric was counted (`Unwritten`, `Unsent`). `ViabilityInv` adds that a running row has one
  tick (`AloneAtWork`), that a kill is the only way past the budget (`AttemptsOK`), and that what was worked is recorded,
  about to be, or lost to a fault (`PlaceOK`, `NothingForgotten`).
* **Pull requests** (`PullRequestProofs`): `SyncInv` says that a request has had the effects of the
  statements behind it, that only a delivery whose request was through is terminal, and that effects stay:
  the row, the review job and the archived comments are never taken back by an older delivery.
* **Review types** (`PullRequestProofs`): `ReviewInv` adds that a tick works on a job that has its findings, and that a head
  that was not pushed has no job (`WorkOK`); rows are only added and keep their gap. No hypothesis: any ticks, heads and leases.
* **Review audit** (`PullRequestProofs`): `AuditInv` adds that a tick that is about to record a comment has published it, or
  holds it in the pending review it is about to submit (`CommentOK`). Two hypotheses, each needed for a reason listed under
  the limits: one tick at a time is at work (`OneAtATime`), because two delete and submit each other's pending review; and a
  line tells the gap (`LinesTell`), because the marker that a retry looks for is on a line. Revisions, lost
  reads, failures, closes and reopens are unbounded.
* **Review comments** (`PullRequestProofs`, the lemmas `NeverTwoComments` and `FindingsAreAnswered`): `PostInv` adds that what is on the pull request is on a claimed row
  (`ClaimsOK`), that a tick which may post has a gap nobody sees yet, in a pending review that is otherwise empty, and
  that it leaves an answer to every finding behind it (`PostOK`). The hypothesis `OneRevision` (one head, one gap once in a
  report, no lost read) leaves out the ways to post twice or to drop a finding that the limits list; crashes, failed
  statements, unanswered calls, attempts, findings, closes and reopens are unbounded. The code ensures neither hypothesis (a
  claim refreshed onto a newer revision breaks both properties' point), so these are lemmas about one analysis and not
  results about the system.
* **Scans** (`RepositoryScansProofs`): `ScansInv` says that a request keeps its push before it marks the delivery, that there is one scan per commit
  and one tick per scan, and that a tick that has read the stamp of its scan knows it as it is, or a late push was stamped since.
  `DismissalIsRespected` follows from what each statement writes over a state: a scan keeps every state but 'active', and
  only the two named actions write another over 'dismissed'.

Only model-checked: `JobsSettle`: liveness and ENABLED are out of the prover's reach.

## Plan

The modules are in place and none has a RECURSIVE operator. What may be taken further are
the hypotheses of the review's theorems: `AtMostOneComment` over several heads as long as no post fails (the claim
serializes the revisions: TLC agrees with two), and the refinement of `PullRequestSync` by a view of `PrReview`.

## Not modelled

* Provider clients, redaction, hashing: pure I/O and string functions (a hash is modelled as the tuple it
  hashes, which is why keys of writes and comments are records).
* The web console reads tables and calls the console actions; the TrueFoundry MCP service is stateless.
* `retry-after.ts` has no caller. Console instrumentation is logging. `refreshRepoMeta` writes what no
  modelled part reads. The update of a workspace's start mode is not an action: the mode is chosen anew
  with every delivery.
* Of the analyses: the improvement recommendations, and the caps on listed metrics and monitors; both lists
  are read at one instant. Of investigations: merging of signals by key.
* The content of prompts, diffs and model answers is a choice among small sets.
