----------------------------- MODULE JobEngine -----------------------------
(***************************************************************************)
(* The durable job engine: the `jobs` table, the worker ticks that claim   *)
(* its rows under a lease and drive them phase by phase, and the manual    *)
(* retry of a failed job (server/lib/worker.ts, actions.ts, retry.ts and   *)
(* the statements of server/functions/_shared/pgdb.ts).                    *)
(*                                                                         *)
(* One step is one database statement, or one local decision between two   *)
(* statements.  Timestamps are kept relative to the present: `lease` is    *)
(* the time left until lease_expires_at (Expired once the lease is in the  *)
(* past, which is also what the LEASE_FREE sentinel is), `nextRun` the     *)
(* time left until next_run_at (NoRun for NULL).  The code only compares   *)
(* both with the clock, so nothing else about them is observable.          *)
(***************************************************************************)
EXTENDS Integers, FiniteSets

CONSTANTS
    Jobs,           \* idempotency keys: each names at most one row
    Workers,        \* worker ticks that may run at the same time
    Retriers,       \* console requests that retry or re-generate a failed job
    NoWorker,       \* locked_by IS NULL
    NoJob,
    NumPhases,      \* length of the phase plan
    MaxAttempts,    \* default attempt budget (jobs.max_attempts)
    MaxJobs,        \* candidates one tick takes
    PhasesPerTick,  \* maxPhasesPerTick, 0 when unset
    LeaseTime,      \* LEASE_SECONDS
    BackoffBase, BackoffFactor, BackoffCap,
    MaxOverruns,    \* bound: leases that run out under a tick that still runs
    MaxFaults,      \* bound: crashes and failed statements
    MaxRetries      \* bound: manual retries

ASSUME EngineAssumption ==
    /\ NoWorker \notin Workers /\ NoJob \notin Jobs
    /\ NumPhases \in Nat \ {0}
    /\ MaxAttempts \in Nat \ {0}
    /\ MaxJobs \in Nat \ {0}
    /\ PhasesPerTick \in Nat
    /\ LeaseTime \in Nat
    /\ BackoffCap \in Nat
    /\ MaxFaults \in Nat /\ MaxRetries \in Nat /\ MaxOverruns \in Nat

VARIABLES
    jobs,       \* the jobs table
    worker,     \* local state of each tick
    retrier,    \* local state of each console request
    faults,     \* crashes and failed statements so far
    overruns,   \* leases that ran out under a running tick so far
    retries     \* manual retries so far

vars == <<jobs, worker, retrier, faults, overruns, retries>>

Phases == 1 .. NumPhases
PhaseState == {"pending", "running", "retrying", "failed", "succeeded"}
JobState == {"absent", "queued", "running", "retrying", "failed", "succeeded"}

Expired == -1
NoRun == -1

FreshPhases == [p \in Phases |-> "pending"]

AbsentRow == [state |-> "absent", lockedBy |-> NoWorker, lease |-> Expired,
              nextRun |-> NoRun, attempt |-> 0, maxAttempts |-> MaxAttempts,
              phases |-> FreshPhases]

QueuedRow(nextRun) ==
    [state |-> "queued", lockedBy |-> NoWorker, lease |-> Expired, nextRun |-> nextRun,
     attempt |-> 0, maxAttempts |-> MaxAttempts, phases |-> FreshPhases]

\* newJob: what every enqueue inserts.
NewRow == QueuedRow(0)

-----------------------------------------------------------------------------
(* Phases.                                                                 *)

Remaining(ph) == {p \in Phases : ph[p] # "succeeded"}

\* The loop visits the plan in order and skips succeeded phases.
IsNext(ph, p) == p \in Remaining(ph) /\ \A q \in Remaining(ph) : p <= q

\* mergePhases: what the row records is kept; AbsentRow already seeds the rest.
MergePhases(existing) == existing

MarkPhase(ph, p, s) == [ph EXCEPT ![p] = s]

\* finishFailure marks the first running phase as the point of failure.
MarkFailurePoint(ph, s) ==
    [p \in Phases |->
        IF ph[p] = "running" /\ \A q \in Phases : ph[q] = "running" => p <= q
        THEN s ELSE ph[p]]

-----------------------------------------------------------------------------
(* retry.ts                                                                *)

\* backoffSeconds: base * factor^(attempt-1), capped.
Backoff(attempt) ==
    LET raw == BackoffBase * BackoffFactor ^ (IF attempt > 1 THEN attempt - 1 ELSE 0)
    IN  IF raw \in 0 .. BackoffCap THEN raw ELSE BackoffCap

WillRetryOnceMore(attempt, budget, retryable) == retryable /\ attempt <= budget

\* decideAfterFailure: retry while the error allows it and budget is left.
WillRetry(attempt, budget, retryable) == retryable /\ attempt < budget

-----------------------------------------------------------------------------
(* The table's predicates.                                                 *)

LeaseOver(row) == row.lease = Expired

IsDue(row) == row.state \in {"queued", "retrying"} /\ row.nextRun = 0 /\ LeaseOver(row)

IsAbandonedUnowned(row) == row.state = "running" /\ LeaseOver(row) /\ row.lockedBy = NoWorker

IsAbandoned(row) == row.state = "running" /\ LeaseOver(row)

ClaimableIgnoringLease(row, kind) ==
    IF kind = "due" THEN row.state \in {"queued", "retrying"} /\ row.nextRun = 0
                    ELSE row.state = "running"

\* The WHERE clause of claimJob.
Claimable(row, kind) == IF kind = "due" THEN IsDue(row) ELSE IsAbandoned(row)

-----------------------------------------------------------------------------
(* Ticks.                                                                  *)

Kinds == {"due", "abandoned"}
Candidate == [job : Jobs, kind : Kinds, attempt : Nat]

AttemptUncounted(c) == c.attempt

\* "Each claim starts one attempt", counted from the row the select returned.
AttemptStarted(c) == c.attempt + 1

Snapshot(S, kind) == {[job |-> j, kind |-> kind, attempt |-> jobs[j].attempt] : j \in S}

\* `.limit(n)`: any n of S, or all of it.
Limited(S, n) == {T \in SUBSET S : Cardinality(T) = IF Cardinality(S) < n THEN Cardinality(S) ELSE n}

Active == {"start", "next", "exec", "requeue", "fail"}

AtRest(pc, cand) ==
    [pc |-> pc, cand |-> cand, job |-> NoJob, attempt |-> 0, budget |-> 0,
     phases |-> FreshPhases, done |-> 0, retryable |-> FALSE]

\* Done with this job, one way or the other: on to the next candidate.
Leave(w) == worker' = [worker EXCEPT ![w] = AtRest("claim", worker[w].cand)]

Goto(w, pc) == worker' = [worker EXCEPT ![w] = [worker[w] EXCEPT !.pc = pc]]

MyRow(w) == jobs[worker[w].job]

OwnsRegardless(w) == worker[w].pc \in Active

\* The guard of updateOwnedJob.
Owns(w) == worker[w].pc \in Active /\ MyRow(w).lockedBy = w

\* A checkpoint persists the phases and renews the lease.
CheckpointedRow(row, ph) == [row EXCEPT !.phases = ph, !.lease = LeaseTime]

Checkpoint(w, ph) == jobs' = [jobs EXCEPT ![worker[w].job] = CheckpointedRow(@, ph)]

\* A write that gives the row up.
ReleasedRow(row, state, ph, nextRun, attempt) ==
    [state |-> state, lockedBy |-> NoWorker, lease |-> Expired, nextRun |-> nextRun,
     attempt |-> attempt, maxAttempts |-> row.maxAttempts, phases |-> ph]

Release(w, state, ph, nextRun, attempt) ==
    jobs' = [jobs EXCEPT ![worker[w].job] = ReleasedRow(@, state, ph, nextRun, attempt)]

SelectDue(w) ==
    /\ worker[w].pc = "idle"
    /\ \E S \in Limited({j \in Jobs : IsDue(jobs[j])}, MaxJobs) :
          worker' = [worker EXCEPT ![w] = AtRest("select", Snapshot(S, "due"))]
    /\ UNCHANGED <<jobs, retrier, faults, overruns, retries>>

\* The abandoned rows that are not among the due ones follow them, and the whole
\* list is cut at MaxJobs.
SelectAbandoned(w) ==
    LET due  == worker[w].cand
        seen == {c.job : c \in due}
    IN  /\ worker[w].pc = "select"
        /\ \E L \in Limited({j \in Jobs : IsAbandoned(jobs[j])}, MaxJobs) :
           \E S \in Limited(L \ seen, MaxJobs - Cardinality(due)) :
              worker' = [worker EXCEPT ![w] = AtRest("claim", due \cup Snapshot(S, "abandoned"))]
        /\ UNCHANGED <<jobs, retrier, faults, overruns, retries>>

\* The selects ignore `error` too: a failed one looks like an empty table.
SelectUnanswered(w) ==
    /\ faults < MaxFaults
    /\ \/ worker[w].pc = "idle" /\ worker' = [worker EXCEPT ![w] = AtRest("select", {})]
       \/ worker[w].pc = "select"
          /\ worker' = [worker EXCEPT ![w] = AtRest("claim", worker[w].cand)]
    /\ faults' = faults + 1
    /\ UNCHANGED <<jobs, retrier, overruns, retries>>

EndTick(w) ==
    /\ worker[w].pc = "claim" /\ worker[w].cand = {}
    /\ worker' = [worker EXCEPT ![w] = AtRest("idle", {})]
    /\ UNCHANGED <<jobs, retrier, faults, overruns, retries>>

\* Candidates are taken in order, the due ones first.
Takes(w, c) ==
    /\ worker[w].pc = "claim" /\ c \in worker[w].cand
    /\ c.kind = "due" \/ \A d \in worker[w].cand : d.kind = "abandoned"

\* The row as the claiming UPDATE leaves it: attempt_count is computed from the
\* row read by the select, not from the row being updated: two claims may share one.
ClaimedRow(row, w, c) ==
    [state |-> "running", lockedBy |-> w, lease |-> LeaseTime, nextRun |-> NoRun,
     attempt |-> AttemptStarted(c), maxAttempts |-> row.maxAttempts, phases |-> row.phases]

ClaimWins(w, c) ==
    /\ Takes(w, c)
    /\ Claimable(jobs[c.job], c.kind)
    /\ jobs' = [jobs EXCEPT ![c.job] = ClaimedRow(jobs[c.job], w, c)]
    /\ worker' = [worker EXCEPT ![w] =
          [pc |-> "start", cand |-> worker[w].cand \ {c}, job |-> c.job,
           attempt |-> AttemptStarted(c), budget |-> jobs[c.job].maxAttempts,
           phases |-> MergePhases(jobs[c.job].phases), done |-> 0, retryable |-> FALSE]]
    /\ UNCHANGED <<retrier, faults, overruns, retries>>

ClaimLoses(w, c) ==
    /\ Takes(w, c)
    /\ ~Claimable(jobs[c.job], c.kind)
    /\ worker' = [worker EXCEPT ![w] = [worker[w] EXCEPT !.cand = @ \ {c}]]
    /\ UNCHANGED <<jobs, retrier, faults, overruns, retries>>

\* claimJob ignores `error`: a committed claim whose answer is lost looks like a
\* lost race, and the row stays leased to a tick that does not run it.
ClaimUnanswered(w, c) ==
    /\ Takes(w, c) /\ Claimable(jobs[c.job], c.kind) /\ faults < MaxFaults
    /\ jobs' = [jobs EXCEPT ![c.job] = ClaimedRow(jobs[c.job], w, c)]
    /\ worker' = [worker EXCEPT ![w] = [worker[w] EXCEPT !.cand = @ \ {c}]]
    /\ faults' = faults + 1
    /\ UNCHANGED <<retrier, overruns, retries>>

\* The attempt_started audit write.
StartAttempt(w) ==
    /\ worker[w].pc = "start" /\ Owns(w)
    /\ Checkpoint(w, worker[w].phases)
    /\ Goto(w, "next")
    /\ UNCHANGED <<retrier, faults, overruns, retries>>

BeginPhase(w, p) ==
    LET ph == MarkPhase(worker[w].phases, p, "running")
    IN  /\ worker[w].pc = "next" /\ Owns(w) /\ IsNext(worker[w].phases, p)
        /\ Checkpoint(w, ph)
        /\ worker' = [worker EXCEPT ![w] = [worker[w] EXCEPT !.pc = "exec", !.phases = ph]]
        /\ UNCHANGED <<retrier, faults, overruns, retries>>

BudgetSpent(done, ph) == PhasesPerTick > 0 /\ done >= PhasesPerTick /\ Remaining(ph) # {}

\* executePhase returned: the phase is checkpointed as succeeded, and a tick whose
\* phase budget is spent goes on to requeue the rest.
CompletePhase(w, p) ==
    LET ph == MarkPhase(worker[w].phases, p, "succeeded")
    IN  /\ worker[w].pc = "exec" /\ Owns(w) /\ IsNext(worker[w].phases, p)
        /\ Checkpoint(w, ph)
        /\ worker' = [worker EXCEPT ![w] =
              [worker[w] EXCEPT
                  !.pc = IF BudgetSpent(worker[w].done + 1, ph) THEN "requeue" ELSE "next",
                  !.phases = ph, !.done = @ + 1]]
        /\ UNCHANGED <<retrier, faults, overruns, retries>>

\* executePhase threw.
PhaseThrows(w) ==
    /\ worker[w].pc = "exec"
    /\ \E r \in BOOLEAN :
          worker' = [worker EXCEPT ![w] = [worker[w] EXCEPT !.pc = "fail", !.retryable = r]]
    /\ UNCHANGED <<jobs, retrier, faults, overruns, retries>>

\* A continuation, not a new attempt: the next claim's increment is undone here.
Requeue(w) ==
    /\ worker[w].pc = "requeue" /\ Owns(w)
    /\ Release(w, "queued", worker[w].phases, 0, worker[w].attempt - 1)
    /\ Leave(w)
    /\ UNCHANGED <<retrier, faults, overruns, retries>>

FinishFailure(w) ==
    LET again == WillRetry(worker[w].attempt, worker[w].budget, worker[w].retryable)
    IN  /\ worker[w].pc = "fail" /\ Owns(w)
        /\ Release(w, IF again THEN "retrying" ELSE "failed",
                   MarkFailurePoint(worker[w].phases, IF again THEN "retrying" ELSE "failed"),
                   IF again THEN Backoff(worker[w].attempt) ELSE NoRun,
                   MyRow(w).attempt)
        /\ Leave(w)
        /\ UNCHANGED <<retrier, faults, overruns, retries>>

FinishSuccess(w) ==
    /\ worker[w].pc = "next" /\ Owns(w) /\ Remaining(worker[w].phases) = {}
    /\ Release(w, "succeeded", worker[w].phases, MyRow(w).nextRun, MyRow(w).attempt)
    /\ Leave(w)
    /\ UNCHANGED <<retrier, faults, overruns, retries>>

\* An owner-guarded write matched no row.  The exec step's write comes after the
\* phase ran, so a worker that lost its lease still finishes executing the phase.
LeaseLost(w) ==
    /\ worker[w].pc \in Active /\ ~Owns(w)
    /\ Leave(w)
    /\ UNCHANGED <<jobs, retrier, faults, overruns, retries>>

\* An owner-guarded write inside the phase loop fails, whether or not the database
\* applied it.  The local phases were changed before the write, and the error is
\* an unexpected one: retryable.
PhaseWriteFails(w, p) ==
    LET ph == IF worker[w].pc = "requeue" THEN worker[w].phases
              ELSE MarkPhase(worker[w].phases, p,
                             IF worker[w].pc = "next" THEN "running" ELSE "succeeded")
    IN  /\ worker[w].pc \in {"next", "exec", "requeue"} /\ faults < MaxFaults
        /\ IsNext(worker[w].phases, p)
        /\ \/ UNCHANGED jobs
           \/ Owns(w) /\ worker[w].pc # "requeue" /\ Checkpoint(w, ph)
           \/ Owns(w) /\ worker[w].pc = "requeue"
              /\ Release(w, "queued", ph, 0, worker[w].attempt - 1)
        /\ worker' = [worker EXCEPT ![w] =
              [worker[w] EXCEPT !.pc = "fail", !.phases = ph, !.retryable = TRUE]]
        /\ faults' = faults + 1
        /\ UNCHANGED <<retrier, overruns, retries>>

\* The function is killed, or a write outside the phase loop fails and its error
\* leaves runTick: the tick is gone and its row keeps the lease.
Crash(w) ==
    /\ worker[w].pc # "idle" /\ faults < MaxFaults
    /\ worker' = [worker EXCEPT ![w] = AtRest("idle", {})]
    /\ faults' = faults + 1
    /\ UNCHANGED <<jobs, retrier, overruns, retries>>

-----------------------------------------------------------------------------
(* Console requests and time.                                              *)

\* insertJob: the unique key makes a second enqueue return the existing row.
Enqueue(j) ==
    /\ jobs[j].state = "absent"
    /\ jobs' = [jobs EXCEPT ![j] = NewRow]
    /\ UNCHANGED <<worker, retrier, faults, overruns, retries>>

\* canRetryJob: safe_to_retry is TRUE on every row the code inserts.
CanRetry(row) == row.state = "failed"

IdleRequest == [pc |-> "idle", job |-> NoJob, seen |-> "absent", attempt |-> 0]

\* retryJob and enqueueGeneration read the row and check it ...
RetryRead(r, j) ==
    /\ retrier[r].pc = "idle" /\ CanRetry(jobs[j]) /\ retries < MaxRetries
    /\ retrier' = [retrier EXCEPT ![r] =
          [pc |-> "write", job |-> j, seen |-> jobs[j].state, attempt |-> jobs[j].attempt]]
    /\ retries' = retries + 1
    /\ UNCHANGED <<jobs, worker, faults, overruns>>

\* requeueFailedJob: a fresh budget on top of the attempts the read row had spent.
RetriedRow(row, attempt) ==
    [state |-> "queued", lockedBy |-> NoWorker, lease |-> Expired, nextRun |-> 0,
     attempt |-> row.attempt, maxAttempts |-> attempt + MaxAttempts, phases |-> row.phases]

\* ... and requeueFailedJob then updates it by id alone.
RetryWrite(r) ==
    /\ retrier[r].pc = "write"
    /\ jobs' = [jobs EXCEPT ![retrier[r].job] = RetriedRow(@, retrier[r].attempt)]
    /\ retrier' = [retrier EXCEPT ![r] = IdleRequest]
    /\ UNCHANGED <<worker, faults, overruns, retries>>

\* lease_expires_at < now is strict, next_run_at <= now is not.
Aged(row) ==
    [row EXCEPT !.lease = IF @ = Expired THEN Expired ELSE @ - 1,
                !.nextRun = IF @ > 0 THEN @ - 1 ELSE @]

\* One unit of time passes.  worker.ts sizes the lease so that an owner has always
\* crashed, or written again, before it runs out; MaxOverruns = 0 takes that as given.
Elapse ==
    LET overrun == \E w \in Workers : Owns(w) /\ MyRow(w).lease = 0
    IN  /\ overrun => overruns < MaxOverruns
        /\ overruns' = IF overrun THEN overruns + 1 ELSE overruns
        /\ jobs' = [j \in Jobs |-> Aged(jobs[j])]
        /\ UNCHANGED <<worker, retrier, faults, retries>>

-----------------------------------------------------------------------------
Init ==
    /\ jobs = [j \in Jobs |-> AbsentRow]
    /\ worker = [w \in Workers |-> AtRest("idle", {})]
    /\ retrier = [r \in Retriers |-> IdleRequest]
    /\ faults = 0
    /\ overruns = 0
    /\ retries = 0

\* What a tick does by itself, faults aside.
TickStep(w) ==
    \/ SelectDue(w) \/ SelectAbandoned(w) \/ EndTick(w)
    \/ \E c \in worker[w].cand : ClaimWins(w, c) \/ ClaimLoses(w, c)
    \/ StartAttempt(w)
    \/ \E p \in Phases : BeginPhase(w, p) \/ CompletePhase(w, p)
    \/ PhaseThrows(w) \/ Requeue(w) \/ FinishFailure(w) \/ FinishSuccess(w) \/ LeaseLost(w)

TickFault(w) ==
    \/ SelectUnanswered(w)
    \/ \E c \in worker[w].cand : ClaimUnanswered(w, c)
    \/ \E p \in Phases : PhaseWriteFails(w, p)
    \/ Crash(w)

Next ==
    \/ \E w \in Workers : TickStep(w) \/ TickFault(w)
    \/ \E r \in Retriers : RetryWrite(r) \/ \E j \in Jobs : RetryRead(r, j)
    \/ \E j \in Jobs : Enqueue(j)
    \/ Elapse

\* The schedule fires every minute and a running function runs on: every tick keeps
\* taking steps, time passes, and a request that read its job writes it.
Fairness ==
    /\ \A w \in Workers : WF_vars(TickStep(w))
    /\ \A r \in Retriers : WF_vars(RetryWrite(r))
    /\ WF_vars(Elapse)

Spec == Init /\ [][Next]_vars
FairSpec == Spec /\ Fairness

-----------------------------------------------------------------------------
(* Properties.                                                             *)

JobRow == [state : JobState, lockedBy : Workers \cup {NoWorker}, lease : Int,
           nextRun : Int, attempt : Nat, maxAttempts : Nat, phases : [Phases -> PhaseState]]

TickState == [pc : {"idle", "select", "claim"} \cup Active, cand : SUBSET Candidate,
              job : Jobs \cup {NoJob}, attempt : Nat, budget : Nat,
              phases : [Phases -> PhaseState], done : Nat, retryable : BOOLEAN]

RetryState == [pc : {"idle", "write"}, job : Jobs \cup {NoJob}, seen : JobState, attempt : Nat]

TickOK(t) == t.pc \in Active => t.job \in Jobs /\ t.attempt > 0

RetryOK(q) == q.pc = "write" => q.job \in Jobs

\* Every row, tick and request holds values of its kind; an active tick has a job
\* and counts its attempts from one (worker.ts:113).
TypeOK ==
    /\ jobs \in [Jobs -> JobRow]
    /\ worker \in [Workers -> TickState] /\ \A w \in Workers : TickOK(worker[w])
    /\ retrier \in [Retriers -> RetryState] /\ \A r \in Retriers : RetryOK(retrier[r])
    /\ faults \in Nat /\ overruns \in Nat /\ retries \in Nat

\* No row is ever out of reach of both selects for good: a running row has an
\* owner and no schedule, a waiting one is scheduled and unleased, and a finished
\* one holds neither lease nor owner (pgdb.ts selectDueJobs, selectAbandonedJobs).
\* A job nobody enqueued has no progress.
RowCoherent(row) ==
    /\ row.state = "running" <=> row.lockedBy # NoWorker
    /\ row.state # "running" => row.lease = Expired
    /\ row.state \in {"queued", "retrying"} <=> row.nextRun # NoRun
    /\ row.lease \in Expired .. LeaseTime
    /\ row.state = "absent" => row.phases = FreshPhases

NoRowStuck == \A j \in Jobs : RowCoherent(jobs[j])

\* Phases complete in plan order, and a job reported succeeded has completed them
\* all, whatever crashed, expired or was retried on the way.
InOrder(ph) == \A p, q \in Phases : p < q /\ ph[q] = "succeeded" => ph[p] = "succeeded"

PhasesInOrder ==
    \A j \in Jobs : /\ InOrder(jobs[j].phases)
                    /\ jobs[j].state = "succeeded" => Remaining(jobs[j].phases) = {}

\* worker.ts:62: a second tick cannot double-process a job, so no two ticks execute
\* a phase of the same job at the same time.
NoDoubleProcessing ==
    \A v, w \in Workers :
        worker[v].pc = "exec" /\ worker[w].pc = "exec" /\ worker[v].job = worker[w].job => v = w

\* A job starts MaxAttempts attempts for its enqueue and for every manual retry, and one
\* more for each crash, failed statement or overrun, however stale the counts are that
\* its claims go by (worker.ts:113, actions.ts:163).  max_attempts itself is no bound: a
\* claim from an old select sets the count back, and the next retry the budget with it.
AttemptBudget ==
    \A j \in Jobs : jobs[j].attempt <= MaxAttempts * (1 + retries) + faults + overruns

\* Completed phases survive every failure, reclaim and manual retry (PRD JOB-6).
ProgressKept ==
    [][\A j \in Jobs, p \in Phases :
         jobs[j].phases[p] = "succeeded" => jobs'[j].phases[p] = "succeeded"]_vars

\* A phase the row records as succeeded is not executed again: no tick, however
\* stale, starts a phase that is already done.
NoPhaseRerun ==
    [][\A w \in Workers, p \in Phases :
         worker[w].pc # "exec" /\ worker'[w].pc = "exec" /\ IsNext(worker'[w].phases, p)
            => MyRow(w).phases[p] # "succeeded"]_vars

\* A success stands against every tick, however stale: what takes it back is a console
\* request that read the job before the success, when it had failed, and updates it by id
\* alone (transitions.ts:55, actions.ts:133-169).
Requeues(r, j) ==
    retrier[r].pc = "write" /\ retrier[r].job = j /\ retrier'[r].pc = "idle"

OnlyRacingRetryUndoesSuccess ==
    [][\A j \in Jobs : jobs[j].state = "succeeded" /\ jobs'[j].state # "succeeded" =>
          \E r \in Retriers : Requeues(r, j) /\ retrier[r].seen = "failed"]_vars

\* Every enqueued job is eventually reported succeeded or failed.
JobsSettle ==
    \A j \in Jobs : jobs[j].state \in {"queued", "running", "retrying"}
                        ~> jobs[j].state \in {"succeeded", "failed"}

-----------------------------------------------------------------------------
(* What makes the safety properties inductive.                             *)

\* A tick's copy of the phases holds what its row records, and is ahead of it only
\* by a phase whose checkpoint failed.
Agrees(t, row) ==
    \A p \in Phases :
        /\ row.phases[p] = "succeeded" => t.phases[p] = "succeeded"
        /\ t.phases[p] = "succeeded" =>
              row.phases[p] = "succeeded" \/ (t.pc = "fail" /\ IsNext(row.phases, p))

OwnersAgree == \A w \in Workers : Owns(w) => Agrees(worker[w], MyRow(w))

TicksInOrder == \A w \in Workers : InOrder(worker[w].phases)

ProgressInv == TypeOK /\ NoRowStuck /\ PhasesInOrder /\ TicksInOrder /\ OwnersAgree

\* Without overruns a tick that has not failed owns its row under a lease that runs.
OwnersHoldLeases ==
    \A w \in Workers : worker[w].pc \in Active \ {"fail"} => Owns(w) /\ MyRow(w).lease >= 0

\* A request that goes on to write its job had read it failed ...
RequestsReadFailed == \A r \in Retriers : retrier[r].pc = "write" => retrier[r].seen = "failed"

\* ... and with one console request at a time, the job is still failed.
RetriesAreFresh ==
    \A r \in Retriers : retrier[r].pc = "write" => jobs[retrier[r].job].state = "failed"

\* The attempts there may have been: a retry counts once it is written.
Pending == {r \in Retriers : retrier[r].pc = "write"}
Allowance == MaxAttempts * (1 + retries - Cardinality(Pending)) + faults + overruns

\* Every count of attempts, stored or held by a tick or a request, and every budget.
CountsBounded ==
    /\ \A j \in Jobs : jobs[j].attempt <= Allowance /\ jobs[j].maxAttempts <= Allowance
    /\ \A w \in Workers : \A c \in worker[w].cand : c.attempt < Allowance
    /\ \A w \in Workers : worker[w].pc \in Active => worker[w].attempt <= Allowance
    /\ \A r \in Pending : retrier[r].attempt <= Allowance

\* A row that waits, or that nobody works on under a running lease, can be claimed once more.
RoomToClaim ==
    \A j \in Jobs :
        \/ jobs[j].state \in {"queued", "retrying"}
        \/ /\ jobs[j].state = "running"
           /\ jobs[j].lease = Expired \/ \A w \in Workers : Owns(w) => worker[w].job # j
        => jobs[j].attempt < Allowance

\* The owner of a row knows the row's own count and budget.
OwnersCount ==
    \A w \in Workers : Owns(w) =>
        MyRow(w).attempt = worker[w].attempt /\ MyRow(w).maxAttempts = worker[w].budget

BudgetInv ==
    /\ IsFiniteSet(Pending) /\ Cardinality(Pending) <= retries
    /\ CountsBounded /\ RoomToClaim /\ OwnersCount
=============================================================================
