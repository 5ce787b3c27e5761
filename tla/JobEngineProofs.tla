-------------------------- MODULE JobEngineProofs --------------------------
(***************************************************************************)
(* Theorems about JobEngine for every number of jobs, ticks, phases and    *)
(* attempts, every lease and every bound on the faults: types, progress,   *)
(* one actor at a time, the lifecycle its callers see, and the budget of   *)
(* attempts.                                                               *)
(***************************************************************************)
EXTENDS JobEngineRefinement, TLAPS, FiniteSetTheorems

USE DEF Phases, PhaseState, JobState, Expired, NoRun, Active, FreshPhases

-----------------------------------------------------------------------------
(* Operators.                                                              *)

LEMMA MarkPhaseType ==
    ASSUME NEW ph \in [Phases -> PhaseState], NEW p \in Phases, NEW s \in PhaseState
    PROVE  MarkPhase(ph, p, s) \in [Phases -> PhaseState]
BY DEF MarkPhase

LEMMA MarkFailurePointType ==
    ASSUME NEW ph \in [Phases -> PhaseState], NEW s \in PhaseState
    PROVE  MarkFailurePoint(ph, s) \in [Phases -> PhaseState]
BY DEF MarkFailurePoint

\* A backoff is never negative and never beyond the cap (retry.ts backoffSeconds).
LEMMA BackoffRange ==
    ASSUME NEW attempt
    PROVE  Backoff(attempt) \in 0 .. BackoffCap
<1> DEFINE raw == BackoffBase * BackoffFactor ^ (IF attempt > 1 THEN attempt - 1 ELSE 0)
<1>1. Backoff(attempt) = IF raw \in 0 .. BackoffCap THEN raw ELSE BackoffCap
  BY DEF Backoff
<1> HIDE DEF raw
<1>2. BackoffCap \in 0 .. BackoffCap
  BY EngineAssumption DEF EngineAssumption
<1> QED BY <1>1, <1>2

-----------------------------------------------------------------------------
(* Rows: each statement writes a row of the table's type.                  *)

LEMMA CheckpointedType ==
    ASSUME NEW row \in JobRow, NEW ph \in [Phases -> PhaseState]
    PROVE  CheckpointedRow(row, ph) \in JobRow
<1> DEFINE mid == [row EXCEPT !.phases = ph]
<1>1. mid \in JobRow
  BY DEF JobRow
<1>2. CheckpointedRow(row, ph) = [mid EXCEPT !.lease = LeaseTime]
  BY DEF CheckpointedRow
<1>3. LeaseTime \in Int
  BY EngineAssumption DEF EngineAssumption
<1> HIDE DEF mid
<1> QED BY <1>1, <1>2, <1>3 DEF JobRow

LEMMA AgedType ==
    ASSUME NEW row \in JobRow
    PROVE  Aged(row) \in JobRow
<1> DEFINE mid == [row EXCEPT !.lease = IF @ = Expired THEN Expired ELSE @ - 1]
<1>1. mid \in JobRow
  BY DEF JobRow
<1>2. Aged(row) = [mid EXCEPT !.nextRun = IF @ > 0 THEN @ - 1 ELSE @]
  BY DEF Aged
<1> HIDE DEF mid
<1> QED BY <1>1, <1>2 DEF JobRow

LEMMA ReleasedType ==
    ASSUME NEW row \in JobRow, NEW state \in JobState, NEW ph \in [Phases -> PhaseState],
           NEW nextRun \in Int, NEW attempt \in Nat
    PROVE  ReleasedRow(row, state, ph, nextRun, attempt) \in JobRow
BY DEF ReleasedRow, JobRow

LEMMA ClaimedType ==
    ASSUME NEW row \in JobRow, NEW w \in Workers, NEW c \in Candidate
    PROVE  ClaimedRow(row, w, c) \in JobRow
BY EngineAssumption DEF EngineAssumption, ClaimedRow, AttemptStarted, Candidate, JobRow

LEMMA RetriedType ==
    ASSUME NEW row \in JobRow, NEW attempt \in Nat
    PROVE  RetriedRow(row, attempt) \in JobRow
BY EngineAssumption DEF EngineAssumption, RetriedRow, JobRow

LEMMA NewRowType == AbsentRow \in JobRow /\ NewRow \in JobRow
BY EngineAssumption DEF EngineAssumption, AbsentRow, NewRow, QueuedRow, JobRow

-----------------------------------------------------------------------------
(* Ticks: what each kind of local step makes of a tick's state.            *)

LEMMA AtRestType ==
    ASSUME NEW pc \in {"idle", "select", "claim"}, NEW cand \in SUBSET Candidate
    PROVE  AtRest(pc, cand) \in TickState /\ TickOK(AtRest(pc, cand))
BY DEF AtRest, TickState, TickOK

LEMMA TickPcType ==
    ASSUME NEW t \in TickState, TickOK(t), t.pc \in Active, NEW pc \in Active
    PROVE  [t EXCEPT !.pc = pc] \in TickState /\ TickOK([t EXCEPT !.pc = pc])
BY DEF TickState, TickOK

LEMMA TickPhasesType ==
    ASSUME NEW t \in TickState, TickOK(t), NEW ph \in [Phases -> PhaseState]
    PROVE  [t EXCEPT !.phases = ph] \in TickState /\ TickOK([t EXCEPT !.phases = ph])
BY DEF TickState, TickOK

LEMMA TickPhasePcType ==
    ASSUME NEW t \in TickState, TickOK(t), t.pc \in Active, NEW pc \in Active,
           NEW ph \in [Phases -> PhaseState]
    PROVE  LET n == [t EXCEPT !.pc = pc, !.phases = ph] IN n \in TickState /\ TickOK(n)
<1> DEFINE mid == [t EXCEPT !.pc = pc]
<1>1. mid \in TickState /\ TickOK(mid)
  BY TickPcType
<1>2. [t EXCEPT !.pc = pc, !.phases = ph] = [mid EXCEPT !.phases = ph]
  OBVIOUS
<1> HIDE DEF mid
<1> QED BY <1>1, <1>2, TickPhasesType

LEMMA TickDoneType ==
    ASSUME NEW t \in TickState, TickOK(t), t.pc \in Active, NEW pc \in Active,
           NEW ph \in [Phases -> PhaseState]
    PROVE  LET n == [t EXCEPT !.pc = pc, !.phases = ph, !.done = @ + 1]
           IN  n \in TickState /\ TickOK(n)
<1> DEFINE mid == [t EXCEPT !.pc = pc, !.phases = ph]
<1>1. mid \in TickState /\ TickOK(mid)
  BY TickPhasePcType
<1>2. [t EXCEPT !.pc = pc, !.phases = ph, !.done = @ + 1] = [mid EXCEPT !.done = @ + 1]
  OBVIOUS
<1> HIDE DEF mid
<1> QED BY <1>1, <1>2 DEF TickState, TickOK

LEMMA TickFailType ==
    ASSUME NEW t \in TickState, TickOK(t), t.pc \in Active, NEW r \in BOOLEAN
    PROVE  LET n == [t EXCEPT !.pc = "fail", !.retryable = r] IN n \in TickState /\ TickOK(n)
<1> DEFINE mid == [t EXCEPT !.pc = "fail"]
<1>1. mid \in TickState /\ TickOK(mid)
  BY TickPcType
<1>2. [t EXCEPT !.pc = "fail", !.retryable = r] = [mid EXCEPT !.retryable = r]
  OBVIOUS
<1> HIDE DEF mid
<1> QED BY <1>1, <1>2 DEF TickState, TickOK

LEMMA TickFailPhaseType ==
    ASSUME NEW t \in TickState, TickOK(t), t.pc \in Active, NEW ph \in [Phases -> PhaseState]
    PROVE  LET n == [t EXCEPT !.pc = "fail", !.phases = ph, !.retryable = TRUE]
           IN  n \in TickState /\ TickOK(n)
<1> DEFINE mid == [t EXCEPT !.pc = "fail", !.phases = ph]
<1>1. mid \in TickState /\ TickOK(mid)
  BY TickPhasePcType
<1>2. [t EXCEPT !.pc = "fail", !.phases = ph, !.retryable = TRUE] = [mid EXCEPT !.retryable = TRUE]
  OBVIOUS
<1> HIDE DEF mid
<1> QED BY <1>1, <1>2 DEF TickState, TickOK

LEMMA TickCandType ==
    ASSUME NEW t \in TickState, TickOK(t), NEW c
    PROVE  LET n == [t EXCEPT !.cand = @ \ {c}] IN n \in TickState /\ TickOK(n)
BY DEF TickState, TickOK

LEMMA WorkerEdit ==
    ASSUME TypeOK, NEW w \in Workers, NEW t \in TickState, TickOK(t),
           worker' = [worker EXCEPT ![w] = t]
    PROVE  worker' \in [Workers -> TickState] /\ \A v \in Workers : TickOK(worker'[v])
BY DEF TypeOK

LEMMA RowEdit ==
    ASSUME TypeOK, NEW j \in Jobs, NEW row \in JobRow, jobs' = [jobs EXCEPT ![j] = row]
    PROVE  jobs' \in [Jobs -> JobRow]
BY DEF TypeOK

LEMMA MyRowType ==
    ASSUME TypeOK, NEW w \in Workers, worker[w].pc \in Active
    PROVE  /\ worker[w].job \in Jobs /\ worker[w].attempt \in Nat \ {0}
           /\ MyRow(w) \in JobRow
           /\ worker[w] \in TickState /\ TickOK(worker[w])
           /\ worker[w].phases \in [Phases -> PhaseState]
BY DEF TypeOK, TickOK, TickState, MyRow

LEMMA CheckpointType ==
    ASSUME TypeOK, NEW w \in Workers, worker[w].pc \in Active,
           NEW ph \in [Phases -> PhaseState], Checkpoint(w, ph)
    PROVE  jobs' \in [Jobs -> JobRow]
BY MyRowType, CheckpointedType, RowEdit DEF Checkpoint, MyRow

LEMMA ReleaseType ==
    ASSUME TypeOK, NEW w \in Workers, worker[w].pc \in Active, NEW state \in JobState,
           NEW ph \in [Phases -> PhaseState], NEW nextRun \in Int, NEW attempt \in Nat,
           Release(w, state, ph, nextRun, attempt)
    PROVE  jobs' \in [Jobs -> JobRow]
BY MyRowType, ReleasedType, RowEdit DEF Release, MyRow

LEMMA LeaveType ==
    ASSUME TypeOK, NEW w \in Workers, Leave(w)
    PROVE  worker' \in [Workers -> TickState] /\ \A v \in Workers : TickOK(worker'[v])
<1>1. worker[w].cand \in SUBSET Candidate
  BY DEF TypeOK, TickState
<1> QED BY <1>1, AtRestType, WorkerEdit DEF Leave

LEMMA GotoType ==
    ASSUME TypeOK, NEW w \in Workers, worker[w].pc \in Active, NEW pc \in Active, Goto(w, pc)
    PROVE  worker' \in [Workers -> TickState] /\ \A v \in Workers : TickOK(worker'[v])
BY MyRowType, TickPcType, WorkerEdit DEF Goto

LEMMA SnapshotType ==
    ASSUME TypeOK, NEW S \in SUBSET Jobs, NEW kind \in Kinds
    PROVE  Snapshot(S, kind) \in SUBSET Candidate
BY DEF Snapshot, Candidate, TypeOK, JobRow

LEMMA CandidateType ==
    ASSUME TypeOK, NEW w \in Workers, NEW c \in worker[w].cand
    PROVE  c \in Candidate /\ c.job \in Jobs /\ c.attempt \in Nat /\ jobs[c.job] \in JobRow
BY DEF TypeOK, TickState, Candidate

LEMMA ClaimType ==
    ASSUME TypeOK, NEW w \in Workers, NEW c \in worker[w].cand,
           jobs' = [jobs EXCEPT ![c.job] = ClaimedRow(jobs[c.job], w, c)]
    PROVE  jobs' \in [Jobs -> JobRow]
BY CandidateType, ClaimedType, RowEdit

LEMMA DropCandidateType ==
    ASSUME TypeOK, NEW w \in Workers, NEW c,
           worker' = [worker EXCEPT ![w] = [worker[w] EXCEPT !.cand = @ \ {c}]]
    PROVE  worker' \in [Workers -> TickState] /\ \A v \in Workers : TickOK(worker'[v])
<1>1. worker[w] \in TickState /\ TickOK(worker[w])
  BY DEF TypeOK
<1> QED BY <1>1, TickCandType, WorkerEdit

-----------------------------------------------------------------------------
(* Type correctness.                                                       *)

LEMMA TypeInit == Init => TypeOK
<1> SUFFICES ASSUME Init PROVE TypeOK
  OBVIOUS
<1>1. jobs \in [Jobs -> JobRow]
  BY NewRowType DEF Init
<1>2. worker \in [Workers -> TickState] /\ \A w \in Workers : TickOK(worker[w])
  BY AtRestType DEF Init
<1>3. retrier \in [Retriers -> RetryState] /\ \A r \in Retriers : RetryOK(retrier[r])
  BY DEF Init, IdleRequest, JobState, RetryState, RetryOK
<1> QED BY <1>1, <1>2, <1>3 DEF Init, TypeOK

LEMMA TypeTick ==
    ASSUME TypeOK, NEW w \in Workers, TickStep(w)
    PROVE  TypeOK'
<1> DEFINE WorkerOK == worker' \in [Workers -> TickState] /\ \A v \in Workers : TickOK(worker'[v])
           RowsOK == jobs' \in [Jobs -> JobRow]
<1>0. SUFFICES WorkerOK /\ RowsOK
  BY DEF TypeOK, TickStep, SelectDue, SelectAbandoned, EndTick, ClaimWins, ClaimLoses,
         StartAttempt, BeginPhase, CompletePhase, PhaseThrows, Requeue, FinishFailure,
         FinishSuccess, LeaseLost
<1>1. CASE SelectDue(w)
  <2>1. PICK S \in SUBSET Jobs :
            worker' = [worker EXCEPT ![w] = AtRest("select", Snapshot(S, "due"))]
    BY <1>1 DEF SelectDue, Limited
  <2>2. Snapshot(S, "due") \in SUBSET Candidate
    BY SnapshotType DEF Kinds
  <2> QED BY <1>1, <2>1, <2>2, AtRestType, WorkerEdit DEF SelectDue, TypeOK
<1>2. CASE SelectAbandoned(w)
  <2>1. PICK S \in SUBSET Jobs :
            worker' = [worker EXCEPT
                ![w] = AtRest("claim", worker[w].cand \cup Snapshot(S, "abandoned"))]
    BY <1>2 DEF SelectAbandoned, Limited
  <2>2. Snapshot(S, "abandoned") \in SUBSET Candidate /\ worker[w].cand \in SUBSET Candidate
    BY SnapshotType DEF Kinds, TypeOK, TickState
  <2> QED BY <1>2, <2>1, <2>2, AtRestType, WorkerEdit DEF SelectAbandoned, TypeOK
<1>3. CASE EndTick(w)
  BY <1>3, AtRestType, WorkerEdit DEF EndTick, TypeOK
<1>4. ASSUME NEW c \in worker[w].cand, ClaimWins(w, c) PROVE WorkerOK /\ RowsOK
  <2> DEFINE t == [pc |-> "start", cand |-> worker[w].cand \ {c}, job |-> c.job,
                   attempt |-> AttemptStarted(c), budget |-> jobs[c.job].maxAttempts,
                   phases |-> MergePhases(jobs[c.job].phases), done |-> 0, retryable |-> FALSE]
  <2>1. t \in TickState /\ TickOK(t)
    <3>1. AttemptStarted(c) \in Nat /\ AttemptStarted(c) > 0
      BY CandidateType DEF AttemptStarted
    <3>2. jobs[c.job].maxAttempts \in Nat /\ MergePhases(jobs[c.job].phases) \in [Phases -> PhaseState]
      BY CandidateType DEF JobRow, MergePhases
    <3>3. worker[w].cand \ {c} \in SUBSET Candidate
      BY DEF TypeOK, TickState
    <3> QED BY <3>1, <3>2, <3>3, CandidateType DEF TickState, TickOK
  <2>2. worker' = [worker EXCEPT ![w] = t]
    BY <1>4 DEF ClaimWins
  <2> HIDE DEF t
  <2> QED BY <1>4, <2>1, <2>2, WorkerEdit, ClaimType DEF ClaimWins
<1>5. ASSUME NEW c \in worker[w].cand, ClaimLoses(w, c) PROVE WorkerOK /\ RowsOK
  BY <1>5, DropCandidateType DEF ClaimLoses, TypeOK
<1>6. CASE StartAttempt(w)
  BY <1>6, MyRowType, CheckpointType, GotoType DEF StartAttempt
<1>7. ASSUME NEW p \in Phases, BeginPhase(w, p) PROVE WorkerOK /\ RowsOK
  <2> DEFINE ph == MarkPhase(worker[w].phases, p, "running")
  <2>1. worker[w].pc \in Active /\ ph \in [Phases -> PhaseState]
    BY <1>7, MyRowType, MarkPhaseType DEF BeginPhase
  <2>2. Checkpoint(w, ph) /\ worker' = [worker EXCEPT ![w] = [worker[w] EXCEPT !.pc = "exec", !.phases = ph]]
    BY <1>7 DEF BeginPhase
  <2> HIDE DEF ph
  <2> QED BY <2>1, <2>2, MyRowType, CheckpointType, TickPhasePcType, WorkerEdit
<1>8. ASSUME NEW p \in Phases, CompletePhase(w, p) PROVE WorkerOK /\ RowsOK
  <2> DEFINE ph == MarkPhase(worker[w].phases, p, "succeeded")
             pc == IF BudgetSpent(worker[w].done + 1, ph) THEN "requeue" ELSE "next"
  <2>1. worker[w].pc \in Active /\ ph \in [Phases -> PhaseState] /\ pc \in Active
    BY <1>8, MyRowType, MarkPhaseType DEF CompletePhase
  <2>2. Checkpoint(w, ph)
        /\ worker' = [worker EXCEPT ![w] = [worker[w] EXCEPT !.pc = pc, !.phases = ph, !.done = @ + 1]]
    BY <1>8 DEF CompletePhase
  <2> HIDE DEF ph, pc
  <2> QED BY <2>1, <2>2, MyRowType, CheckpointType, TickDoneType, WorkerEdit
<1>9. CASE PhaseThrows(w)
  <2>1. PICK r \in BOOLEAN :
            worker' = [worker EXCEPT ![w] = [worker[w] EXCEPT !.pc = "fail", !.retryable = r]]
    BY <1>9 DEF PhaseThrows
  <2> QED BY <1>9, <2>1, MyRowType, TickFailType, WorkerEdit DEF PhaseThrows, TypeOK
<1>10. CASE Requeue(w)
  <2>1. worker[w].attempt - 1 \in Nat
    BY <1>10, MyRowType DEF Requeue
  <2> QED BY <1>10, <2>1, MyRowType, ReleaseType, LeaveType DEF Requeue
<1>11. CASE FinishFailure(w)
  <2>1. worker[w].pc \in Active
    BY <1>11 DEF FinishFailure
  <2>2. MyRow(w).attempt \in Nat
    BY <2>1, MyRowType DEF JobRow
  <2>3. Backoff(worker[w].attempt) \in Int
    BY BackoffRange, EngineAssumption DEF EngineAssumption
  <2> DEFINE again == WillRetry(worker[w].attempt, worker[w].budget, worker[w].retryable)
             state == IF again THEN "retrying" ELSE "failed"
             nextRun == IF again THEN Backoff(worker[w].attempt) ELSE NoRun
  <2>4. state \in JobState /\ state \in PhaseState /\ nextRun \in Int
    BY <2>3
  <2>5. Release(w, state, MarkFailurePoint(worker[w].phases, state), nextRun, MyRow(w).attempt)
    BY <1>11 DEF FinishFailure
  <2> HIDE DEF again, state, nextRun
  <2> QED BY <1>11, <2>1, <2>2, <2>4, <2>5, MyRowType, MarkFailurePointType, ReleaseType, LeaveType
          DEF FinishFailure
<1>12. CASE FinishSuccess(w)
  <2>1. worker[w].pc \in Active
    BY <1>12 DEF FinishSuccess
  <2>2. MyRow(w).attempt \in Nat /\ MyRow(w).nextRun \in Int
    BY <2>1, MyRowType DEF JobRow
  <2> QED BY <1>12, <2>1, <2>2, MyRowType, ReleaseType, LeaveType DEF FinishSuccess
<1>13. CASE LeaseLost(w)
  BY <1>13, LeaveType DEF LeaseLost, TypeOK
<1> QED BY <1>1, <1>2, <1>3, <1>4, <1>5, <1>6, <1>7, <1>8, <1>9, <1>10, <1>11, <1>12, <1>13
        DEF TickStep

LEMMA TypeFault ==
    ASSUME TypeOK, NEW w \in Workers, TickFault(w)
    PROVE  TypeOK'
<1> DEFINE WorkerOK == worker' \in [Workers -> TickState] /\ \A v \in Workers : TickOK(worker'[v])
           RowsOK == jobs' \in [Jobs -> JobRow]
<1>a. faults' = faults + 1 /\ UNCHANGED <<retrier, overruns, retries>>
  BY DEF TickFault, ClaimUnanswered, PhaseWriteFails, Crash, SelectUnanswered
<1>0. SUFFICES WorkerOK /\ RowsOK
  BY <1>a DEF TypeOK
<1>1. ASSUME NEW c \in worker[w].cand, ClaimUnanswered(w, c) PROVE WorkerOK /\ RowsOK
  BY <1>1, ClaimType, DropCandidateType DEF ClaimUnanswered
<1>2. ASSUME NEW p \in Phases, PhaseWriteFails(w, p) PROVE WorkerOK /\ RowsOK
  <2> DEFINE ph == IF worker[w].pc = "requeue" THEN worker[w].phases
                   ELSE MarkPhase(worker[w].phases, p,
                                  IF worker[w].pc = "next" THEN "running" ELSE "succeeded")
  <2>1. worker[w].pc \in Active
    BY <1>2 DEF PhaseWriteFails
  <2>2. ph \in [Phases -> PhaseState]
    BY <2>1, MyRowType, MarkPhaseType
  <2>3. worker[w].attempt - 1 \in Nat
    BY <2>1, MyRowType
  <2>4. /\ \/ UNCHANGED jobs
           \/ Checkpoint(w, ph)
           \/ Release(w, "queued", ph, 0, worker[w].attempt - 1)
        /\ worker' = [worker EXCEPT ![w] =
              [worker[w] EXCEPT !.pc = "fail", !.phases = ph, !.retryable = TRUE]]
    BY <1>2 DEF PhaseWriteFails
  <2> HIDE DEF ph
  <2>5. RowsOK
    <3>1. CASE UNCHANGED jobs
      BY <3>1 DEF TypeOK
    <3>2. CASE Checkpoint(w, ph)
      BY <3>2, <2>1, <2>2, CheckpointType
    <3>3. CASE Release(w, "queued", ph, 0, worker[w].attempt - 1)
      <4>1. "queued" \in JobState /\ 0 \in Int
        OBVIOUS
      <4> QED BY <3>3, <4>1, <2>1, <2>2, <2>3, ReleaseType
    <3> QED BY <2>4, <3>1, <3>2, <3>3
  <2> QED BY <2>1, <2>2, <2>4, <2>5, MyRowType, TickFailPhaseType, WorkerEdit
<1>3. CASE Crash(w)
  BY <1>3, AtRestType, WorkerEdit DEF Crash, TypeOK
<1>4. CASE SelectUnanswered(w)
  <2>1. worker[w].cand \in SUBSET Candidate
    BY DEF TypeOK, TickState
  <2>2. PICK pc \in {"idle", "select", "claim"}, cand \in SUBSET Candidate :
            worker' = [worker EXCEPT ![w] = AtRest(pc, cand)]
    BY <1>4, <2>1 DEF SelectUnanswered
  <2> QED BY <1>4, <2>2, AtRestType, WorkerEdit DEF SelectUnanswered, TypeOK
<1> QED BY <1>1, <1>2, <1>3, <1>4 DEF TickFault

LEMMA TypeConsole ==
    ASSUME TypeOK, NEW r \in Retriers, RetryWrite(r) \/ \E j \in Jobs : RetryRead(r, j)
    PROVE  TypeOK'
<1>1. CASE RetryWrite(r)
  <2>1. retrier[r].job \in Jobs /\ retrier[r].attempt \in Nat
    BY <1>1 DEF RetryWrite, TypeOK, RetryOK, RetryState
  <2>2. jobs' \in [Jobs -> JobRow]
    BY <1>1, <2>1, RetriedType, RowEdit DEF RetryWrite, TypeOK
  <2>3. IdleRequest \in RetryState /\ RetryOK(IdleRequest)
    BY DEF IdleRequest, JobState, RetryState, RetryOK
  <2> QED BY <1>1, <2>2, <2>3 DEF RetryWrite, TypeOK
<1>2. ASSUME NEW j \in Jobs, RetryRead(r, j) PROVE TypeOK'
  <2>1. jobs[j].attempt \in Nat /\ jobs[j].state \in JobState
    BY DEF TypeOK, JobRow
  <2> QED BY <1>2, <2>1 DEF RetryRead, TypeOK, RetryOK, RetryState
<1> QED BY <1>1, <1>2

LEMMA TypeStep == TypeOK /\ [Next]_vars => TypeOK'
<1> SUFFICES ASSUME TypeOK, [Next]_vars PROVE TypeOK'
  OBVIOUS
<1>1. ASSUME NEW j \in Jobs, Enqueue(j) PROVE TypeOK'
  BY <1>1, NewRowType, RowEdit DEF Enqueue, TypeOK
<1>2. CASE Elapse
  <2>1. jobs' \in [Jobs -> JobRow]
    BY <1>2, AgedType DEF Elapse, TypeOK
  <2> QED BY <1>2, <2>1 DEF Elapse, TypeOK
<1>3. CASE UNCHANGED vars
  BY <1>3 DEF vars, TypeOK
<1> QED BY <1>1, <1>2, <1>3, TypeTick, TypeFault, TypeConsole DEF Next

\* Type correctness, for every instance.
THEOREM TypeCorrect == Spec => []TypeOK
BY TypeInit, TypeStep, PTL DEF Spec

-----------------------------------------------------------------------------
(* What a job keeps: its row stays reachable, its phases complete in       *)
(* order, and what is completed is neither lost nor run again, whatever    *)
(* crashes, expires or is retried, for any number of ticks and console     *)
(* requests.                                                               *)
(*                                                                         *)
(* The invariant is ProgressInv: a tick that still owns its row has, as    *)
(* its copy of the phases, what the row records, or one phase more when    *)
(* the checkpoint of that phase failed.                                    *)

-----------------------------------------------------------------------------
(* A row that no select would lose.                                        *)

LEMMA CheckpointedCoherent ==
    ASSUME NEW row \in JobRow, NEW ph, RowCoherent(row), row.lockedBy # NoWorker
    PROVE  RowCoherent(CheckpointedRow(row, ph))
<1>1. /\ CheckpointedRow(row, ph).state = row.state
      /\ CheckpointedRow(row, ph).lockedBy = row.lockedBy
      /\ CheckpointedRow(row, ph).nextRun = row.nextRun
      /\ CheckpointedRow(row, ph).lease = LeaseTime
  BY DEF CheckpointedRow, JobRow
<1> HIDE DEF CheckpointedRow
<1> QED BY <1>1, EngineAssumption DEF EngineAssumption, RowCoherent

LEMMA AgedCoherent ==
    ASSUME NEW row \in JobRow, RowCoherent(row)
    PROVE  RowCoherent(Aged(row))
<1>1. /\ Aged(row).state = row.state /\ Aged(row).lockedBy = row.lockedBy
      /\ Aged(row).lease = IF row.lease = Expired THEN Expired ELSE row.lease - 1
      /\ Aged(row).phases = row.phases
      /\ Aged(row).nextRun = IF row.nextRun > 0 THEN row.nextRun - 1 ELSE row.nextRun
  BY DEF Aged, JobRow
<1>2. row.lease \in Int /\ row.nextRun \in Int /\ LeaseTime \in Nat
  BY EngineAssumption DEF EngineAssumption, JobRow
<1> QED BY <1>1, <1>2 DEF RowCoherent

LEMMA ClaimedCoherent ==
    ASSUME NEW row, NEW w \in Workers, NEW c
    PROVE  RowCoherent(ClaimedRow(row, w, c))
BY EngineAssumption DEF EngineAssumption, ClaimedRow, RowCoherent

LEMMA ReleasedCoherent ==
    ASSUME NEW row, NEW state, NEW ph, NEW nextRun \in Int, NEW attempt,
           state \notin {"running", "absent"}, state \in {"queued", "retrying"} <=> nextRun # NoRun
    PROVE  RowCoherent(ReleasedRow(row, state, ph, nextRun, attempt))
BY EngineAssumption DEF EngineAssumption, ReleasedRow, RowCoherent

LEMMA QueuedCoherent ==
    ASSUME NEW row, NEW attempt
    PROVE  RowCoherent(NewRow) /\ RowCoherent(AbsentRow) /\ RowCoherent(RetriedRow(row, attempt))
BY EngineAssumption DEF EngineAssumption, NewRow, QueuedRow, AbsentRow, RetriedRow, RowCoherent

LEMMA CoherentEdit ==
    ASSUME TypeOK, NoRowStuck, NEW j \in Jobs, NEW row, RowCoherent(row),
           jobs' = [jobs EXCEPT ![j] = row]
    PROVE  NoRowStuck'
<1> SUFFICES ASSUME NEW i \in Jobs PROVE RowCoherent(jobs'[i])
  BY DEF NoRowStuck, RowCoherent
<1>1. jobs'[i] = IF i = j THEN row ELSE jobs[i]
  BY DEF TypeOK
<1> QED BY <1>1 DEF NoRowStuck

LEMMA OwnedRow ==
    ASSUME TypeOK, NoRowStuck, NEW w \in Workers, Owns(w)
    PROVE  /\ worker[w].pc \in Active /\ worker[w].job \in Jobs /\ MyRow(w) \in JobRow
           /\ MyRow(w) = jobs[worker[w].job] /\ RowCoherent(MyRow(w))
           /\ MyRow(w).lockedBy = w /\ w # NoWorker
           /\ MyRow(w).state = "running" /\ MyRow(w).nextRun = NoRun
<1>1. worker[w].pc \in Active /\ MyRow(w).lockedBy = w /\ w # NoWorker
  BY EngineAssumption DEF EngineAssumption, Owns
<1>2. worker[w].job \in Jobs /\ MyRow(w) \in JobRow /\ MyRow(w) = jobs[worker[w].job]
  BY <1>1, MyRowType DEF MyRow
<1>3. RowCoherent(MyRow(w))
  BY <1>2 DEF NoRowStuck
<1> QED BY <1>1, <1>2, <1>3 DEF RowCoherent

LEMMA CheckpointCoherent ==
    ASSUME TypeOK, NoRowStuck, NEW w \in Workers, Owns(w), NEW ph, Checkpoint(w, ph)
    PROVE  NoRowStuck'
<1> DEFINE row == CheckpointedRow(MyRow(w), ph)
<1>1. RowCoherent(row)
  BY OwnedRow, CheckpointedCoherent
<1>2. worker[w].job \in Jobs /\ jobs' = [jobs EXCEPT ![worker[w].job] = row]
  BY OwnedRow DEF Checkpoint, MyRow
<1> HIDE DEF row
<1> QED BY <1>1, <1>2, CoherentEdit

LEMMA ReleaseCoherent ==
    ASSUME TypeOK, NoRowStuck, NEW w \in Workers, Owns(w), NEW state, NEW ph,
           NEW nextRun \in Int, NEW attempt, Release(w, state, ph, nextRun, attempt),
           state \notin {"running", "absent"}, state \in {"queued", "retrying"} <=> nextRun # NoRun
    PROVE  NoRowStuck'
<1> DEFINE row == ReleasedRow(MyRow(w), state, ph, nextRun, attempt)
<1>1. RowCoherent(row)
  BY ReleasedCoherent
<1>2. worker[w].job \in Jobs /\ jobs' = [jobs EXCEPT ![worker[w].job] = row]
  BY OwnedRow DEF Release, MyRow
<1> HIDE DEF row
<1> QED BY <1>1, <1>2, CoherentEdit

LEMMA ClaimCoherent ==
    ASSUME TypeOK, NoRowStuck, NEW w \in Workers, NEW c \in worker[w].cand,
           jobs' = [jobs EXCEPT ![c.job] = ClaimedRow(jobs[c.job], w, c)]
    PROVE  NoRowStuck'
BY CandidateType, ClaimedCoherent, CoherentEdit

LEMMA CoherentInit == Init => NoRowStuck
BY QueuedCoherent DEF Init, NoRowStuck

LEMMA CoherentStep == TypeOK /\ NoRowStuck /\ [Next]_vars => NoRowStuck'
<1> SUFFICES ASSUME TypeOK, NoRowStuck, [Next]_vars PROVE NoRowStuck'
  OBVIOUS
<1>0. ASSUME UNCHANGED jobs PROVE NoRowStuck'
  BY <1>0 DEF NoRowStuck, RowCoherent
<1>1. ASSUME NEW w \in Workers, TickStep(w) PROVE NoRowStuck'
  <2>1. CASE SelectDue(w) \/ SelectAbandoned(w) \/ EndTick(w) \/ PhaseThrows(w) \/ LeaseLost(w)
    BY <2>1, <1>0 DEF SelectDue, SelectAbandoned, EndTick, PhaseThrows, LeaseLost
  <2>2. ASSUME NEW c \in worker[w].cand, ClaimWins(w, c) \/ ClaimLoses(w, c) PROVE NoRowStuck'
    BY <2>2, <1>0, ClaimCoherent DEF ClaimWins, ClaimLoses
  <2>3. CASE StartAttempt(w)
    BY <2>3, CheckpointCoherent DEF StartAttempt
  <2>4. ASSUME NEW p \in Phases, BeginPhase(w, p) \/ CompletePhase(w, p) PROVE NoRowStuck'
    BY <2>4, CheckpointCoherent DEF BeginPhase, CompletePhase
  <2>5. CASE Requeue(w)
    BY <2>5, ReleaseCoherent DEF Requeue
  <2>6. CASE FinishFailure(w)
    <3>1. Backoff(worker[w].attempt) \in Int /\ Backoff(worker[w].attempt) # NoRun
      BY BackoffRange, EngineAssumption DEF EngineAssumption
    <3> QED BY <2>6, <3>1, ReleaseCoherent DEF FinishFailure
  <2>7. CASE FinishSuccess(w)
    BY <2>7, OwnedRow, ReleaseCoherent DEF FinishSuccess
  <2> QED BY <1>1, <2>1, <2>2, <2>3, <2>4, <2>5, <2>6, <2>7 DEF TickStep
<1>2. ASSUME NEW w \in Workers, TickFault(w) PROVE NoRowStuck'
  <2>1. ASSUME NEW c \in worker[w].cand, ClaimUnanswered(w, c) PROVE NoRowStuck'
    BY <2>1, ClaimCoherent DEF ClaimUnanswered
  <2>2. ASSUME NEW p \in Phases, PhaseWriteFails(w, p) PROVE NoRowStuck'
    BY <2>2, <1>0, CheckpointCoherent, ReleaseCoherent DEF PhaseWriteFails
  <2>3. CASE Crash(w) \/ SelectUnanswered(w)
    BY <2>3, <1>0 DEF Crash, SelectUnanswered
  <2> QED BY <1>2, <2>1, <2>2, <2>3 DEF TickFault
<1>3. ASSUME NEW r \in Retriers, RetryWrite(r) PROVE NoRowStuck'
  <2>1. retrier[r].job \in Jobs
    BY <1>3 DEF RetryWrite, TypeOK, RetryOK
  <2> QED BY <1>3, <2>1, QueuedCoherent, CoherentEdit DEF RetryWrite
<1>4. ASSUME NEW r \in Retriers, NEW j \in Jobs, RetryRead(r, j) PROVE NoRowStuck'
  BY <1>4, <1>0 DEF RetryRead
<1>5. ASSUME NEW j \in Jobs, Enqueue(j) PROVE NoRowStuck'
  BY <1>5, QueuedCoherent, CoherentEdit DEF Enqueue
<1>6. CASE Elapse
  BY <1>6, AgedCoherent DEF Elapse, NoRowStuck, TypeOK
<1>7. CASE UNCHANGED vars
  BY <1>7, <1>0 DEF vars
<1> QED BY <1>1, <1>2, <1>3, <1>4, <1>5, <1>6, <1>7 DEF Next

\* No row is ever lost to both selects, whatever crashes, expires or races.
THEOREM NoRowStuckAlways == Spec => []NoRowStuck
<1>1. Init => TypeOK /\ NoRowStuck
  BY TypeInit, CoherentInit
<1>2. TypeOK /\ NoRowStuck /\ [Next]_vars => TypeOK' /\ NoRowStuck'
  BY TypeStep, CoherentStep
<1> QED BY <1>1, <1>2, PTL DEF Spec

-----------------------------------------------------------------------------
(* Phases.                                                                 *)

LEMMA NextMarked ==
    ASSUME NEW ph \in [Phases -> PhaseState], InOrder(ph), NEW p \in Phases, IsNext(ph, p),
           NEW s \in {"running", "succeeded"}
    PROVE  InOrder(MarkPhase(ph, p, s))
<1> SUFFICES ASSUME NEW a \in Phases, NEW b \in Phases, a < b,
                    MarkPhase(ph, p, s)[b] = "succeeded"
             PROVE  MarkPhase(ph, p, s)[a] = "succeeded"
  BY DEF InOrder
<1>1. \A q \in Phases : MarkPhase(ph, p, s)[q] = IF q = p THEN s ELSE ph[q]
  BY DEF MarkPhase
<1>2. ph[p] # "succeeded" /\ \A q \in Phases : ph[q] # "succeeded" => p <= q
  BY DEF IsNext, Remaining
<1>3. CASE b = p
  <2>1. ph[a] = "succeeded" /\ s = "succeeded"
    BY <1>1, <1>2, <1>3, EngineAssumption DEF EngineAssumption
  <2> QED BY <1>1, <2>1
<1>4. CASE b # p
  <2>1. ph[b] = "succeeded" /\ ph[a] = "succeeded"
    BY <1>1, <1>4 DEF InOrder
  <2> QED BY <1>1, <1>2, <2>1
<1> QED BY <1>3, <1>4

LEMMA FailurePointMarked ==
    ASSUME NEW ph \in [Phases -> PhaseState], NEW s \in {"retrying", "failed"}
    PROVE  /\ \A p \in Phases : MarkFailurePoint(ph, s)[p] = "succeeded" <=> ph[p] = "succeeded"
           /\ InOrder(ph) => InOrder(MarkFailurePoint(ph, s))
<1>1. \A p \in Phases : MarkFailurePoint(ph, s)[p] = "succeeded" <=> ph[p] = "succeeded"
  BY DEF MarkFailurePoint
<1> QED BY <1>1 DEF InOrder

LEMMA FreshInOrder == InOrder(FreshPhases)
BY DEF InOrder

LEMMA PhasesEdit ==
    ASSUME TypeOK, PhasesInOrder, NEW j \in Jobs, NEW row, jobs' = [jobs EXCEPT ![j] = row],
           InOrder(row.phases), row.state = "succeeded" => Remaining(row.phases) = {}
    PROVE  PhasesInOrder'
<1> SUFFICES ASSUME NEW i \in Jobs
             PROVE  /\ InOrder(jobs'[i].phases)
                    /\ jobs'[i].state = "succeeded" => Remaining(jobs'[i].phases) = {}
  BY DEF PhasesInOrder, InOrder, Remaining
<1>1. jobs'[i] = IF i = j THEN row ELSE jobs[i]
  BY DEF TypeOK
<1> QED BY <1>1 DEF PhasesInOrder

LEMMA TicksEdit ==
    ASSUME TypeOK, TicksInOrder, NEW w \in Workers, NEW t, worker' = [worker EXCEPT ![w] = t],
           InOrder(t.phases)
    PROVE  TicksInOrder'
<1> SUFFICES ASSUME NEW v \in Workers PROVE InOrder(worker'[v].phases)
  BY DEF TicksInOrder, InOrder
<1>1. worker'[v] = IF v = w THEN t ELSE worker[v]
  BY DEF TypeOK
<1> QED BY <1>1 DEF TicksInOrder

\* A write to one row by tick w, or by nobody in particular, leaves the other ticks
\* as far ahead of their rows as they were.
LEMMA OwnersEdit ==
    ASSUME TypeOK, OwnersAgree, NEW w \in Workers, NEW j \in Jobs, NEW row,
           jobs' = [jobs EXCEPT ![j] = row], row.lockedBy \in {w, NoWorker},
           \A v \in Workers : v # w => worker'[v] = worker[v],
           worker'[w].pc \in Active /\ jobs'[worker'[w].job].lockedBy = w
                => Agrees(worker'[w], jobs'[worker'[w].job])
    PROVE  OwnersAgree'
<1> SUFFICES ASSUME NEW v \in Workers, worker'[v].pc \in Active,
                    jobs'[worker'[v].job].lockedBy = v
             PROVE  Agrees(worker'[v], jobs'[worker'[v].job])
  BY DEF OwnersAgree, Owns, MyRow, Agrees, IsNext, Remaining
<1>1. CASE v = w
  BY <1>1
<1>2. CASE v # w
  <2>1. worker'[v] = worker[v] /\ worker[v].job \in Jobs /\ v # NoWorker
    BY <1>2, EngineAssumption, MyRowType DEF EngineAssumption
  <2>2. jobs'[worker[v].job] = IF worker[v].job = j THEN row ELSE jobs[worker[v].job]
    BY <2>1 DEF TypeOK
  <2>3. jobs'[worker[v].job] = jobs[worker[v].job]
    BY <1>2, <2>1, <2>2
  <2> QED BY <2>1, <2>3 DEF OwnersAgree, Owns, MyRow
<1> QED BY <1>1, <1>2

LEMMA OwnersLocal ==
    ASSUME TypeOK, OwnersAgree, NEW w \in Workers, UNCHANGED jobs,
           \A v \in Workers : v # w => worker'[v] = worker[v],
           worker'[w].pc \in Active /\ jobs'[worker'[w].job].lockedBy = w
                => Agrees(worker'[w], jobs'[worker'[w].job])
    PROVE  OwnersAgree'
<1> SUFFICES ASSUME NEW v \in Workers, worker'[v].pc \in Active,
                    jobs'[worker'[v].job].lockedBy = v
             PROVE  Agrees(worker'[v], jobs'[worker'[v].job])
  BY DEF OwnersAgree, Owns, MyRow, Agrees, IsNext, Remaining
<1> QED BY DEF OwnersAgree, Owns, MyRow

-----------------------------------------------------------------------------
(* The invariant, action by action.                                        *)

PhasesInv == PhasesInOrder /\ TicksInOrder /\ OwnersAgree

\* Steps after which the tick is no longer at work on a job and the table is as it was.
LEMMA RestKeeps ==
    ASSUME ProgressInv, NEW w \in Workers, NEW pc \in {"idle", "select", "claim"}, NEW cand,
           UNCHANGED jobs, worker' = [worker EXCEPT ![w] = AtRest(pc, cand)]
    PROVE  PhasesInv'
<1>1. worker'[w] = AtRest(pc, cand) /\ \A v \in Workers : v # w => worker'[v] = worker[v]
  BY DEF ProgressInv, TypeOK
<1>2. AtRest(pc, cand).pc \notin Active /\ InOrder(AtRest(pc, cand).phases)
  BY FreshInOrder DEF AtRest
<1>3. TicksInOrder'
  BY <1>2, TicksEdit DEF ProgressInv
<1>4. OwnersAgree'
  BY <1>1, <1>2, OwnersLocal DEF ProgressInv
<1>5. PhasesInOrder'
  BY DEF ProgressInv, PhasesInOrder, InOrder, Remaining
<1> QED BY <1>3, <1>4, <1>5 DEF PhasesInv

\* A checkpoint writes the tick's own phases.
LEMMA CheckpointKeeps ==
    ASSUME ProgressInv, NEW w \in Workers, Owns(w), NEW ph, InOrder(ph), Checkpoint(w, ph),
           NEW t, t.phases = ph, t.job = worker[w].job, worker' = [worker EXCEPT ![w] = t]
    PROVE  PhasesInv'
<1> DEFINE j == worker[w].job
           row == CheckpointedRow(jobs[j], ph)
<1>1. j \in Jobs /\ jobs[j] \in JobRow /\ jobs[j].lockedBy = w /\ jobs[j].state = "running"
  BY OwnedRow DEF ProgressInv
<1>2. jobs' = [jobs EXCEPT ![j] = row]
  BY DEF Checkpoint
<1>3. row.phases = ph /\ row.lockedBy = w /\ row.state = "running"
  BY <1>1 DEF CheckpointedRow, JobRow
<1>4. jobs'[j] = row
  BY <1>1, <1>2 DEF ProgressInv, TypeOK
<1>5. worker'[w] = t /\ \A v \in Workers : v # w => worker'[v] = worker[v]
  BY DEF ProgressInv, TypeOK
<1> HIDE DEF row
<1>6. PhasesInOrder'
  BY <1>1, <1>2, <1>3, PhasesEdit DEF ProgressInv
<1>7. TicksInOrder'
  BY TicksEdit DEF ProgressInv
<1>8. Agrees(worker'[w], jobs'[worker'[w].job])
  BY <1>3, <1>4, <1>5 DEF Agrees
<1>9. OwnersAgree'
  BY <1>1, <1>2, <1>3, <1>5, <1>8, OwnersEdit DEF ProgressInv
<1> QED BY <1>6, <1>7, <1>9 DEF PhasesInv

\* Giving the row up leaves no owner.
LEMMA ReleaseKeeps ==
    ASSUME ProgressInv, NEW w \in Workers, Owns(w), NEW state, NEW ph, NEW nextRun, NEW attempt,
           Release(w, state, ph, nextRun, attempt), InOrder(ph),
           state = "succeeded" => Remaining(ph) = {},
           NEW t, InOrder(t.phases), t.job = worker[w].job \/ t.pc \notin Active,
           worker' = [worker EXCEPT ![w] = t]
    PROVE  PhasesInv'
<1> DEFINE j == worker[w].job
           row == ReleasedRow(jobs[j], state, ph, nextRun, attempt)
<1>1. j \in Jobs /\ w # NoWorker
  BY OwnedRow DEF ProgressInv
<1>2. jobs' = [jobs EXCEPT ![j] = row]
  BY DEF Release
<1>3. row.phases = ph /\ row.lockedBy = NoWorker /\ row.state = state
  BY DEF ReleasedRow
<1>4. jobs'[j] = row
  BY <1>1, <1>2 DEF ProgressInv, TypeOK
<1>5. worker'[w] = t /\ \A v \in Workers : v # w => worker'[v] = worker[v]
  BY DEF ProgressInv, TypeOK
<1> HIDE DEF row
<1>6. PhasesInOrder'
  BY <1>1, <1>2, <1>3, PhasesEdit DEF ProgressInv
<1>7. TicksInOrder'
  BY TicksEdit DEF ProgressInv
<1>8. ~(worker'[w].pc \in Active /\ jobs'[worker'[w].job].lockedBy = w)
  BY <1>1, <1>3, <1>4, <1>5
<1>9. OwnersAgree'
  BY <1>1, <1>2, <1>3, <1>5, <1>8, OwnersEdit DEF ProgressInv
<1> QED BY <1>6, <1>7, <1>9 DEF PhasesInv

\* A claim takes the phases as the row records them.
LEMMA ClaimKeeps ==
    ASSUME ProgressInv, NEW w \in Workers, NEW c \in worker[w].cand,
           Claimable(jobs[c.job], c.kind),
           jobs' = [jobs EXCEPT ![c.job] = ClaimedRow(jobs[c.job], w, c)],
           NEW t, worker' = [worker EXCEPT ![w] = t], InOrder(t.phases),
           \/ t.pc \notin Active
           \/ t.job = c.job /\ t.phases = jobs[c.job].phases
    PROVE  PhasesInv'
<1> DEFINE j == c.job
           row == ClaimedRow(jobs[j], w, c)
<1>1. j \in Jobs /\ InOrder(jobs[j].phases)
  BY CandidateType DEF ProgressInv, PhasesInOrder
<1>3. row.phases = jobs[j].phases /\ row.lockedBy = w /\ row.state = "running"
  BY DEF ClaimedRow
<1>4. jobs'[j] = row
  BY <1>1 DEF ProgressInv, TypeOK
<1>5. worker'[w] = t /\ \A v \in Workers : v # w => worker'[v] = worker[v]
  BY DEF ProgressInv, TypeOK
<1> HIDE DEF row
<1>6. PhasesInOrder'
  BY <1>1, <1>3, PhasesEdit DEF ProgressInv, row
<1>7. TicksInOrder'
  BY TicksEdit DEF ProgressInv
<1>8. worker'[w].pc \in Active => Agrees(worker'[w], jobs'[worker'[w].job])
  BY <1>3, <1>4, <1>5 DEF Agrees
<1>9. OwnersAgree'
  BY <1>1, <1>3, <1>5, <1>8, OwnersEdit DEF ProgressInv, row
<1> QED BY <1>6, <1>7, <1>9 DEF PhasesInv

\* A local step that keeps the tick's phases, and its place unless it fails.
LEMMA LocalKeeps ==
    ASSUME ProgressInv, NEW w \in Workers, UNCHANGED jobs,
           NEW t, worker' = [worker EXCEPT ![w] = t], InOrder(t.phases),
           t.pc \in Active /\ Owns(w) => Agrees(t, MyRow(w)),
           t.pc \in Active => worker[w].pc \in Active /\ t.job = worker[w].job
    PROVE  PhasesInv'
<1>1. worker'[w] = t /\ \A v \in Workers : v # w => worker'[v] = worker[v]
  BY DEF ProgressInv, TypeOK
<1>2. TicksInOrder'
  BY TicksEdit DEF ProgressInv
<1>3. OwnersAgree'
  BY <1>1, OwnersLocal DEF ProgressInv, Owns, MyRow
<1>4. PhasesInOrder'
  BY DEF ProgressInv, PhasesInOrder, InOrder, Remaining
<1> QED BY <1>2, <1>3, <1>4 DEF PhasesInv

LEMMA OwnPhases ==
    ASSUME ProgressInv, NEW w \in Workers, worker[w].pc \in Active
    PROVE  /\ worker[w].phases \in [Phases -> PhaseState] /\ InOrder(worker[w].phases)
           /\ Owns(w) => Agrees(worker[w], MyRow(w))
BY MyRowType DEF ProgressInv, TicksInOrder, OwnersAgree

\* A tick that fails with its phases unchanged is still as far ahead as it was.
LEMMA FailingAgrees ==
    ASSUME NEW t, NEW row, Agrees(t, row), NEW u, u.phases = t.phases,
           u.pc = "fail" \/ t.pc # "fail"
    PROVE  Agrees(u, row)
BY DEF Agrees

LEMMA PhasesTick ==
    ASSUME ProgressInv, NEW w \in Workers, TickStep(w)
    PROVE  PhasesInv'
<1>0. TypeOK /\ NoRowStuck /\ worker[w].phases \in [Phases -> PhaseState]
      /\ worker[w] \in TickState /\ InOrder(worker[w].phases)
  BY DEF ProgressInv, TypeOK, TickState, TicksInOrder
<1>1. CASE SelectDue(w) \/ SelectAbandoned(w) \/ EndTick(w) \/ LeaseLost(w)
  <2>1. /\ UNCHANGED jobs
        /\ \E pc \in {"idle", "select", "claim"} : \E cand :
              worker' = [worker EXCEPT ![w] = AtRest(pc, cand)]
    BY <1>1 DEF SelectDue, SelectAbandoned, EndTick, LeaseLost, Leave
  <2> QED BY <2>1, RestKeeps
<1>2. ASSUME NEW c \in worker[w].cand, ClaimWins(w, c) PROVE PhasesInv'
  <2> DEFINE t == [pc |-> "start", cand |-> worker[w].cand \ {c}, job |-> c.job,
                   attempt |-> AttemptStarted(c), budget |-> jobs[c.job].maxAttempts,
                   phases |-> MergePhases(jobs[c.job].phases), done |-> 0, retryable |-> FALSE]
  <2>1. t.job = c.job /\ t.phases = jobs[c.job].phases
    BY DEF MergePhases
  <2>2. InOrder(t.phases)
    BY <2>1, CandidateType DEF ProgressInv, PhasesInOrder
  <2>3. worker' = [worker EXCEPT ![w] = t]
    BY <1>2 DEF ClaimWins
  <2> HIDE DEF t
  <2> QED BY <1>2, <2>1, <2>2, <2>3, ClaimKeeps DEF ClaimWins
<1>3. ASSUME NEW c \in worker[w].cand, ClaimLoses(w, c) PROVE PhasesInv'
  <2> DEFINE t == [worker[w] EXCEPT !.cand = @ \ {c}]
  <2>1. t.phases = worker[w].phases /\ t.pc \notin Active
    BY <1>0, <1>3 DEF ClaimLoses, Takes, TickState
  <2>2. worker' = [worker EXCEPT ![w] = t]
    BY <1>3 DEF ClaimLoses
  <2> HIDE DEF t
  <2> QED BY <1>0, <1>3, <2>1, <2>2, LocalKeeps DEF ClaimLoses
<1>4. CASE StartAttempt(w)
  <2> DEFINE t == [worker[w] EXCEPT !.pc = "next"]
  <2>1. t.phases = worker[w].phases /\ t.job = worker[w].job
    BY <1>0 DEF TickState
  <2>2. worker' = [worker EXCEPT ![w] = t]
    BY <1>4 DEF StartAttempt, Goto
  <2> HIDE DEF t
  <2> QED BY <1>0, <1>4, <2>1, <2>2, CheckpointKeeps DEF StartAttempt
<1>5. ASSUME NEW p \in Phases, BeginPhase(w, p) PROVE PhasesInv'
  <2> DEFINE ph == MarkPhase(worker[w].phases, p, "running")
             t == [worker[w] EXCEPT !.pc = "exec", !.phases = ph]
  <2>1. t.phases = ph /\ t.job = worker[w].job
    BY <1>0 DEF TickState
  <2>2. InOrder(ph)
    BY <1>0, <1>5, NextMarked DEF BeginPhase
  <2>3. worker' = [worker EXCEPT ![w] = t] /\ Checkpoint(w, ph) /\ Owns(w)
    BY <1>5 DEF BeginPhase
  <2> HIDE DEF ph, t
  <2> QED BY <2>1, <2>2, <2>3, CheckpointKeeps
<1>6. ASSUME NEW p \in Phases, CompletePhase(w, p) PROVE PhasesInv'
  <2> DEFINE ph == MarkPhase(worker[w].phases, p, "succeeded")
             pc == IF BudgetSpent(worker[w].done + 1, ph) THEN "requeue" ELSE "next"
             t == [worker[w] EXCEPT !.pc = pc, !.phases = ph, !.done = @ + 1]
  <2>1. t.phases = ph /\ t.job = worker[w].job
    BY <1>0 DEF TickState
  <2>2. InOrder(ph)
    BY <1>0, <1>6, NextMarked DEF CompletePhase
  <2>3. worker' = [worker EXCEPT ![w] = t] /\ Checkpoint(w, ph) /\ Owns(w)
    BY <1>6 DEF CompletePhase
  <2> HIDE DEF ph, t
  <2> QED BY <2>1, <2>2, <2>3, CheckpointKeeps
<1>7. CASE PhaseThrows(w)
  <2>1. PICK r \in BOOLEAN :
            worker' = [worker EXCEPT ![w] = [worker[w] EXCEPT !.pc = "fail", !.retryable = r]]
    BY <1>7 DEF PhaseThrows
  <2> DEFINE t == [worker[w] EXCEPT !.pc = "fail", !.retryable = r]
  <2>2. t.phases = worker[w].phases /\ t.job = worker[w].job /\ t.pc = "fail"
    BY <1>0 DEF TickState
  <2>3. worker' = [worker EXCEPT ![w] = t] /\ worker[w].pc \in Active /\ UNCHANGED jobs
    BY <1>7, <2>1 DEF PhaseThrows
  <2> HIDE DEF t
  <2>4. Owns(w) => Agrees(t, MyRow(w))
    BY <2>2, <2>3, OwnPhases, FailingAgrees
  <2> QED BY <1>0, <2>2, <2>3, <2>4, LocalKeeps
<1>8. ASSUME NEW state, NEW ph, NEW nextRun, NEW attempt, Owns(w),
             Release(w, state, ph, nextRun, attempt), Leave(w), InOrder(ph),
             state = "succeeded" => Remaining(ph) = {}
      PROVE  PhasesInv'
  <2> DEFINE t == AtRest("claim", worker[w].cand)
  <2>1. worker' = [worker EXCEPT ![w] = t] /\ t.pc \notin Active /\ InOrder(t.phases)
    BY <1>8, FreshInOrder DEF Leave, AtRest
  <2> HIDE DEF t
  <2> QED BY <1>8, <2>1, ReleaseKeeps
<1>9. CASE Requeue(w)
  BY <1>0, <1>8, <1>9 DEF Requeue
<1>10. CASE FinishFailure(w)
  BY <1>0, <1>8, <1>10, FailurePointMarked DEF FinishFailure
<1>11. CASE FinishSuccess(w)
  BY <1>0, <1>8, <1>11 DEF FinishSuccess
<1> QED BY <1>1, <1>2, <1>3, <1>4, <1>5, <1>6, <1>7, <1>9, <1>10, <1>11 DEF TickStep

LEMMA PhasesFault ==
    ASSUME ProgressInv, NEW w \in Workers, TickFault(w)
    PROVE  PhasesInv'
<1>0. TypeOK /\ NoRowStuck /\ worker[w].phases \in [Phases -> PhaseState]
      /\ worker[w] \in TickState /\ InOrder(worker[w].phases)
  BY DEF ProgressInv, TypeOK, TickState, TicksInOrder
<1>1. CASE Crash(w) \/ SelectUnanswered(w)
  BY <1>1, RestKeeps DEF Crash, SelectUnanswered
<1>2. ASSUME NEW c \in worker[w].cand, ClaimUnanswered(w, c) PROVE PhasesInv'
  <2> DEFINE t == [worker[w] EXCEPT !.cand = @ \ {c}]
  <2>1. t.phases = worker[w].phases /\ t.pc \notin Active
    BY <1>0, <1>2 DEF ClaimUnanswered, Takes, TickState
  <2>2. worker' = [worker EXCEPT ![w] = t]
    BY <1>2 DEF ClaimUnanswered
  <2> HIDE DEF t
  <2> QED BY <1>0, <1>2, <2>1, <2>2, ClaimKeeps DEF ClaimUnanswered
<1>3. ASSUME NEW p \in Phases, PhaseWriteFails(w, p) PROVE PhasesInv'
  <2> DEFINE ph == IF worker[w].pc = "requeue" THEN worker[w].phases
                   ELSE MarkPhase(worker[w].phases, p,
                                  IF worker[w].pc = "next" THEN "running" ELSE "succeeded")
             t == [worker[w] EXCEPT !.pc = "fail", !.phases = ph, !.retryable = TRUE]
  <2>0. /\ worker[w].pc \in {"next", "exec", "requeue"} /\ worker[w].pc \in Active
        /\ IsNext(worker[w].phases, p)
    BY <1>3 DEF PhaseWriteFails
  <2>1. t.phases = ph /\ t.job = worker[w].job /\ t.pc = "fail"
    BY <1>0 DEF TickState
  <2>2. InOrder(ph)
    BY <1>0, <2>0, NextMarked
  <2>3. worker' = [worker EXCEPT ![w] = t]
    BY <1>3 DEF PhaseWriteFails
  <2>4. \A q \in Phases : ph[q] = "succeeded" <=>
            worker[w].phases[q] = "succeeded" \/ (q = p /\ worker[w].pc = "exec")
    BY <1>0, <2>0 DEF MarkPhase, IsNext, Remaining
  <2>5. \/ UNCHANGED jobs
        \/ Owns(w) /\ Checkpoint(w, ph)
        \/ Owns(w) /\ Release(w, "queued", ph, 0, worker[w].attempt - 1)
    BY <1>3 DEF PhaseWriteFails
  <2> HIDE DEF ph, t
  <2>6. CASE UNCHANGED jobs
    <3>1. Owns(w) => Agrees(t, MyRow(w))
      <4> SUFFICES ASSUME Owns(w) PROVE Agrees(t, MyRow(w))
        OBVIOUS
      <4>1. \A q \in Phases : worker[w].phases[q] = "succeeded" <=> MyRow(w).phases[q] = "succeeded"
        BY <2>0, OwnPhases DEF Agrees
      <4>2. IsNext(MyRow(w).phases, p)
        BY <4>1, <2>0 DEF IsNext, Remaining
      <4> QED BY <4>1, <4>2, <2>1, <2>4 DEF Agrees
    <3>2. InOrder(t.phases) /\ worker[w].pc \in Active /\ t.job = worker[w].job
      BY <2>0, <2>1, <2>2
    <3> QED BY <2>3, <2>6, <3>1, <3>2, LocalKeeps
  <2>7. CASE Owns(w) /\ Checkpoint(w, ph)
    BY <2>1, <2>2, <2>3, <2>7, CheckpointKeeps
  <2>8. CASE Owns(w) /\ Release(w, "queued", ph, 0, worker[w].attempt - 1)
    <3>1. "queued" = "succeeded" => Remaining(ph) = {}
      OBVIOUS
    <3>2. InOrder(t.phases) /\ t.job = worker[w].job
      BY <2>1, <2>2
    <3> QED BY <2>2, <2>3, <2>8, <3>1, <3>2, ReleaseKeeps
  <2> QED BY <2>5, <2>6, <2>7, <2>8
<1> QED BY <1>1, <1>2, <1>3 DEF TickFault

LEMMA PhasesConsole ==
    ASSUME ProgressInv, UNCHANGED worker, NEW j \in Jobs, NEW row,
           jobs' = [jobs EXCEPT ![j] = row], row.lockedBy = NoWorker, InOrder(row.phases),
           row.state # "succeeded"
    PROVE  PhasesInv'
<1>1. PhasesInOrder'
  BY PhasesEdit DEF ProgressInv
<1>2. TicksInOrder'
  BY DEF ProgressInv, TicksInOrder, InOrder
<1>3. OwnersAgree'
  <2> SUFFICES ASSUME NEW v \in Workers, worker[v].pc \in Active,
                      jobs'[worker[v].job].lockedBy = v
               PROVE  Agrees(worker[v], jobs'[worker[v].job])
    BY DEF OwnersAgree, Owns, MyRow, Agrees, IsNext, Remaining
  <2>1. worker[v].job \in Jobs /\ v # NoWorker
    BY EngineAssumption, MyRowType DEF EngineAssumption, ProgressInv
  <2>2. jobs'[worker[v].job] = IF worker[v].job = j THEN row ELSE jobs[worker[v].job]
    BY <2>1 DEF ProgressInv, TypeOK
  <2> QED BY <2>1, <2>2 DEF ProgressInv, OwnersAgree, Owns, MyRow
<1> QED BY <1>1, <1>2, <1>3 DEF PhasesInv

LEMMA PhasesElapse ==
    ASSUME ProgressInv, Elapse
    PROVE  PhasesInv'
<1>1. \A j \in Jobs : /\ jobs'[j].phases = jobs[j].phases /\ jobs'[j].lockedBy = jobs[j].lockedBy
                      /\ jobs'[j].state = jobs[j].state
  BY DEF Elapse, Aged, ProgressInv, TypeOK, JobRow
<1>2. UNCHANGED worker
  BY DEF Elapse
<1>3. PhasesInOrder' /\ TicksInOrder'
  BY <1>1, <1>2 DEF ProgressInv, PhasesInOrder, TicksInOrder, InOrder, Remaining
<1>4. OwnersAgree'
  <2> SUFFICES ASSUME NEW v \in Workers, worker[v].pc \in Active,
                      jobs'[worker[v].job].lockedBy = v
               PROVE  Agrees(worker[v], jobs'[worker[v].job])
    BY <1>2 DEF OwnersAgree, Owns, MyRow, Agrees, IsNext, Remaining
  <2>1. worker[v].job \in Jobs
    BY MyRowType DEF ProgressInv
  <2>2. Agrees(worker[v], jobs[worker[v].job])
    BY <1>1, <2>1 DEF ProgressInv, OwnersAgree, Owns, MyRow
  <2> QED BY <1>1, <2>1, <2>2 DEF Agrees, IsNext, Remaining
<1> QED BY <1>3, <1>4 DEF PhasesInv

LEMMA ProgressInit == Init => ProgressInv
<1> SUFFICES ASSUME Init PROVE ProgressInv
  OBVIOUS
<1>1. TypeOK /\ NoRowStuck
  BY TypeInit, CoherentInit
<1>2. PhasesInOrder
  BY FreshInOrder DEF Init, AbsentRow, PhasesInOrder
<1>3. TicksInOrder
  BY FreshInOrder DEF Init, AtRest, TicksInOrder
<1>4. OwnersAgree
  BY DEF Init, AtRest, OwnersAgree, Owns
<1> QED BY <1>1, <1>2, <1>3, <1>4 DEF ProgressInv

LEMMA ProgressStep == ProgressInv /\ [Next]_vars => ProgressInv'
<1> SUFFICES ASSUME ProgressInv, [Next]_vars PROVE ProgressInv'
  OBVIOUS
<1>0. TypeOK' /\ NoRowStuck'
  BY TypeStep, CoherentStep DEF ProgressInv
<1>1. ASSUME NEW r \in Retriers, RetryWrite(r) PROVE PhasesInv'
  <2>1. retrier[r].job \in Jobs
    BY <1>1 DEF RetryWrite, ProgressInv, TypeOK, RetryOK
  <2> DEFINE row == RetriedRow(jobs[retrier[r].job], retrier[r].attempt)
  <2>2. /\ row.phases = jobs[retrier[r].job].phases
        /\ row.lockedBy = NoWorker /\ row.state # "succeeded"
    BY DEF RetriedRow
  <2>4. InOrder(row.phases)
    BY <2>1, <2>2 DEF ProgressInv, PhasesInOrder
  <2>3. UNCHANGED worker /\ jobs' = [jobs EXCEPT ![retrier[r].job] = row]
    BY <1>1 DEF RetryWrite
  <2> HIDE DEF row
  <2> QED BY <2>1, <2>2, <2>3, <2>4, PhasesConsole
<1>2. ASSUME NEW j \in Jobs, Enqueue(j) PROVE PhasesInv'
  <2>1. NewRow.lockedBy = NoWorker /\ InOrder(NewRow.phases) /\ NewRow.state # "succeeded"
    BY FreshInOrder DEF NewRow, QueuedRow
  <2> QED BY <1>2, <2>1, PhasesConsole DEF Enqueue
<1>3. ASSUME UNCHANGED <<jobs, worker>> PROVE PhasesInv'
  BY <1>3 DEF ProgressInv, PhasesInv, PhasesInOrder, TicksInOrder, OwnersAgree, Owns, MyRow,
         InOrder, Agrees, IsNext, Remaining
<1>4. ASSUME NEW r \in Retriers, NEW j \in Jobs, RetryRead(r, j) PROVE PhasesInv'
  BY <1>3, <1>4 DEF RetryRead
<1>5. ASSUME UNCHANGED vars PROVE PhasesInv'
  BY <1>3, <1>5 DEF vars
<1>6. PhasesInv'
  BY <1>1, <1>2, <1>4, <1>5, PhasesTick, PhasesFault, PhasesElapse DEF Next
<1> QED BY <1>0, <1>6 DEF PhasesInv, ProgressInv

\* The strengthening holds throughout.
THEOREM ProgressInvariant == Spec => []ProgressInv
BY ProgressInit, ProgressStep, PTL DEF Spec

\* Phases complete in plan order and a succeeded job completed them all, for every
\* plan, every number of ticks and requests, and whatever fails.
THEOREM PhasesAlwaysInOrder == Spec => []PhasesInOrder
<1>1. ProgressInv => PhasesInOrder
  BY DEF ProgressInv
<1> QED BY <1>1, ProgressInvariant, PTL

-----------------------------------------------------------------------------
(* Progress is kept.                                                       *)

Kept ==
    \A j \in Jobs, p \in Phases :
        jobs[j].phases[p] = "succeeded" => jobs'[j].phases[p] = "succeeded"

LEMMA KeptEdit ==
    ASSUME TypeOK, NEW j \in Jobs, NEW row, jobs' = [jobs EXCEPT ![j] = row],
           \A p \in Phases : jobs[j].phases[p] = "succeeded" => row.phases[p] = "succeeded"
    PROVE  Kept
<1>1. \A i \in Jobs : jobs'[i] = IF i = j THEN row ELSE jobs[i]
  BY DEF TypeOK
<1> QED BY <1>1 DEF Kept

LEMMA OwnedWriteKeeps ==
    ASSUME ProgressInv, NEW w \in Workers, Owns(w), NEW ph, NEW row, row.phases = ph,
           jobs' = [jobs EXCEPT ![worker[w].job] = row],
           \A p \in Phases : worker[w].phases[p] = "succeeded" => ph[p] = "succeeded"
    PROVE  Kept
<1>1. worker[w].job \in Jobs /\ MyRow(w) = jobs[worker[w].job] /\ TypeOK
  BY OwnedRow DEF ProgressInv
<1>2. Agrees(worker[w], jobs[worker[w].job])
  BY <1>1 DEF ProgressInv, OwnersAgree
<1>3. \A p \in Phases : jobs[worker[w].job].phases[p] = "succeeded" => row.phases[p] = "succeeded"
  BY <1>2 DEF Agrees
<1> QED BY <1>1, <1>3, KeptEdit

LEMMA CheckpointKept ==
    ASSUME ProgressInv, NEW w \in Workers, Owns(w), NEW ph, Checkpoint(w, ph),
           \A p \in Phases : worker[w].phases[p] = "succeeded" => ph[p] = "succeeded"
    PROVE  Kept
<1> DEFINE row == CheckpointedRow(MyRow(w), ph)
<1>1. row.phases = ph
  BY OwnedRow DEF ProgressInv, CheckpointedRow, JobRow
<1>2. jobs' = [jobs EXCEPT ![worker[w].job] = row]
  BY DEF Checkpoint, MyRow
<1> HIDE DEF row
<1> QED BY <1>1, <1>2, OwnedWriteKeeps

LEMMA ReleaseKept ==
    ASSUME ProgressInv, NEW w \in Workers, Owns(w), NEW state, NEW ph, NEW nextRun, NEW attempt,
           Release(w, state, ph, nextRun, attempt),
           \A p \in Phases : worker[w].phases[p] = "succeeded" => ph[p] = "succeeded"
    PROVE  Kept
<1> DEFINE row == ReleasedRow(MyRow(w), state, ph, nextRun, attempt)
<1>1. row.phases = ph
  BY DEF ReleasedRow
<1>2. jobs' = [jobs EXCEPT ![worker[w].job] = row]
  BY DEF Release, MyRow
<1> HIDE DEF row
<1> QED BY <1>1, <1>2, OwnedWriteKeeps

LEMMA MarkKeeps ==
    ASSUME NEW ph \in [Phases -> PhaseState], NEW p \in Phases, IsNext(ph, p), NEW s
    PROVE  \A q \in Phases : ph[q] = "succeeded" => MarkPhase(ph, p, s)[q] = "succeeded"
BY DEF MarkPhase, IsNext, Remaining

LEMMA ClaimKept ==
    ASSUME ProgressInv, NEW w \in Workers, NEW c \in worker[w].cand,
           jobs' = [jobs EXCEPT ![c.job] = ClaimedRow(jobs[c.job], w, c)]
    PROVE  Kept
<1> DEFINE row == ClaimedRow(jobs[c.job], w, c)
<1>1. row.phases = jobs[c.job].phases
  BY DEF ClaimedRow
<1>2. TypeOK /\ c.job \in Jobs /\ jobs' = [jobs EXCEPT ![c.job] = row]
  BY CandidateType DEF ProgressInv
<1> HIDE DEF row
<1> QED BY <1>1, <1>2, KeptEdit

LEMMA KeptStep == ProgressInv /\ [Next]_vars => [Kept]_vars
<1> SUFFICES ASSUME ProgressInv, [Next]_vars PROVE Kept
  OBVIOUS
<1>a. \A w \in Workers : worker[w].phases \in [Phases -> PhaseState]
  BY DEF ProgressInv, TypeOK, TickState
<1>0. ASSUME UNCHANGED jobs PROVE Kept
  BY <1>0 DEF Kept
<1>1. ASSUME NEW w \in Workers, TickStep(w) PROVE Kept
  <2>1. CASE SelectDue(w) \/ SelectAbandoned(w) \/ EndTick(w) \/ PhaseThrows(w) \/ LeaseLost(w)
    BY <2>1, <1>0 DEF SelectDue, SelectAbandoned, EndTick, PhaseThrows, LeaseLost
  <2>2. ASSUME NEW c \in worker[w].cand, ClaimWins(w, c) \/ ClaimLoses(w, c) PROVE Kept
    BY <2>2, <1>0, ClaimKept DEF ClaimWins, ClaimLoses
  <2>3. CASE StartAttempt(w)
    BY <2>3, CheckpointKept DEF StartAttempt
  <2>4. ASSUME NEW p \in Phases, BeginPhase(w, p) \/ CompletePhase(w, p) PROVE Kept
    BY <1>a, <2>4, MarkKeeps, CheckpointKept DEF BeginPhase, CompletePhase
  <2>5. CASE Requeue(w)
    BY <2>5, ReleaseKept DEF Requeue
  <2>6. CASE FinishFailure(w)
    BY <1>a, <2>6, FailurePointMarked, ReleaseKept DEF FinishFailure
  <2>7. CASE FinishSuccess(w)
    BY <2>7, ReleaseKept DEF FinishSuccess
  <2> QED BY <1>1, <2>1, <2>2, <2>3, <2>4, <2>5, <2>6, <2>7 DEF TickStep
<1>2. ASSUME NEW w \in Workers, TickFault(w) PROVE Kept
  <2>1. ASSUME NEW c \in worker[w].cand, ClaimUnanswered(w, c) PROVE Kept
    BY <2>1, ClaimKept DEF ClaimUnanswered
  <2>2. ASSUME NEW p \in Phases, PhaseWriteFails(w, p) PROVE Kept
    <3> DEFINE ph == IF worker[w].pc = "requeue" THEN worker[w].phases
                     ELSE MarkPhase(worker[w].phases, p,
                                    IF worker[w].pc = "next" THEN "running" ELSE "succeeded")
    <3>1. \A q \in Phases : worker[w].phases[q] = "succeeded" => ph[q] = "succeeded"
      BY <1>a, <2>2, MarkKeeps DEF PhaseWriteFails
    <3>2. \/ UNCHANGED jobs
          \/ Owns(w) /\ Checkpoint(w, ph)
          \/ Owns(w) /\ Release(w, "queued", ph, 0, worker[w].attempt - 1)
      BY <2>2 DEF PhaseWriteFails
    <3> HIDE DEF ph
    <3> QED BY <3>1, <3>2, <1>0, CheckpointKept, ReleaseKept
  <2>3. CASE Crash(w) \/ SelectUnanswered(w)
    BY <2>3, <1>0 DEF Crash, SelectUnanswered
  <2> QED BY <1>2, <2>1, <2>2, <2>3 DEF TickFault
<1>3. ASSUME NEW r \in Retriers, RetryWrite(r) PROVE Kept
  <2>1. retrier[r].job \in Jobs /\ TypeOK
    BY <1>3 DEF RetryWrite, ProgressInv, TypeOK, RetryOK
  <2> DEFINE row == RetriedRow(jobs[retrier[r].job], retrier[r].attempt)
  <2>2. row.phases = jobs[retrier[r].job].phases
    BY DEF RetriedRow
  <2>3. jobs' = [jobs EXCEPT ![retrier[r].job] = row]
    BY <1>3 DEF RetryWrite
  <2> HIDE DEF row
  <2>4. \A p \in Phases : jobs[retrier[r].job].phases[p] = "succeeded" => row.phases[p] = "succeeded"
    BY <2>2
  <2> QED BY <2>1, <2>3, <2>4, KeptEdit
<1>4. ASSUME NEW r \in Retriers, NEW j \in Jobs, RetryRead(r, j) PROVE Kept
  BY <1>4, <1>0 DEF RetryRead
<1>5. ASSUME NEW j \in Jobs, Enqueue(j) PROVE Kept
  <2>1. jobs[j].phases = FreshPhases /\ TypeOK
    BY <1>5 DEF Enqueue, ProgressInv, NoRowStuck, RowCoherent
  <2>2. \A p \in Phases : jobs[j].phases[p] = "succeeded" => NewRow.phases[p] = "succeeded"
    BY <2>1
  <2> QED BY <1>5, <2>1, <2>2, KeptEdit DEF Enqueue
<1>6. CASE Elapse
  <2>1. \A j \in Jobs : jobs'[j].phases = jobs[j].phases
    BY <1>6 DEF Elapse, Aged, ProgressInv, TypeOK, JobRow
  <2> QED BY <2>1 DEF Kept
<1>7. CASE UNCHANGED vars
  BY <1>7, <1>0 DEF vars
<1> QED BY <1>1, <1>2, <1>3, <1>4, <1>5, <1>6, <1>7 DEF Next

\* No crash, expired lease, failed write or manual retry undoes a completed phase.
THEOREM ProgressAlwaysKept == Spec => ProgressKept
<1>1. ProgressInv /\ [Next]_vars =>
        [\A j \in Jobs, p \in Phases :
            jobs[j].phases[p] = "succeeded" => jobs'[j].phases[p] = "succeeded"]_vars
  BY KeptStep DEF Kept
<1> QED BY <1>1, ProgressInvariant, PTL DEF Spec, ProgressKept

-----------------------------------------------------------------------------
(* No completed phase runs again.                                          *)

LEMMA TickFrame ==
    ASSUME NEW w \in Workers, TickStep(w) \/ TickFault(w)
    PROVE  \E t : worker' = [worker EXCEPT ![w] = t]
<1>1. CASE SelectDue(w) \/ SelectAbandoned(w) \/ EndTick(w) \/ LeaseLost(w) \/ Crash(w) \/ SelectUnanswered(w)
  BY <1>1 DEF SelectDue, SelectAbandoned, EndTick, LeaseLost, Leave, Crash, SelectUnanswered
<1>2. ASSUME NEW c \in worker[w].cand, ClaimWins(w, c) \/ ClaimLoses(w, c) \/ ClaimUnanswered(w, c)
      PROVE  \E t : worker' = [worker EXCEPT ![w] = t]
  BY <1>2 DEF ClaimWins, ClaimLoses, ClaimUnanswered
<1>3. ASSUME NEW p \in Phases, BeginPhase(w, p) \/ CompletePhase(w, p) \/ PhaseWriteFails(w, p)
      PROVE  \E t : worker' = [worker EXCEPT ![w] = t]
  BY <1>3 DEF BeginPhase, CompletePhase, PhaseWriteFails
<1>4. CASE StartAttempt(w) \/ PhaseThrows(w) \/ Requeue(w) \/ FinishFailure(w) \/ FinishSuccess(w)
  BY <1>4 DEF StartAttempt, PhaseThrows, Requeue, FinishFailure, FinishSuccess, Goto, Leave
<1> QED BY <1>1, <1>2, <1>3, <1>4 DEF TickStep, TickFault

LEMMA ExecBegins ==
    ASSUME TypeOK, NEW w \in Workers, TickStep(w) \/ TickFault(w),
           worker[w].pc # "exec", worker'[w].pc = "exec"
    PROVE  \E p \in Phases : BeginPhase(w, p)
<1>0. worker \in [Workers -> TickState] /\ worker[w] \in TickState
  BY DEF TypeOK
<1>1. ~(SelectDue(w) \/ SelectAbandoned(w) \/ EndTick(w) \/ LeaseLost(w) \/ Crash(w) \/ SelectUnanswered(w))
  <2>1. ASSUME SelectDue(w) \/ SelectAbandoned(w) \/ EndTick(w) \/ LeaseLost(w) \/ Crash(w) \/ SelectUnanswered(w)
        PROVE  \E pc \in {"idle", "select", "claim"} : \E cand : worker'[w] = AtRest(pc, cand)
    BY <1>0, <2>1 DEF SelectDue, SelectAbandoned, EndTick, LeaseLost, Leave, Crash, SelectUnanswered
  <2>2. \A pc, cand : AtRest(pc, cand).pc = pc
    BY DEF AtRest
  <2>3. worker'[w].pc = "exec"
    OBVIOUS
  <2> QED BY <2>1, <2>2, <2>3
<1>2. ASSUME NEW c \in worker[w].cand PROVE ~ClaimWins(w, c)
  BY <1>0 DEF ClaimWins
<1>3. ASSUME NEW c \in worker[w].cand PROVE ~(ClaimLoses(w, c) \/ ClaimUnanswered(w, c))
  BY <1>0 DEF ClaimLoses, ClaimUnanswered, Takes, TickState
<1>4. ~(StartAttempt(w) \/ PhaseThrows(w))
  BY <1>0 DEF StartAttempt, PhaseThrows, Goto, TickState
<1>5. ~(Requeue(w) \/ FinishFailure(w) \/ FinishSuccess(w))
  BY <1>0 DEF Requeue, FinishFailure, FinishSuccess, Leave, AtRest
<1>6. ASSUME NEW p \in Phases PROVE ~(CompletePhase(w, p) \/ PhaseWriteFails(w, p))
  <2>1. ~CompletePhase(w, p)
    BY DEF CompletePhase
  <2>2. ~PhaseWriteFails(w, p)
    <3> SUFFICES ASSUME PhaseWriteFails(w, p) PROVE worker'[w].pc = "fail"
      OBVIOUS
    <3>1. \E ph : worker' = [worker EXCEPT ![w] =
                      [worker[w] EXCEPT !.pc = "fail", !.phases = ph, !.retryable = TRUE]]
      BY DEF PhaseWriteFails
    <3> QED BY <1>0, <3>1 DEF TickState
  <2> QED BY <2>1, <2>2
<1> QED BY <1>1, <1>2, <1>3, <1>4, <1>5, <1>6 DEF TickStep, TickFault

\* A phase the row records as done is never executed again.
THEOREM NoPhaseEverRerun == Spec => NoPhaseRerun
<1> DEFINE Fresh(w, p) ==
        worker[w].pc # "exec" /\ worker'[w].pc = "exec" /\ IsNext(worker'[w].phases, p)
            => MyRow(w).phases[p] # "succeeded"
<1>1. ProgressInv /\ [Next]_vars => [\A w \in Workers, p \in Phases : Fresh(w, p)]_vars
  <2> SUFFICES ASSUME ProgressInv, [Next]_vars, NEW w \in Workers, NEW p \in Phases,
                      worker[w].pc # "exec", worker'[w].pc = "exec", IsNext(worker'[w].phases, p)
               PROVE  MyRow(w).phases[p] # "succeeded"
    OBVIOUS
  <2>1. worker \in [Workers -> TickState] /\ worker[w] \in TickState /\ TypeOK
    BY DEF ProgressInv, TypeOK
  <2>2. TickStep(w) \/ TickFault(w)
    <3>1. \A v \in Workers : TickStep(v) \/ TickFault(v) => v = w
      BY <2>1, TickFrame
    <3> QED BY <3>1 DEF Next, vars, RetryRead, RetryWrite, Enqueue, Elapse
  <2>3. PICK q \in Phases : BeginPhase(w, q)
    BY <2>1, <2>2, ExecBegins
  <2>4. Owns(w) /\ IsNext(worker[w].phases, q)
        /\ worker'[w].phases = MarkPhase(worker[w].phases, q, "running")
    BY <2>1, <2>3 DEF BeginPhase, TickState
  <2>5. worker[w].phases[p] # "succeeded"
    BY <2>1, <2>4 DEF MarkPhase, IsNext, Remaining, TickState
  <2> QED BY <2>4, <2>5 DEF ProgressInv, OwnersAgree, Agrees
<1> QED BY <1>1, ProgressInvariant, PTL DEF Spec, NoPhaseRerun

-----------------------------------------------------------------------------
(* Console requests.  Any number of them may race, and only one that read  *)
(* a job failed ever takes a success back.  With one request at a time a   *)
(* job is retried only while it is failed; and if no lease runs out under  *)
(* a tick that still works, no two ticks execute a phase of the same job.  *)
(* With one request at a time, too, the engine implements the lifecycle    *)
(* its callers see.                                                        *)

OneRetrier == \A q, r \in Retriers : q = r

TableOK == TypeOK /\ NoRowStuck

LEMMA TableStep == TableOK /\ [Next]_vars => TableOK'
BY TypeStep, CoherentStep DEF TableOK

-----------------------------------------------------------------------------
(* A pending retry is of a failed job.                                     *)

\* A statement on a row that is not failed leaves the rows under retry alone.
LEMMA FreshEdit ==
    ASSUME TypeOK, RetriesAreFresh, UNCHANGED retrier, NEW j \in Jobs, NEW row,
           jobs' = [jobs EXCEPT ![j] = row], jobs[j].state # "failed"
    PROVE  RetriesAreFresh'
<1> SUFFICES ASSUME NEW r \in Retriers, retrier[r].pc = "write"
             PROVE  jobs'[retrier[r].job].state = "failed"
  BY DEF RetriesAreFresh
<1>1. retrier[r].job \in Jobs /\ jobs[retrier[r].job].state = "failed"
  BY DEF TypeOK, RetryOK, RetriesAreFresh
<1> QED BY <1>1 DEF TypeOK

\* What every statement of a tick does to the table: nothing, or it takes over a row
\* that is claimable, or it writes the row the tick owns.
TickWrites(w) ==
    \/ UNCHANGED jobs
    \/ \E c \in worker[w].cand :
          Claimable(jobs[c.job], c.kind)
          /\ jobs' = [jobs EXCEPT ![c.job] = ClaimedRow(jobs[c.job], w, c)]
    \/ Owns(w) /\ \E ph : Checkpoint(w, ph)
    \/ Owns(w) /\ \E state, ph, nextRun, attempt : Release(w, state, ph, nextRun, attempt)

LEMMA TickWritesOnly ==
    ASSUME NEW w \in Workers, TickStep(w) \/ TickFault(w)
    PROVE  TickWrites(w) /\ UNCHANGED <<retrier, overruns>>
<1>1. CASE SelectDue(w) \/ SelectAbandoned(w) \/ EndTick(w) \/ LeaseLost(w) \/ PhaseThrows(w)
           \/ Crash(w) \/ SelectUnanswered(w)
  BY <1>1 DEF SelectDue, SelectAbandoned, EndTick, LeaseLost, PhaseThrows, Crash, SelectUnanswered, TickWrites
<1>2. ASSUME NEW c \in worker[w].cand, ClaimWins(w, c) \/ ClaimLoses(w, c) \/ ClaimUnanswered(w, c)
      PROVE  TickWrites(w) /\ UNCHANGED <<retrier, overruns>>
  BY <1>2 DEF ClaimWins, ClaimLoses, ClaimUnanswered, TickWrites
<1>3. ASSUME NEW p \in Phases, BeginPhase(w, p) \/ CompletePhase(w, p)
      PROVE  TickWrites(w) /\ UNCHANGED <<retrier, overruns>>
  BY <1>3 DEF BeginPhase, CompletePhase, TickWrites
<1>4. ASSUME NEW p \in Phases, PhaseWriteFails(w, p)
      PROVE  TickWrites(w) /\ UNCHANGED <<retrier, overruns>>
  BY <1>4 DEF PhaseWriteFails, TickWrites
<1>5. CASE StartAttempt(w)
  BY <1>5 DEF StartAttempt, TickWrites
<1>6. CASE Requeue(w) \/ FinishFailure(w) \/ FinishSuccess(w)
  BY <1>6 DEF Requeue, FinishFailure, FinishSuccess, TickWrites
<1> QED BY <1>1, <1>2, <1>3, <1>4, <1>5, <1>6 DEF TickStep, TickFault

\* The row a tick writes to was claimable, or was its own.
LEMMA TickWritesRow ==
    ASSUME TableOK, NEW w \in Workers, TickWrites(w)
    PROVE  \/ UNCHANGED jobs
           \/ \E j \in Jobs : \E row :
                /\ jobs' = [jobs EXCEPT ![j] = row]
                /\ jobs[j].state \in {"queued", "retrying", "running"}
                /\ jobs[j].lockedBy = w \/ jobs[j].lease = Expired
<1>1. ASSUME NEW c \in worker[w].cand, Claimable(jobs[c.job], c.kind)
      PROVE  /\ jobs[c.job].state \in {"queued", "retrying", "running"}
             /\ jobs[c.job].lease = Expired /\ c.job \in Jobs
  BY <1>1, CandidateType DEF Claimable, IsDue, IsAbandoned, LeaseOver, TableOK
<1>2. ASSUME Owns(w)
      PROVE  /\ jobs[worker[w].job].state = "running" /\ jobs[worker[w].job].lockedBy = w
             /\ worker[w].job \in Jobs
  BY <1>2, OwnedRow DEF TableOK
<1> QED BY <1>1, <1>2 DEF TickWrites, Checkpoint, Release

LEMMA FreshStep ==
    ASSUME OneRetrier
    PROVE  TableOK /\ RetriesAreFresh /\ [Next]_vars => RetriesAreFresh'
<1> SUFFICES ASSUME TableOK, RetriesAreFresh, [Next]_vars PROVE RetriesAreFresh'
  OBVIOUS
<1>0. ASSUME UNCHANGED <<jobs, retrier>> PROVE RetriesAreFresh'
  BY <1>0 DEF RetriesAreFresh
<1>1. ASSUME NEW w \in Workers, TickStep(w) \/ TickFault(w) PROVE RetriesAreFresh'
  <2>1. CASE UNCHANGED jobs
    BY <1>0, <1>1, <2>1, TickWritesOnly
  <2>2. ASSUME NEW j \in Jobs, NEW row, jobs' = [jobs EXCEPT ![j] = row],
               jobs[j].state \in {"queued", "retrying", "running"}
        PROVE  RetriesAreFresh'
    BY <1>1, <2>2, TickWritesOnly, FreshEdit DEF TableOK
  <2> QED BY <1>1, <2>1, <2>2, TickWritesOnly, TickWritesRow
<1>2. ASSUME NEW r \in Retriers, RetryWrite(r) PROVE RetriesAreFresh'
  <2>1. \A q \in Retriers : retrier'[q].pc = "idle"
    BY <1>2 DEF RetryWrite, IdleRequest, OneRetrier, TableOK, TypeOK
  <2> QED BY <2>1 DEF RetriesAreFresh
<1>3. ASSUME NEW r \in Retriers, NEW j \in Jobs, RetryRead(r, j) PROVE RetriesAreFresh'
  <2>1. /\ \A q \in Retriers : q = r
        /\ retrier'[r].job = j /\ jobs[j].state = "failed" /\ UNCHANGED jobs
    BY <1>3 DEF RetryRead, CanRetry, OneRetrier, TableOK, TypeOK
  <2> QED BY <2>1 DEF RetriesAreFresh
<1>4. ASSUME NEW j \in Jobs, Enqueue(j) PROVE RetriesAreFresh'
  BY <1>4, FreshEdit DEF Enqueue, TableOK
<1>5. CASE Elapse
  <2>1. \A j \in Jobs : jobs'[j].state = jobs[j].state
    BY <1>5 DEF Elapse, Aged, TableOK, TypeOK, JobRow
  <2> QED BY <1>5, <2>1 DEF Elapse, RetriesAreFresh, TableOK, TypeOK, RetryOK
<1>6. CASE UNCHANGED vars
  BY <1>0, <1>6 DEF vars
<1> QED BY <1>1, <1>2, <1>3, <1>4, <1>5, <1>6 DEF Next

LEMMA FreshInvariant ==
    ASSUME OneRetrier
    PROVE  Spec => [](TableOK /\ RetriesAreFresh)
<1>1. Init => TableOK /\ RetriesAreFresh
  BY TypeInit, CoherentInit DEF Init, IdleRequest, TableOK, RetriesAreFresh
<1>2. TableOK /\ RetriesAreFresh /\ [Next]_vars => TableOK' /\ RetriesAreFresh'
  BY TableStep, FreshStep
<1> QED BY <1>1, <1>2, PTL DEF Spec

-----------------------------------------------------------------------------
(* What undoes a success, for any number of racing requests and ticks.     *)

LEMMA RequestsReadStep ==
    TypeOK /\ RequestsReadFailed /\ [Next]_vars => RequestsReadFailed'
<1> SUFFICES ASSUME TypeOK, RequestsReadFailed, [Next]_vars PROVE RequestsReadFailed'
  OBVIOUS
<1>0. ASSUME UNCHANGED retrier PROVE RequestsReadFailed'
  BY <1>0 DEF RequestsReadFailed
<1>1. ASSUME NEW w \in Workers, TickStep(w) \/ TickFault(w) PROVE RequestsReadFailed'
  BY <1>0, <1>1, TickWritesOnly
<1>2. ASSUME NEW r \in Retriers, RetryWrite(r) PROVE RequestsReadFailed'
  BY <1>2 DEF RetryWrite, IdleRequest, RequestsReadFailed, TypeOK
<1>3. ASSUME NEW r \in Retriers, NEW j \in Jobs, RetryRead(r, j) PROVE RequestsReadFailed'
  BY <1>3 DEF RetryRead, CanRetry, RequestsReadFailed, TypeOK
<1>4. ASSUME NEW j \in Jobs, Enqueue(j) PROVE RequestsReadFailed'
  BY <1>0, <1>4 DEF Enqueue
<1>5. CASE Elapse \/ UNCHANGED vars
  BY <1>0, <1>5 DEF Elapse, vars
<1> QED BY <1>1, <1>2, <1>3, <1>4, <1>5 DEF Next

\* No tick takes back a job reported succeeded, however stale, and no request but one that
\* had read the job failed: for any numbers of ticks, requests, overruns and faults.
THEOREM OnlyRacingRetriesUndo == Spec => OnlyRacingRetryUndoesSuccess
<1> DEFINE Undoing == \A j \in Jobs : jobs[j].state = "succeeded" /\ jobs'[j].state # "succeeded" =>
                        \E r \in Retriers : Requeues(r, j) /\ retrier[r].seen = "failed"
           RaceInv == TableOK /\ RequestsReadFailed
<1>1. Init => RaceInv
  BY TypeInit, CoherentInit DEF Init, TableOK, IdleRequest, RequestsReadFailed
<1>2. RaceInv /\ [Next]_vars => RaceInv'
  BY TableStep, RequestsReadStep DEF TableOK
<1>3. RaceInv /\ [Next]_vars => [Undoing]_vars
  <2> SUFFICES ASSUME TableOK, RequestsReadFailed, [Next]_vars, NEW j \in Jobs,
                      jobs[j].state = "succeeded", jobs'[j].state # "succeeded"
               PROVE  \E r \in Retriers : Requeues(r, j) /\ retrier[r].seen = "failed"
    OBVIOUS
  <2>0. TypeOK /\ jobs \in [Jobs -> JobRow]
    BY DEF TableOK, TypeOK
  <2>1. ASSUME NEW w \in Workers, TickStep(w) \/ TickFault(w) PROVE FALSE
    <3>1. TickWrites(w)
      BY <2>1, TickWritesOnly
    <3>2. ASSUME NEW i \in Jobs, NEW row, jobs' = [jobs EXCEPT ![i] = row],
                 jobs[i].state \in {"queued", "retrying", "running"}
          PROVE  jobs'[j].state = "succeeded"
      BY <2>0, <3>2
    <3> QED BY <3>1, <3>2, TickWritesRow
  <2>2. ASSUME NEW r \in Retriers, RetryWrite(r)
        PROVE  Requeues(r, j) /\ retrier[r].seen = "failed"
    <3>1. retrier[r].job = j
      BY <2>0, <2>2 DEF RetryWrite
    <3> QED BY <2>0, <2>2, <3>1 DEF RetryWrite, Requeues, IdleRequest, RequestsReadFailed, TypeOK
  <2>3. ASSUME NEW i \in Jobs, Enqueue(i) PROVE FALSE
    BY <2>0, <2>3 DEF Enqueue
  <2>4. CASE Elapse
    BY <2>0, <2>4 DEF Elapse, Aged, JobRow
  <2> QED BY <2>1, <2>2, <2>3, <2>4 DEF Next, vars, RetryRead
<1> HIDE DEF RaceInv, Undoing
<1>4. Spec => [][Undoing]_vars
  BY <1>1, <1>2, <1>3, PTL DEF Spec
<1> QED BY <1>4 DEF OnlyRacingRetryUndoesSuccess, Undoing

-----------------------------------------------------------------------------
(* Without overruns, a tick at work owns its row.                          *)

AtWork(w) == worker[w].pc \in Active \ {"fail"}

HoldsLease(w) == AtWork(w) => Owns(w) /\ MyRow(w).lease >= 0

\* A statement of tick w on row j leaves the leases of the other ticks alone.
LEMMA OthersHold ==
    ASSUME TableOK, OwnersHoldLeases, NEW w \in Workers, NEW j \in Jobs, NEW row,
           jobs' = [jobs EXCEPT ![j] = row], jobs[j].lockedBy = w \/ jobs[j].lease = Expired,
           NEW v \in Workers, v # w, worker'[v] = worker[v]
    PROVE  HoldsLease(v)'
<1> SUFFICES ASSUME AtWork(v) PROVE Owns(v)' /\ MyRow(v)'.lease >= 0
  BY DEF HoldsLease, AtWork
<1>1. /\ worker[v].job \in Jobs /\ worker[v].pc \in Active
      /\ jobs[worker[v].job].lockedBy = v /\ jobs[worker[v].job].lease >= 0
  BY OwnedRow DEF OwnersHoldLeases, AtWork, Owns, MyRow, TableOK
<1>2. worker[v].job # j
  BY <1>1
<1>3. jobs'[worker[v].job] = jobs[worker[v].job]
  BY <1>1, <1>2 DEF TableOK, TypeOK
<1> QED BY <1>1, <1>3 DEF Owns, MyRow

\* What the tick that takes a step holds afterwards.
LEMMA SelfHolds ==
    ASSUME TableOK, OwnersHoldLeases, NEW w \in Workers, TickStep(w) \/ TickFault(w)
    PROVE  HoldsLease(w)'
<1>0. /\ worker \in [Workers -> TickState] /\ worker[w] \in TickState /\ TypeOK
      /\ jobs \in [Jobs -> JobRow] /\ LeaseTime >= 0
  BY EngineAssumption DEF EngineAssumption, TableOK, TypeOK
<1>r. \A pc, cand : AtRest(pc, cand).pc = pc
  BY DEF AtRest
<1>1. ASSUME \E pc \in {"idle", "select", "claim"} : \E cand : worker'[w] = AtRest(pc, cand)
      PROVE  HoldsLease(w)'
  BY <1>r, <1>1 DEF HoldsLease, AtWork
<1>2. CASE SelectDue(w) \/ SelectAbandoned(w) \/ EndTick(w) \/ LeaseLost(w) \/ Crash(w) \/ SelectUnanswered(w)
           \/ Requeue(w) \/ FinishFailure(w) \/ FinishSuccess(w)
  BY <1>0, <1>1, <1>2 DEF SelectDue, SelectAbandoned, EndTick, LeaseLost, Leave, Crash, SelectUnanswered,
     Requeue, FinishFailure, FinishSuccess
<1>3. ASSUME NEW c \in worker[w].cand, ClaimWins(w, c) PROVE HoldsLease(w)'
  <2>1. worker'[w].job = c.job /\ worker'[w].pc = "start" /\ c.job \in Jobs
    BY <1>0, <1>3, CandidateType DEF ClaimWins
  <2>2. jobs'[c.job] = ClaimedRow(jobs[c.job], w, c)
    BY <1>0, <1>3, <2>1 DEF ClaimWins
  <2>3. ClaimedRow(jobs[c.job], w, c).lockedBy = w /\ ClaimedRow(jobs[c.job], w, c).lease = LeaseTime
    BY DEF ClaimedRow
  <2> QED BY <1>0, <2>1, <2>2, <2>3 DEF HoldsLease, Owns, MyRow
<1>4. ASSUME NEW c \in worker[w].cand, ClaimLoses(w, c) \/ ClaimUnanswered(w, c)
      PROVE  HoldsLease(w)'
  BY <1>0, <1>4 DEF ClaimLoses, ClaimUnanswered, Takes, TickState, HoldsLease, AtWork
<1>5. ASSUME Owns(w), NEW ph, Checkpoint(w, ph), worker'[w].job = worker[w].job,
             worker'[w].pc \in Active
      PROVE  HoldsLease(w)'
  <2>1. worker[w].job \in Jobs /\ jobs[worker[w].job] \in JobRow
        /\ jobs[worker[w].job].lockedBy = w
    BY <1>5, OwnedRow DEF TableOK
  <2>2. jobs'[worker[w].job] = CheckpointedRow(jobs[worker[w].job], ph)
    BY <1>0, <1>5, <2>1 DEF Checkpoint
  <2>3. jobs'[worker[w].job].lockedBy = w /\ jobs'[worker[w].job].lease = LeaseTime
    BY <2>1, <2>2 DEF CheckpointedRow, JobRow
  <2> QED BY <1>0, <1>5, <2>3 DEF HoldsLease, Owns, MyRow
<1>6. CASE StartAttempt(w)
  <2>1. worker'[w].job = worker[w].job /\ worker'[w].pc = "next"
    BY <1>0, <1>6 DEF StartAttempt, Goto, TickState
  <2> QED BY <1>5, <1>6, <2>1 DEF StartAttempt
<1>7. ASSUME NEW p \in Phases, BeginPhase(w, p) PROVE HoldsLease(w)'
  <2>1. worker'[w].job = worker[w].job /\ worker'[w].pc = "exec"
    BY <1>0, <1>7 DEF BeginPhase, TickState
  <2> QED BY <1>5, <1>7, <2>1 DEF BeginPhase
<1>8. ASSUME NEW p \in Phases, CompletePhase(w, p) PROVE HoldsLease(w)'
  <2>1. worker'[w].job = worker[w].job /\ worker'[w].pc \in {"next", "requeue"}
    BY <1>0, <1>8 DEF CompletePhase, TickState
  <2> QED BY <1>5, <1>8, <2>1 DEF CompletePhase
<1>9. CASE PhaseThrows(w)
  BY <1>0, <1>9 DEF PhaseThrows, TickState, HoldsLease, AtWork
<1>10. ASSUME NEW p \in Phases, PhaseWriteFails(w, p) PROVE HoldsLease(w)'
  <2>1. \E ph : worker' = [worker EXCEPT ![w] =
                   [worker[w] EXCEPT !.pc = "fail", !.phases = ph, !.retryable = TRUE]]
    BY <1>10 DEF PhaseWriteFails
  <2> QED BY <1>0, <2>1 DEF TickState, HoldsLease, AtWork
<1> QED BY <1>2, <1>3, <1>4, <1>6, <1>7, <1>8, <1>9, <1>10 DEF TickStep, TickFault

LEMMA HoldStep ==
    ASSUME OneRetrier, MaxOverruns = 0
    PROVE  TableOK /\ RetriesAreFresh /\ OwnersHoldLeases /\ [Next]_vars => OwnersHoldLeases'
<1> SUFFICES ASSUME TableOK, RetriesAreFresh, OwnersHoldLeases, [Next]_vars, NEW v \in Workers
             PROVE  HoldsLease(v)'
  BY DEF OwnersHoldLeases, HoldsLease, AtWork
<1>0. TypeOK /\ jobs \in [Jobs -> JobRow] /\ HoldsLease(v)
  BY DEF TableOK, TypeOK, OwnersHoldLeases, HoldsLease, AtWork
<1>1. ASSUME UNCHANGED <<jobs, worker>> PROVE HoldsLease(v)'
  BY <1>0, <1>1 DEF HoldsLease, AtWork, Owns, MyRow
<1>2. ASSUME NEW w \in Workers, TickStep(w) \/ TickFault(w) PROVE HoldsLease(v)'
  <2>1. CASE v = w
    BY <1>2, <2>1, SelfHolds
  <2>2. CASE v # w
    <3>1. worker'[v] = worker[v]
      BY <1>2, <2>2, TickFrame DEF TableOK, TypeOK
    <3>2. CASE UNCHANGED jobs
      BY <1>0, <3>1, <3>2 DEF HoldsLease, AtWork, Owns, MyRow
    <3>3. ASSUME NEW j \in Jobs, NEW row, jobs' = [jobs EXCEPT ![j] = row],
                 jobs[j].lockedBy = w \/ jobs[j].lease = Expired
          PROVE  HoldsLease(v)'
      BY <2>2, <3>1, <3>3, OthersHold
    <3> QED BY <1>2, <3>2, <3>3, TickWritesOnly, TickWritesRow
  <2> QED BY <2>1, <2>2
\* A request or an enqueue writes a row that nobody owns.
<1>3. ASSUME UNCHANGED worker, NEW j \in Jobs, NEW row, jobs' = [jobs EXCEPT ![j] = row],
             jobs[j].state # "running"
      PROVE  HoldsLease(v)'
  <2>1. AtWork(v) => worker[v].job \in Jobs /\ jobs[worker[v].job].state = "running"
    BY <1>0, OwnedRow DEF TableOK, HoldsLease, AtWork
  <2>2. AtWork(v) => jobs'[worker[v].job] = jobs[worker[v].job]
    BY <1>0, <1>3, <2>1
  <2> QED BY <1>0, <1>3, <2>2 DEF HoldsLease, AtWork, Owns, MyRow
<1>4. ASSUME NEW r \in Retriers, RetryWrite(r) PROVE HoldsLease(v)'
  <2>1. retrier[r].job \in Jobs /\ jobs[retrier[r].job].state = "failed"
    BY <1>0, <1>4 DEF RetryWrite, RetriesAreFresh, TypeOK, RetryOK
  <2> QED BY <1>3, <1>4, <2>1 DEF RetryWrite
<1>5. ASSUME NEW j \in Jobs, Enqueue(j) PROVE HoldsLease(v)'
  BY <1>3, <1>5 DEF Enqueue
<1>6. CASE Elapse
  <2>1. UNCHANGED worker /\ \A w \in Workers : Owns(w) => MyRow(w).lease # 0
    BY <1>0, <1>6 DEF Elapse, TypeOK
  <2>2. ASSUME AtWork(v) PROVE Owns(v)' /\ MyRow(v)'.lease >= 0
    <3>1. worker[v].job \in Jobs /\ jobs[worker[v].job] \in JobRow
          /\ Owns(v) /\ jobs[worker[v].job].lease >= 0 /\ jobs[worker[v].job].lease # 0
      BY <1>0, <2>1, <2>2, OwnedRow DEF HoldsLease, TableOK, MyRow
    <3>2. jobs'[worker[v].job] = Aged(jobs[worker[v].job])
      BY <1>6, <3>1 DEF Elapse
    <3>3. /\ Aged(jobs[worker[v].job]).lockedBy = jobs[worker[v].job].lockedBy
          /\ Aged(jobs[worker[v].job]).lease = jobs[worker[v].job].lease - 1
      BY <3>1 DEF Aged, JobRow
    <3>4. jobs[worker[v].job].lease \in Int
      BY <3>1 DEF JobRow
    <3> QED BY <2>1, <3>1, <3>2, <3>3, <3>4 DEF Owns, MyRow
  <2> QED BY <2>1, <2>2 DEF HoldsLease, AtWork
<1>7. ASSUME NEW r \in Retriers, NEW j \in Jobs, RetryRead(r, j) PROVE HoldsLease(v)'
  BY <1>1, <1>7 DEF RetryRead
<1>8. CASE UNCHANGED vars
  BY <1>1, <1>8 DEF vars
<1> QED BY <1>2, <1>4, <1>5, <1>6, <1>7, <1>8 DEF Next

\* The comment at worker.ts:62, for every number of ticks and jobs: as long as no lease
\* runs out under a tick at work and requests come one at a time, two ticks never
\* execute a phase of the same job.
THEOREM NeverProcessedTwice ==
    ASSUME OneRetrier, MaxOverruns = 0
    PROVE  Spec => []NoDoubleProcessing
<1>1. Init => OwnersHoldLeases
  BY DEF Init, AtRest, OwnersHoldLeases
<1>2. TableOK /\ RetriesAreFresh /\ OwnersHoldLeases /\ [Next]_vars => OwnersHoldLeases'
  BY HoldStep
<1>3. OwnersHoldLeases => NoDoubleProcessing
  BY DEF OwnersHoldLeases, NoDoubleProcessing, Owns, MyRow
<1> QED BY <1>1, <1>2, <1>3, FreshInvariant, PTL DEF Spec

-----------------------------------------------------------------------------
(* JobEngine implements JobLifecycle when console requests come one at a   *)
(* time, whatever crashes and whatever lease runs out.                     *)

LEMMA MapEdit ==
    ASSUME TypeOK, NEW j \in Jobs, NEW row, jobs' = [jobs EXCEPT ![j] = row]
    PROVE  /\ StatusMap' = [StatusMap EXCEPT ![j] = StatusOf(row)]
           /\ DoneMap' = [DoneMap EXCEPT ![j] = DoneIn(row.phases)]
           /\ StatusMap[j] = StatusOf(jobs[j]) /\ DoneMap[j] = DoneIn(jobs[j].phases)
<1>1. \A i \in Jobs : jobs'[i] = IF i = j THEN row ELSE jobs[i]
  BY DEF TypeOK
<1>2. StatusMap' = [i \in Jobs |-> StatusOf(jobs'[i])]
      /\ DoneMap' = [i \in Jobs |-> DoneIn(jobs'[i].phases)]
  BY DEF StatusMap, StatusOf, DoneMap, DoneIn
<1>a. \A i \in Jobs : StatusOf(jobs'[i]) = IF i = j THEN StatusOf(row) ELSE StatusOf(jobs[i])
  BY <1>1
<1>b. \A i \in Jobs : DoneIn(jobs'[i].phases) = IF i = j THEN DoneIn(row.phases) ELSE DoneIn(jobs[i].phases)
  BY <1>1
<1>3. StatusMap' = [StatusMap EXCEPT ![j] = StatusOf(row)]
  BY <1>a, <1>2 DEF StatusMap
<1>4. DoneMap' = [DoneMap EXCEPT ![j] = DoneIn(row.phases)]
  BY <1>b, <1>2 DEF DoneMap
<1> QED BY <1>3, <1>4 DEF StatusMap, DoneMap

LEMMA MapSame ==
    ASSUME UNCHANGED jobs
    PROVE  UNCHANGED Lifecycle!vars
BY DEF Lifecycle!vars, StatusMap, StatusOf, DoneMap, DoneIn

\* Phases that hold the row's and at most the next one are one step further.
LEMMA FurtherPhases ==
    ASSUME NEW old, NEW new,
           \A p \in Phases :
              /\ old[p] = "succeeded" => new[p] = "succeeded"
              /\ new[p] = "succeeded" => old[p] = "succeeded" \/ IsNext(old, p)
    PROVE  DoneIn(new) \in Lifecycle!Further(DoneIn(old))
<1>1. CASE DoneIn(new) = DoneIn(old)
  BY <1>1 DEF Lifecycle!Further
<1>2. CASE DoneIn(new) # DoneIn(old)
  <2>1. PICK p \in Phases : new[p] = "succeeded" /\ old[p] # "succeeded"
    BY <1>2 DEF DoneIn
  <2>2. IsNext(old, p)
    BY <2>1
  <2>3. \A q \in Phases : new[q] = "succeeded" <=> old[q] = "succeeded" \/ q = p
    <3> SUFFICES ASSUME NEW q \in Phases, new[q] = "succeeded", old[q] # "succeeded" PROVE q = p
      BY <2>1
    <3>1. IsNext(old, q)
      OBVIOUS
    <3> QED BY <2>2, <3>1 DEF IsNext, Remaining
  <2>4. DoneIn(new) = DoneIn(old) \cup {p}
    BY <2>3 DEF DoneIn
  <2>5. p \in {q \in Lifecycle!Phases \ DoneIn(old) : \A r \in Lifecycle!Phases \ DoneIn(old) : q <= r}
    BY <2>1, <2>2 DEF Lifecycle!Phases, DoneIn, IsNext, Remaining
  <2> QED BY <2>4, <2>5 DEF Lifecycle!Further
<1> QED BY <1>1, <1>2

\* The two ways a step of the engine on one row shows in the lifecycle.
LEMMA EditSame ==
    ASSUME TypeOK, NEW j \in Jobs, NEW row, jobs' = [jobs EXCEPT ![j] = row],
           StatusOf(row) = StatusOf(jobs[j]), DoneIn(row.phases) = DoneIn(jobs[j].phases)
    PROVE  UNCHANGED Lifecycle!vars
<1>1. /\ StatusMap' = [StatusMap EXCEPT ![j] = StatusMap[j]]
      /\ DoneMap' = [DoneMap EXCEPT ![j] = DoneMap[j]]
  BY MapEdit
<1>2. StatusMap' = StatusMap /\ DoneMap' = DoneMap
  BY <1>1 DEF StatusMap, DoneMap
<1> QED BY <1>2 DEF Lifecycle!vars

LEMMA EditMoves ==
    ASSUME TypeOK, NEW j \in Jobs, NEW row, jobs' = [jobs EXCEPT ![j] = row],
           DoneIn(row.phases) = DoneIn(jobs[j].phases)
    PROVE  /\ UNCHANGED DoneMap
           /\ Lifecycle!Move(j, StatusOf(jobs[j]), StatusOf(row))
<1>1. /\ StatusMap' = [StatusMap EXCEPT ![j] = StatusOf(row)]
      /\ DoneMap' = [DoneMap EXCEPT ![j] = DoneMap[j]]
      /\ StatusMap[j] = StatusOf(jobs[j])
  BY MapEdit
<1>2. DoneMap' = DoneMap
  BY <1>1 DEF DoneMap
<1> QED BY <1>1, <1>2 DEF Lifecycle!Move

\* A checkpoint is an Advance.
LEMMA CheckpointAdvances ==
    ASSUME ProgressInv, NEW w \in Workers, Owns(w), NEW ph, Checkpoint(w, ph),
           \A p \in Phases :
              /\ MyRow(w).phases[p] = "succeeded" => ph[p] = "succeeded"
              /\ ph[p] = "succeeded" =>
                    MyRow(w).phases[p] = "succeeded" \/ IsNext(MyRow(w).phases, p)
    PROVE  Lifecycle!Next
<1> DEFINE j == worker[w].job
           row == CheckpointedRow(jobs[j], ph)
<1>1. /\ TypeOK /\ j \in Jobs /\ jobs[j] \in JobRow /\ MyRow(w) = jobs[j]
      /\ jobs[j].state = "running"
  BY OwnedRow DEF ProgressInv
<1>2. row.phases = ph /\ row.state = "running"
  BY <1>1 DEF CheckpointedRow, JobRow
<1>3. jobs' = [jobs EXCEPT ![j] = row]
  BY DEF Checkpoint
<1> HIDE DEF row
<1>4. DoneIn(ph) \in Lifecycle!Further(DoneIn(jobs[j].phases))
  BY <1>1, FurtherPhases
<1>5. StatusOf(row) = "running" /\ StatusOf(jobs[j]) = "running"
  BY <1>1, <1>2 DEF StatusOf
<1>a. /\ StatusMap' = [StatusMap EXCEPT ![j] = StatusOf(row)] /\ StatusMap[j] = StatusOf(jobs[j])
      /\ DoneMap' = [DoneMap EXCEPT ![j] = DoneIn(row.phases)]
      /\ DoneMap[j] = DoneIn(jobs[j].phases)
  BY <1>1, <1>3, MapEdit
<1>6. /\ StatusMap' = [StatusMap EXCEPT ![j] = "running"] /\ StatusMap[j] = "running"
      /\ DoneMap' = [DoneMap EXCEPT ![j] = DoneIn(ph)] /\ DoneMap[j] = DoneIn(jobs[j].phases)
  BY <1>a, <1>2, <1>5
<1>7. UNCHANGED StatusMap
  BY <1>6 DEF StatusMap
<1>8. Lifecycle!Advance(j)
  BY <1>4, <1>6, <1>7 DEF Lifecycle!Advance
<1> QED BY <1>1, <1>8 DEF Lifecycle!Next

\* Giving the row up before the end is a Stop.
LEMMA ReleaseStops ==
    ASSUME ProgressInv, NEW w \in Workers, Owns(w), NEW state \in {"queued", "retrying", "failed"},
           NEW ph, NEW nextRun, NEW attempt, Release(w, state, ph, nextRun, attempt),
           \A p \in Phases :
              /\ MyRow(w).phases[p] = "succeeded" => ph[p] = "succeeded"
              /\ ph[p] = "succeeded" =>
                    MyRow(w).phases[p] = "succeeded" \/ IsNext(MyRow(w).phases, p)
    PROVE  Lifecycle!Next
<1> DEFINE j == worker[w].job
           row == ReleasedRow(jobs[j], state, ph, nextRun, attempt)
<1>1. /\ TypeOK /\ j \in Jobs /\ MyRow(w) = jobs[j] /\ jobs[j].state = "running"
  BY OwnedRow DEF ProgressInv
<1>2. row.phases = ph /\ row.state = state
  BY DEF ReleasedRow
<1>3. jobs' = [jobs EXCEPT ![j] = row]
  BY DEF Release
<1> HIDE DEF row
<1>4. DoneIn(ph) \in Lifecycle!Further(DoneIn(jobs[j].phases))
  BY <1>1, FurtherPhases
<1>5. StatusOf(row) \in {"waiting", "failed"} /\ StatusOf(jobs[j]) = "running"
  BY <1>1, <1>2 DEF StatusOf
<1>6. /\ StatusMap' = [StatusMap EXCEPT ![j] = StatusOf(row)] /\ StatusMap[j] = "running"
      /\ DoneMap' = [DoneMap EXCEPT ![j] = DoneIn(ph)] /\ DoneMap[j] = DoneIn(jobs[j].phases)
  BY <1>1, <1>2, <1>3, <1>5, MapEdit
<1>7. Lifecycle!Stop(j)
  BY <1>4, <1>5, <1>6 DEF Lifecycle!Stop, Lifecycle!Move
<1> QED BY <1>1, <1>7 DEF Lifecycle!Next

\* Claiming a row is a Start, or nothing when it takes over a running job.
LEMMA ClaimStarts ==
    ASSUME ProgressInv, NEW w \in Workers, NEW c \in worker[w].cand,
           Claimable(jobs[c.job], c.kind),
           jobs' = [jobs EXCEPT ![c.job] = ClaimedRow(jobs[c.job], w, c)]
    PROVE  Lifecycle!Next \/ UNCHANGED Lifecycle!vars
<1> DEFINE j == c.job
           row == ClaimedRow(jobs[j], w, c)
<1>1. /\ TypeOK /\ j \in Jobs
      /\ jobs[j].state \in {"queued", "retrying", "running"}
  BY CandidateType DEF ProgressInv, Claimable, IsDue, IsAbandoned
<1>2. row.phases = jobs[j].phases /\ row.state = "running" /\ jobs' = [jobs EXCEPT ![j] = row]
  BY DEF ClaimedRow
<1> HIDE DEF row
<1>3. StatusOf(row) = "running" /\ StatusOf(jobs[j]) \in {"waiting", "running"}
  BY <1>1, <1>2 DEF StatusOf
<1>4. CASE StatusOf(jobs[j]) = "running"
  BY <1>1, <1>2, <1>3, <1>4, EditSame
<1>5. CASE StatusOf(jobs[j]) = "waiting"
  <2>0. UNCHANGED DoneMap /\ Lifecycle!Move(j, StatusOf(jobs[j]), StatusOf(row))
    BY <1>1, <1>2, EditMoves
  <2>1. UNCHANGED DoneMap /\ Lifecycle!Move(j, "waiting", "running")
    BY <1>3, <1>5, <2>0
  <2> QED BY <1>1, <2>1 DEF Lifecycle!Next, Lifecycle!Start
<1> QED BY <1>3, <1>4, <1>5

LEMMA TickRefines ==
    ASSUME ProgressInv, NEW w \in Workers, TickStep(w)
    PROVE  Lifecycle!Next \/ UNCHANGED Lifecycle!vars
<1>a. worker[w].phases \in [Phases -> PhaseState] /\ TypeOK /\ NoRowStuck
  BY DEF ProgressInv, TypeOK, TickState
\* Until its attempt fails, an owner and its row agree on what is done.
<1>b. ASSUME Owns(w)
      PROVE  /\ \A p \in Phases : MyRow(w).phases[p] = "succeeded" => worker[w].phases[p] = "succeeded"
             /\ \A p \in Phases : worker[w].phases[p] = "succeeded" =>
                    MyRow(w).phases[p] = "succeeded"
                    \/ (worker[w].pc = "fail" /\ IsNext(MyRow(w).phases, p))
  BY <1>b DEF ProgressInv, OwnersAgree, Agrees
<1>c. ASSUME Owns(w), worker[w].pc # "fail"
      PROVE  /\ \A p \in Phases : worker[w].phases[p] = "succeeded" <=> MyRow(w).phases[p] = "succeeded"
             /\ \A p \in Phases : IsNext(worker[w].phases, p) => IsNext(MyRow(w).phases, p)
  BY <1>b, <1>c DEF IsNext, Remaining
<1>1. CASE SelectDue(w) \/ SelectAbandoned(w) \/ EndTick(w) \/ PhaseThrows(w) \/ LeaseLost(w)
  BY <1>1, MapSame DEF SelectDue, SelectAbandoned, EndTick, PhaseThrows, LeaseLost
<1>2. ASSUME NEW c \in worker[w].cand, ClaimWins(w, c) \/ ClaimLoses(w, c)
      PROVE  Lifecycle!Next \/ UNCHANGED Lifecycle!vars
  BY <1>2, MapSame, ClaimStarts DEF ClaimWins, ClaimLoses
<1>3. CASE StartAttempt(w)
  <2>1. Owns(w) /\ worker[w].pc # "fail" /\ Checkpoint(w, worker[w].phases)
    BY <1>3 DEF StartAttempt
  <2> QED BY <1>c, <2>1, CheckpointAdvances
<1>4. ASSUME NEW p \in Phases, BeginPhase(w, p) PROVE Lifecycle!Next
  <2> DEFINE ph == MarkPhase(worker[w].phases, p, "running")
  <2>1. Owns(w) /\ worker[w].pc # "fail" /\ IsNext(worker[w].phases, p) /\ Checkpoint(w, ph)
    BY <1>4 DEF BeginPhase
  <2>2. \A q \in Phases : ph[q] = "succeeded" <=> worker[w].phases[q] = "succeeded"
    BY <1>a, <2>1 DEF MarkPhase, IsNext, Remaining
  <2> HIDE DEF ph
  <2> QED BY <1>c, <2>1, <2>2, CheckpointAdvances
<1>5. ASSUME NEW p \in Phases, CompletePhase(w, p) PROVE Lifecycle!Next
  <2> DEFINE ph == MarkPhase(worker[w].phases, p, "succeeded")
  <2>1. Owns(w) /\ worker[w].pc # "fail" /\ IsNext(worker[w].phases, p) /\ Checkpoint(w, ph)
    BY <1>5 DEF CompletePhase
  <2>2. \A q \in Phases : ph[q] = "succeeded" <=> worker[w].phases[q] = "succeeded" \/ q = p
    BY <1>a, <2>1 DEF MarkPhase
  <2> HIDE DEF ph
  <2>3. \A q \in Phases :
           /\ MyRow(w).phases[q] = "succeeded" => ph[q] = "succeeded"
           /\ ph[q] = "succeeded" =>
                 MyRow(w).phases[q] = "succeeded" \/ IsNext(MyRow(w).phases, q)
    BY <1>c, <2>1, <2>2
  <2> QED BY <2>1, <2>3, CheckpointAdvances
<1>6. CASE Requeue(w)
  <2>1. Owns(w) /\ worker[w].pc # "fail"
        /\ Release(w, "queued", worker[w].phases, 0, worker[w].attempt - 1)
    BY <1>6 DEF Requeue
  <2> QED BY <1>c, <2>1, ReleaseStops
<1>7. CASE FinishFailure(w)
  <2>0. PICK s \in {"retrying", "failed"} :
            \E nextRun, attempt :
                Owns(w) /\ Release(w, s, MarkFailurePoint(worker[w].phases, s), nextRun, attempt)
    BY <1>7 DEF FinishFailure
  <2>1. PICK nextRun, attempt :
            Owns(w) /\ Release(w, s, MarkFailurePoint(worker[w].phases, s), nextRun, attempt)
    BY <2>0
  <2> DEFINE ph == MarkFailurePoint(worker[w].phases, s)
  <2>2. \A q \in Phases : ph[q] = "succeeded" <=> worker[w].phases[q] = "succeeded"
    BY <1>a, FailurePointMarked
  <2> HIDE DEF ph
  <2>3. \A q \in Phases :
           /\ MyRow(w).phases[q] = "succeeded" => ph[q] = "succeeded"
           /\ ph[q] = "succeeded" =>
                 MyRow(w).phases[q] = "succeeded" \/ IsNext(MyRow(w).phases, q)
    BY <1>b, <2>1, <2>2
  <2> QED BY <2>1, <2>3, ReleaseStops DEF ph
<1>8. CASE FinishSuccess(w)
  <2> DEFINE j == worker[w].job
             row == ReleasedRow(jobs[j], "succeeded", worker[w].phases, MyRow(w).nextRun,
                                MyRow(w).attempt)
  <2>1. Owns(w) /\ worker[w].pc # "fail" /\ Remaining(worker[w].phases) = {}
        /\ jobs' = [jobs EXCEPT ![j] = row]
    BY <1>8 DEF FinishSuccess, Release
  <2>2. row.phases = worker[w].phases /\ row.state = "succeeded"
    BY DEF ReleasedRow
  <2> HIDE DEF row
  <2>3. j \in Jobs /\ jobs[j].state = "running" /\ MyRow(w) = jobs[j]
    BY <1>a, <2>1, OwnedRow
  <2>4. DoneIn(jobs[j].phases) = Phases /\ DoneIn(row.phases) = Phases
    BY <1>c, <2>1, <2>2, <2>3 DEF DoneIn, Remaining
  <2>5. StatusOf(row) = "succeeded" /\ StatusOf(jobs[j]) = "running"
    BY <2>2, <2>3 DEF StatusOf
  <2>6. UNCHANGED DoneMap /\ Lifecycle!Move(j, "running", "succeeded")
    BY <1>a, <2>1, <2>3, <2>4, <2>5, EditMoves
  <2>7. DoneMap[j] = Lifecycle!Phases
    BY <2>3, <2>4 DEF DoneMap, Lifecycle!Phases
  <2> QED BY <2>3, <2>6, <2>7 DEF Lifecycle!Next, Lifecycle!Finish
<1> QED BY <1>1, <1>2, <1>3, <1>4, <1>5, <1>6, <1>7, <1>8 DEF TickStep

LEMMA FaultRefines ==
    ASSUME ProgressInv, NEW w \in Workers, TickFault(w)
    PROVE  Lifecycle!Next \/ UNCHANGED Lifecycle!vars
<1>1. CASE Crash(w) \/ SelectUnanswered(w)
  BY <1>1, MapSame DEF Crash, SelectUnanswered
<1>2. ASSUME NEW c \in worker[w].cand, ClaimUnanswered(w, c)
      PROVE  Lifecycle!Next \/ UNCHANGED Lifecycle!vars
  BY <1>2, ClaimStarts DEF ClaimUnanswered
<1>3. ASSUME NEW p \in Phases, PhaseWriteFails(w, p)
      PROVE  Lifecycle!Next \/ UNCHANGED Lifecycle!vars
  <2> DEFINE ph == IF worker[w].pc = "requeue" THEN worker[w].phases
                   ELSE MarkPhase(worker[w].phases, p,
                                  IF worker[w].pc = "next" THEN "running" ELSE "succeeded")
  <2>0. /\ worker[w].phases \in [Phases -> PhaseState] /\ IsNext(worker[w].phases, p)
        /\ worker[w].pc \in {"next", "exec", "requeue"}
    BY <1>3 DEF PhaseWriteFails, ProgressInv, TypeOK, TickState
  <2>1. \A q \in Phases : /\ worker[w].phases[q] = "succeeded" => ph[q] = "succeeded"
                          /\ ph[q] = "succeeded" => worker[w].phases[q] = "succeeded" \/ q = p
    BY <2>0 DEF MarkPhase, IsNext, Remaining
  <2>2. \/ UNCHANGED jobs
        \/ Owns(w) /\ Checkpoint(w, ph)
        \/ Owns(w) /\ Release(w, "queued", ph, 0, worker[w].attempt - 1)
    BY <1>3 DEF PhaseWriteFails
  <2> HIDE DEF ph
  <2>3. ASSUME Owns(w)
        PROVE  \A q \in Phases :
                  /\ MyRow(w).phases[q] = "succeeded" => ph[q] = "succeeded"
                  /\ ph[q] = "succeeded" =>
                        MyRow(w).phases[q] = "succeeded" \/ IsNext(MyRow(w).phases, q)
    <3>1. \A q \in Phases : worker[w].phases[q] = "succeeded" <=> MyRow(w).phases[q] = "succeeded"
      BY <2>0, <2>3 DEF ProgressInv, OwnersAgree, Agrees
    <3>2. IsNext(MyRow(w).phases, p)
      BY <2>0, <3>1 DEF IsNext, Remaining
    <3> QED BY <2>1, <3>1, <3>2
  <2>4. CASE UNCHANGED jobs
    BY <2>4, MapSame
  <2>5. CASE Owns(w) /\ Checkpoint(w, ph)
    BY <2>3, <2>5, CheckpointAdvances
  <2>6. CASE Owns(w) /\ Release(w, "queued", ph, 0, worker[w].attempt - 1)
    <3>1. "queued" \in {"queued", "retrying", "failed"}
      OBVIOUS
    <3> QED BY <2>3, <2>6, <3>1, ReleaseStops
  <2> QED BY <2>2, <2>4, <2>5, <2>6
<1> QED BY <1>1, <1>2, <1>3 DEF TickFault

LEMMA StepRefines ==
    ProgressInv /\ RetriesAreFresh /\ [Next]_vars => [Lifecycle!Next]_(Lifecycle!vars)
<1> SUFFICES ASSUME ProgressInv, RetriesAreFresh, [Next]_vars
             PROVE  Lifecycle!Next \/ UNCHANGED Lifecycle!vars
  OBVIOUS
<1>0. TypeOK
  BY DEF ProgressInv
<1>1. ASSUME NEW r \in Retriers, RetryWrite(r) PROVE Lifecycle!Next
  <2> DEFINE j == retrier[r].job
             row == RetriedRow(jobs[j], retrier[r].attempt)
  <2>1. j \in Jobs /\ jobs[j].state = "failed" /\ jobs' = [jobs EXCEPT ![j] = row]
    BY <1>0, <1>1 DEF RetryWrite, RetriesAreFresh, TypeOK, RetryOK
  <2>2. row.phases = jobs[j].phases /\ row.state = "queued"
    BY DEF RetriedRow
  <2> HIDE DEF row
  <2>3. StatusOf(row) = "waiting" /\ StatusOf(jobs[j]) = "failed"
    BY <2>1, <2>2 DEF StatusOf
  <2>4. UNCHANGED DoneMap /\ Lifecycle!Move(j, StatusOf(jobs[j]), StatusOf(row))
    BY <1>0, <2>1, <2>2, EditMoves
  <2>5. UNCHANGED DoneMap /\ Lifecycle!Move(j, "failed", "waiting")
    BY <2>3, <2>4
  <2> QED BY <2>1, <2>5 DEF Lifecycle!Next, Lifecycle!Retry
<1>2. ASSUME NEW j \in Jobs, Enqueue(j) PROVE Lifecycle!Next
  <2>1. jobs[j].state = "absent" /\ jobs[j].phases = FreshPhases /\ jobs' = [jobs EXCEPT ![j] = NewRow]
    BY <1>2 DEF Enqueue, ProgressInv, NoRowStuck, RowCoherent
  <2>2. NewRow.phases = FreshPhases /\ NewRow.state = "queued"
    BY DEF NewRow, QueuedRow
  <2>3. StatusOf(NewRow) = "waiting" /\ StatusOf(jobs[j]) = "absent"
    BY <2>1, <2>2 DEF StatusOf
  <2>4. DoneIn(NewRow.phases) = DoneIn(jobs[j].phases)
    BY <2>1, <2>2
  <2>5. UNCHANGED DoneMap /\ Lifecycle!Move(j, StatusOf(jobs[j]), StatusOf(NewRow))
    BY <1>0, <2>1, <2>4, EditMoves
  <2>6. UNCHANGED DoneMap /\ Lifecycle!Move(j, "absent", "waiting")
    BY <2>3, <2>5
  <2> QED BY <2>6 DEF Lifecycle!Next, Lifecycle!Submit
<1>3. CASE Elapse
  <2>1. \A j \in Jobs : jobs'[j].state = jobs[j].state /\ jobs'[j].phases = jobs[j].phases
    BY <1>0, <1>3 DEF Elapse, Aged, TypeOK, JobRow
  <2>2. \A j \in Jobs : /\ StatusOf(jobs'[j]) = StatusOf(jobs[j])
                        /\ DoneIn(jobs'[j].phases) = DoneIn(jobs[j].phases)
    BY <2>1 DEF StatusOf
  <2>3. StatusMap' = [j \in Jobs |-> StatusOf(jobs'[j])]
        /\ DoneMap' = [j \in Jobs |-> DoneIn(jobs'[j].phases)]
    BY DEF StatusMap, StatusOf, DoneMap, DoneIn
  <2> QED BY <2>2, <2>3 DEF Lifecycle!vars, StatusMap, DoneMap
<1>4. ASSUME NEW r \in Retriers, NEW j \in Jobs, RetryRead(r, j) PROVE UNCHANGED Lifecycle!vars
  BY <1>4, MapSame DEF RetryRead
<1>5. CASE UNCHANGED vars
  BY <1>5, MapSame DEF vars
<1> QED BY <1>1, <1>2, <1>3, <1>4, <1>5, TickRefines, FaultRefines DEF Next

LEMMA InitRefines == Init => Lifecycle!Init
<1> SUFFICES ASSUME Init PROVE Lifecycle!Init
  OBVIOUS
<1>1. \A j \in Jobs : StatusOf(jobs[j]) = "absent" /\ DoneIn(jobs[j].phases) = {}
  BY DEF Init, AbsentRow, StatusOf, DoneIn
<1> QED BY <1>1 DEF Lifecycle!Init, StatusMap, DoneMap

\* Every behaviour of the engine, for every number of jobs, ticks and phases and with
\* any crashes, lost answers and expired leases, is one of the lifecycle.
THEOREM EngineImplementsLifecycle ==
    ASSUME OneRetrier
    PROVE  Spec => ImplementsLifecycle
BY InitRefines, StepRefines, ProgressInvariant, FreshInvariant, PTL
   DEF Spec, ImplementsLifecycle, Lifecycle!Spec

-----------------------------------------------------------------------------
(* Attempts are bounded: by the attempts granted with every enqueue and    *)
(* manual retry, and one for each fault or overrun.                        *)

BudgetOK == TableOK /\ BudgetInv

-----------------------------------------------------------------------------
(* The allowance.                                                          *)

LEMMA AllowanceType ==
    ASSUME BudgetOK
    PROVE  /\ Allowance \in Nat \ {0} /\ Cardinality(Pending) \in Nat
           /\ retries \in Nat /\ faults \in Nat /\ overruns \in Nat
<1> DEFINE granted == 1 + retries - Cardinality(Pending)
<1>1. /\ MaxAttempts \in Nat \ {0} /\ Cardinality(Pending) \in Nat
      /\ retries \in Nat /\ faults \in Nat /\ overruns \in Nat /\ granted \in Nat \ {0}
  BY EngineAssumption, FS_CardinalityType
     DEF EngineAssumption, BudgetOK, BudgetInv, TableOK, TypeOK
<1>2. Allowance = MaxAttempts * granted + faults + overruns
  BY DEF Allowance
<1> HIDE DEF granted
<1>3. \A m, n \in Nat \ {0} : m * n \in Nat \ {0}
  OBVIOUS
<1>4. MaxAttempts * granted \in Nat \ {0}
  BY <1>1, <1>3
<1> QED BY <1>1, <1>2, <1>4

LEMMA AllowanceSame ==
    ASSUME UNCHANGED <<retrier, faults, overruns, retries>>
    PROVE  Allowance' = Allowance /\ Pending' = Pending
BY DEF Allowance, Pending

\* A fault or an overrun allows one attempt more.
LEMMA AllowanceGrows ==
    ASSUME BudgetOK, UNCHANGED <<retrier, retries>>,
           \/ faults' = faults + 1 /\ UNCHANGED overruns
           \/ overruns' = overruns + 1 /\ UNCHANGED faults
    PROVE  Allowance' = Allowance + 1 /\ Pending' = Pending
<1> DEFINE granted == MaxAttempts * (1 + retries - Cardinality(Pending))
<1>1. Pending' = Pending
  BY DEF Pending
<1>2. Allowance = granted + faults + overruns /\ Allowance' = granted + faults' + overruns'
  BY <1>1 DEF Allowance
<1>3. granted \in Int
  <2>1. MaxAttempts \in Int /\ 1 + retries - Cardinality(Pending) \in Int
    BY AllowanceType, EngineAssumption DEF EngineAssumption
  <2> QED BY <2>1
<1> HIDE DEF granted
<1> QED BY <1>1, <1>2, <1>3, AllowanceType

\* A retry that is read allows nothing yet ...
LEMMA AllowanceRead ==
    ASSUME BudgetOK, NEW r \in Retriers, NEW j \in Jobs, RetryRead(r, j)
    PROVE  /\ Allowance' = Allowance /\ Pending' = Pending \cup {r}
           /\ IsFiniteSet(Pending') /\ Cardinality(Pending') <= retries'
<1>1. Pending' = Pending \cup {r} /\ r \notin Pending
  BY DEF RetryRead, Pending, BudgetOK, TableOK, TypeOK, RetryState
<1>2. IsFiniteSet(Pending) /\ Cardinality(Pending) <= retries
  BY DEF BudgetOK, BudgetInv
<1>3. IsFiniteSet(Pending') /\ Cardinality(Pending') = Cardinality(Pending) + 1
  BY <1>1, <1>2, FS_AddElement
<1>4. retries' = retries + 1 /\ UNCHANGED <<faults, overruns>>
  BY DEF RetryRead
<1>5. 1 + retries' - Cardinality(Pending') = 1 + retries - Cardinality(Pending)
  BY <1>3, <1>4, AllowanceType
<1> QED BY <1>1, <1>2, <1>3, <1>4, <1>5, AllowanceType DEF Allowance

\* ... and a budget once it is written.
LEMMA AllowanceWritten ==
    ASSUME BudgetOK, NEW r \in Retriers, RetryWrite(r)
    PROVE  /\ Allowance' = Allowance + MaxAttempts /\ Pending' = Pending \ {r}
           /\ IsFiniteSet(Pending') /\ Cardinality(Pending') <= retries'
<1>1. Pending' = Pending \ {r} /\ r \in Pending
  BY DEF RetryWrite, IdleRequest, Pending, BudgetOK, TableOK, TypeOK, RetryState
<1>2. IsFiniteSet(Pending) /\ Cardinality(Pending) <= retries
  BY DEF BudgetOK, BudgetInv
<1>3. IsFiniteSet(Pending') /\ Cardinality(Pending') = Cardinality(Pending) - 1
  BY <1>1, <1>2, FS_RemoveElement
<1>4. UNCHANGED <<retries, faults, overruns>>
  BY DEF RetryWrite
<1> DEFINE granted == 1 + retries - Cardinality(Pending)
<1>5. granted \in Nat /\ 1 + retries' - Cardinality(Pending') = granted + 1 /\ MaxAttempts \in Nat
  BY <1>2, <1>3, <1>4, AllowanceType, EngineAssumption DEF EngineAssumption
<1>6. /\ Allowance = MaxAttempts * granted + faults + overruns
      /\ Allowance' = MaxAttempts * (granted + 1) + faults + overruns
  BY <1>4, <1>5 DEF Allowance
<1> HIDE DEF granted
<1>7. MaxAttempts * (granted + 1) = MaxAttempts * granted + MaxAttempts /\ MaxAttempts * granted \in Nat
  BY <1>5
<1> QED BY <1>1, <1>2, <1>3, <1>4, <1>5, <1>6, <1>7, AllowanceType

-----------------------------------------------------------------------------
(* What a step of a tick has to show.                                      *)

LEMMA CountsType ==
    ASSUME TypeOK
    PROVE  /\ \A j \in Jobs : jobs[j].attempt \in Nat /\ jobs[j].maxAttempts \in Nat
           /\ \A w \in Workers : /\ worker[w].attempt \in Nat
                                 /\ worker[w].pc \in Active => worker[w].job \in Jobs
                                 /\ \A c \in worker[w].cand : c.attempt \in Nat
           /\ \A r \in Retriers : retrier[r].attempt \in Nat
BY DEF TypeOK, JobRow, TickState, TickOK, RetryState, Candidate

\* A tick's new local state.
CountsTick(t) ==
    /\ \A c \in t.cand : c.attempt < Allowance
    /\ t.pc \in Active => t.attempt <= Allowance

\* A step that leaves the table alone: a tick stays the owner of its row, or it was none.
LEMMA LocalCounts ==
    ASSUME BudgetOK, NEW w \in Workers, NEW t, CountsTick(t),
           worker' = [worker EXCEPT ![w] = t],
           UNCHANGED <<jobs, retrier, faults, overruns, retries>>,
           \/ ~Owns(w) /\ t.pc \notin Active
           \/ /\ worker[w].pc \in Active /\ t.pc \in Active /\ t.job = worker[w].job
              /\ t.attempt = worker[w].attempt /\ t.budget = worker[w].budget
    PROVE  BudgetInv'
<1>1. Allowance' = Allowance /\ Pending' = Pending
  BY AllowanceSame
<1>2. /\ worker'[w] = t /\ \A v \in Workers \ {w} : worker'[v] = worker[v]
      /\ BudgetInv
  BY DEF BudgetOK, TableOK, TypeOK
<1>3. CountsBounded'
  BY <1>1, <1>2 DEF BudgetInv, CountsBounded, CountsTick
<1>4. \A v \in Workers : Owns(v)' <=> Owns(v)
  BY <1>2 DEF Owns, MyRow
<1>5. \A v \in Workers : Owns(v) => worker'[v].job = worker[v].job
                           /\ worker'[v].attempt = worker[v].attempt
                           /\ worker'[v].budget = worker[v].budget
  BY <1>2, <1>4 DEF Owns
<1>6. RoomToClaim'
  BY <1>1, <1>2, <1>4, <1>5 DEF BudgetInv, RoomToClaim
<1>7. OwnersCount'
  BY <1>2, <1>4, <1>5 DEF BudgetInv, OwnersCount, MyRow
<1> QED BY <1>1, <1>2, <1>3, <1>6, <1>7 DEF BudgetInv

\* A tick writes the row it owns, or takes over one: no other tick owns that row afterwards.
LEMMA WriteCounts ==
    ASSUME BudgetOK, NEW w \in Workers, NEW t, CountsTick(t),
           worker' = [worker EXCEPT ![w] = t],
           NEW j \in Jobs, NEW row, jobs' = [jobs EXCEPT ![j] = row],
           UNCHANGED <<retrier, faults, overruns, retries>>,
           row.attempt <= Allowance, row.maxAttempts <= Allowance,
           row.lockedBy \in {w, NoWorker}, Owns(w) => worker[w].job = j,
           \/ t.pc \notin Active
           \/ /\ t.job = j /\ row.lockedBy = w /\ row.lease # Expired
              /\ t.attempt = row.attempt /\ t.budget = row.maxAttempts,
           row.state \in {"queued", "retrying"} => row.attempt < Allowance,
           row.state = "running" => t.pc \in Active
    PROVE  BudgetInv'
<1>1. Allowance' = Allowance /\ Pending' = Pending
  BY AllowanceSame
<1>2. /\ worker'[w] = t /\ \A v \in Workers \ {w} : worker'[v] = worker[v]
      /\ jobs'[j] = row /\ \A i \in Jobs \ {j} : jobs'[i] = jobs[i]
      /\ BudgetInv /\ NoWorker \notin Workers
      /\ \A v \in Workers : worker[v].pc \in Active => worker[v].job \in Jobs
  BY CountsType, EngineAssumption DEF EngineAssumption, BudgetOK, TableOK, TypeOK
<1>3. CountsBounded'
  BY <1>1, <1>2 DEF BudgetInv, CountsBounded, CountsTick
<1>4. \A v \in Workers \ {w} : Owns(v)' <=> Owns(v) /\ worker[v].job # j
  BY <1>2 DEF Owns, MyRow
<1>5. Owns(w)' <=> t.pc \in Active
  BY <1>2 DEF Owns, MyRow
<1>6. RoomToClaim'
  <2> SUFFICES ASSUME NEW i \in Jobs,
                      \/ jobs'[i].state \in {"queued", "retrying"}
                      \/ /\ jobs'[i].state = "running"
                         /\ jobs'[i].lease = Expired
                            \/ \A v \in Workers : Owns(v)' => worker'[v].job # i
               PROVE  jobs'[i].attempt < Allowance
    BY <1>1 DEF RoomToClaim
  <2>1. CASE i = j
    BY <1>2, <1>5, <2>1
  <2>2. CASE i # j
    <3>1. (\A v \in Workers : Owns(v)' => worker'[v].job # i)
            => \A v \in Workers : Owns(v) => worker[v].job # i
      BY <1>2, <1>4, <2>2
    <3> QED BY <1>2, <2>2, <3>1 DEF BudgetInv, RoomToClaim
  <2> QED BY <2>1, <2>2
<1>7. OwnersCount'
  <2> SUFFICES ASSUME NEW v \in Workers, Owns(v)'
               PROVE  MyRow(v)'.attempt = worker'[v].attempt
                      /\ MyRow(v)'.maxAttempts = worker'[v].budget
    BY DEF OwnersCount
  <2>1. CASE v = w
    BY <1>2, <1>5, <2>1 DEF MyRow
  <2>2. CASE v # w
    <3>1. Owns(v) /\ worker[v].job # j /\ worker[v].job \in Jobs
      BY <1>2, <1>4, <2>2 DEF Owns
    <3> QED BY <1>2, <2>2, <3>1 DEF MyRow, BudgetInv, OwnersCount
  <2> QED BY <2>1, <2>2
<1> QED BY <1>1, <1>2, <1>3, <1>6, <1>7 DEF BudgetInv

\* A fault: every row may be claimed once more, so only the counts matter.
LEMMA FaultCounts ==
    ASSUME BudgetOK, NEW w \in Workers, NEW t,
           \A c \in t.cand : c.attempt \in Nat /\ c.attempt < Allowance,
           t.pc \in Active => t.attempt \in Nat /\ t.attempt <= Allowance,
           worker' = [worker EXCEPT ![w] = t],
           NEW j \in Jobs, NEW row, jobs' = [jobs EXCEPT ![j] = row],
           faults' = faults + 1, UNCHANGED <<retrier, overruns, retries>>,
           row.attempt \in Nat, row.attempt <= Allowance,
           row.maxAttempts \in Nat, row.maxAttempts <= Allowance,
           row # jobs[j] => row.lockedBy \in {w, NoWorker},
           \/ t.pc \notin Active
           \/ /\ t.job = j
              /\ row.lockedBy = w => t.attempt = row.attempt /\ t.budget = row.maxAttempts
    PROVE  BudgetInv'
<1>1. Allowance' = Allowance + 1 /\ Pending' = Pending /\ Allowance \in Nat
  BY AllowanceGrows, AllowanceType
<1>2. /\ worker'[w] = t /\ \A v \in Workers \ {w} : worker'[v] = worker[v]
      /\ jobs'[j] = row /\ \A i \in Jobs \ {j} : jobs'[i] = jobs[i]
      /\ BudgetInv /\ NoWorker \notin Workers /\ TypeOK
      /\ \A v \in Workers : worker[v].pc \in Active => worker[v].job \in Jobs
  BY CountsType, EngineAssumption DEF EngineAssumption, BudgetOK, TableOK, TypeOK
<1>3. \A i \in Jobs : /\ jobs'[i].attempt \in Nat /\ jobs'[i].attempt <= Allowance
                      /\ jobs'[i].maxAttempts \in Nat /\ jobs'[i].maxAttempts <= Allowance
  BY <1>2, CountsType DEF BudgetInv, CountsBounded
<1>4. \A v \in Workers : /\ \A c \in worker'[v].cand : c.attempt \in Nat /\ c.attempt < Allowance
                         /\ worker'[v].pc \in Active
                              => worker'[v].attempt \in Nat /\ worker'[v].attempt <= Allowance
  BY <1>2, CountsType DEF BudgetInv, CountsBounded
<1>5. \A r \in Pending : retrier[r].attempt \in Nat /\ retrier[r].attempt <= Allowance
  BY <1>2, CountsType DEF BudgetInv, CountsBounded, Pending
<1>6. \A n \in Nat : n <= Allowance \/ n < Allowance => n < Allowance' /\ n <= Allowance'
  BY <1>1
<1>7. \A v \in Workers : \A c \in worker'[v].cand : c.attempt < Allowance'
  <2> SUFFICES ASSUME NEW v \in Workers, NEW c \in worker'[v].cand PROVE c.attempt < Allowance'
    OBVIOUS
  <2>1. c.attempt \in Nat /\ c.attempt < Allowance
    BY <1>4
  <2> QED BY <1>6, <2>1
<1>8. CountsBounded'
  <2>1. \A v \in Workers : worker'[v].pc \in Active => worker'[v].attempt <= Allowance'
    BY <1>4, <1>6
  <2>2. \A r \in Pending' : retrier'[r].attempt <= Allowance'
    BY <1>1, <1>5, <1>6
  <2>3. \A i \in Jobs : jobs'[i].attempt <= Allowance' /\ jobs'[i].maxAttempts <= Allowance'
    BY <1>3, <1>6
  <2> QED BY <1>7, <2>1, <2>2, <2>3 DEF CountsBounded
<1>9. RoomToClaim'
  BY <1>3, <1>6 DEF RoomToClaim
<1>10. OwnersCount'
  <2> SUFFICES ASSUME NEW v \in Workers, Owns(v)'
               PROVE  MyRow(v)'.attempt = worker'[v].attempt
                      /\ MyRow(v)'.maxAttempts = worker'[v].budget
    BY DEF OwnersCount
  <2>1. CASE v = w
    BY <1>2, <2>1 DEF Owns, MyRow
  <2>2. CASE v # w
    <3>1. worker'[v] = worker[v] /\ worker[v].pc \in Active /\ worker[v].job \in Jobs
          /\ jobs'[worker[v].job].lockedBy = v
      BY <1>2, <2>2 DEF Owns, MyRow
    <3>2. jobs'[worker[v].job] = jobs[worker[v].job]
      BY <1>2, <2>2, <3>1
    <3> QED BY <1>2, <3>1, <3>2 DEF Owns, MyRow, BudgetInv, OwnersCount
  <2> QED BY <2>1, <2>2
<1> QED BY <1>1, <1>2, <1>8, <1>9, <1>10 DEF BudgetInv

-----------------------------------------------------------------------------
(* The steps of a tick.                                                    *)

LEMMA MyCounts ==
    ASSUME BudgetOK, NEW w \in Workers
    PROVE  /\ worker[w] \in TickState /\ CountsTick(worker[w])
           /\ worker[w].pc \in Active => worker[w].job \in Jobs /\ worker[w].attempt > 0
           /\ \A c : c \in worker[w].cand => /\ c.job \in Jobs /\ c.attempt \in Nat
                                           /\ AttemptStarted(c) \in Nat
                                           /\ AttemptStarted(c) <= Allowance
           /\ \A j \in Jobs : /\ jobs[j] \in JobRow
                              /\ jobs[j].attempt <= Allowance /\ jobs[j].maxAttempts <= Allowance
           /\ Owns(w) => MyRow(w).attempt = worker[w].attempt
                          /\ MyRow(w).maxAttempts = worker[w].budget
BY AllowanceType, CountsType DEF BudgetOK, TableOK, TypeOK, BudgetInv, CountsBounded, OwnersCount, CountsTick,
   TickState, Candidate, TickOK, AttemptStarted

LEMMA BudgetLocal ==
    ASSUME BudgetOK, NEW w \in Workers,
           SelectDue(w) \/ SelectAbandoned(w) \/ EndTick(w) \/ LeaseLost(w) \/ PhaseThrows(w)
    PROVE  BudgetInv'
<1>0. /\ worker[w] \in TickState /\ CountsTick(worker[w])
      /\ worker[w].pc \notin Active => ~Owns(w)
  BY MyCounts DEF Owns
<1>r. \A pc, cand : AtRest(pc, cand).pc = pc /\ AtRest(pc, cand).cand = cand
  BY DEF AtRest
<1>1. ASSUME NEW S \in SUBSET Jobs, NEW kind, NEW c \in Snapshot(S, kind),
             \A j \in S : jobs[j].attempt < Allowance
      PROVE  c.attempt < Allowance
  BY <1>1 DEF Snapshot
<1>2. ASSUME NEW pc \in {"idle", "select", "claim"}, NEW cand, ~Owns(w),
             \A c \in cand : c.attempt < Allowance,
             worker' = [worker EXCEPT ![w] = AtRest(pc, cand)],
             UNCHANGED <<jobs, retrier, faults, overruns, retries>>
      PROVE  BudgetInv'
  <2>1. CountsTick(AtRest(pc, cand)) /\ AtRest(pc, cand).pc \notin Active
    BY <1>r, <1>2 DEF CountsTick
  <2> QED BY <1>2, <2>1, LocalCounts
<1>3. CASE SelectDue(w)
  <2>1. PICK S \in Limited({j \in Jobs : IsDue(jobs[j])}, MaxJobs) :
              worker' = [worker EXCEPT ![w] = AtRest("select", Snapshot(S, "due"))]
    BY <1>3 DEF SelectDue
  <2>2. S \subseteq Jobs /\ \A j \in S : jobs[j].attempt < Allowance
    BY <2>1 DEF Limited, IsDue, BudgetOK, BudgetInv, RoomToClaim
  <2> QED BY <1>0, <1>1, <1>2, <1>3, <2>1, <2>2 DEF SelectDue
<1>4. CASE SelectAbandoned(w)
  <2>0. PICK L \in Limited({j \in Jobs : IsAbandoned(jobs[j])}, MaxJobs) :
           \E S \in Limited(L \ {c.job : c \in worker[w].cand},
                          MaxJobs - Cardinality(worker[w].cand)) :
              worker' = [worker EXCEPT ![w] =
                 AtRest("claim", worker[w].cand \cup Snapshot(S, "abandoned"))]
    BY <1>4 DEF SelectAbandoned
  <2>1. PICK S \in Limited(L \ {c.job : c \in worker[w].cand},
                          MaxJobs - Cardinality(worker[w].cand)) :
              worker' = [worker EXCEPT ![w] =
                 AtRest("claim", worker[w].cand \cup Snapshot(S, "abandoned"))]
    BY <2>0
  <2>2. S \subseteq Jobs /\ \A j \in S : jobs[j].attempt < Allowance
    BY <2>0, <2>1 DEF Limited, IsAbandoned, LeaseOver, BudgetOK, BudgetInv, RoomToClaim
  <2>3. \A c \in worker[w].cand \cup Snapshot(S, "abandoned") : c.attempt < Allowance
    BY <1>0, <1>1, <2>2 DEF CountsTick
  <2> QED BY <1>0, <1>2, <1>4, <2>1, <2>3 DEF SelectAbandoned
<1>5. CASE EndTick(w)
  BY <1>0, <1>2, <1>5 DEF EndTick
<1>6. CASE LeaseLost(w)
  BY <1>0, <1>2, <1>6 DEF LeaseLost, Leave, CountsTick
<1>7. CASE PhaseThrows(w)
  <2>1. PICK r \in BOOLEAN :
              worker' = [worker EXCEPT ![w] = [worker[w] EXCEPT !.pc = "fail", !.retryable = r]]
    BY <1>7 DEF PhaseThrows
  <2> DEFINE t == [worker[w] EXCEPT !.pc = "fail", !.retryable = r]
  <2>2. /\ t.pc = "fail" /\ t.job = worker[w].job /\ t.attempt = worker[w].attempt
        /\ t.budget = worker[w].budget /\ t.cand = worker[w].cand
    BY <1>0 DEF TickState
  <2>3. worker[w].pc \in Active /\ UNCHANGED <<jobs, retrier, faults, overruns, retries>>
    BY <1>7 DEF PhaseThrows
  <2>4. CountsTick(t)
    BY <1>0, <2>2, <2>3 DEF CountsTick
  <2> HIDE DEF t
  <2> QED BY <2>1, <2>2, <2>3, <2>4, LocalCounts DEF t
<1> QED BY <1>3, <1>4, <1>5, <1>6, <1>7

\* A statement on the row that the tick owns.
LEMMA BudgetOwned ==
    ASSUME BudgetOK, NEW w \in Workers, Owns(w), NEW row, NEW t,
           worker' = [worker EXCEPT ![w] = t],
           jobs' = [jobs EXCEPT ![worker[w].job] = row],
           UNCHANGED <<retrier, faults, overruns, retries>>,
           t.cand = worker[w].cand,
           row.maxAttempts = MyRow(w).maxAttempts,
           row.attempt <= Allowance, row.lockedBy \in {w, NoWorker},
           \/ t.pc \notin Active /\ row.state # "running"
           \/ /\ t.pc \in Active /\ t.job = worker[w].job /\ row.lockedBy = w /\ row.lease # Expired
              /\ t.attempt = worker[w].attempt /\ t.budget = worker[w].budget
              /\ row.attempt = MyRow(w).attempt,
           row.state \in {"queued", "retrying"} => row.attempt < Allowance
    PROVE  BudgetInv'
<1>1. /\ worker[w].pc \in Active /\ worker[w].job \in Jobs /\ CountsTick(worker[w])
      /\ MyRow(w) = jobs[worker[w].job] /\ MyRow(w).state = "running"
      /\ MyRow(w).attempt = worker[w].attempt /\ MyRow(w).maxAttempts = worker[w].budget
      /\ row.maxAttempts <= Allowance
  BY MyCounts, OwnedRow DEF BudgetOK, TableOK
<1>2. CountsTick(t)
  BY <1>1 DEF CountsTick
<1>3. \/ t.pc \notin Active
      \/ /\ t.job = worker[w].job /\ row.lockedBy = w /\ row.lease # Expired
         /\ t.attempt = row.attempt /\ t.budget = row.maxAttempts
  BY <1>1
<1>4. row.state = "running" => t.pc \in Active
  OBVIOUS
<1> QED BY <1>1, <1>2, <1>3, <1>4, WriteCounts

LEMMA BudgetCheckpoint ==
    ASSUME BudgetOK, NEW w \in Workers, Owns(w), NEW ph, Checkpoint(w, ph), NEW t,
           worker' = [worker EXCEPT ![w] = t],
           UNCHANGED <<retrier, faults, overruns, retries>>,
           t.cand = worker[w].cand, t.pc \in Active, t.job = worker[w].job,
           t.attempt = worker[w].attempt, t.budget = worker[w].budget
    PROVE  BudgetInv'
<1> DEFINE row == CheckpointedRow(MyRow(w), ph)
<1>1. MyRow(w) \in JobRow /\ MyRow(w) = jobs[worker[w].job] /\ MyRow(w).lockedBy = w
      /\ MyRow(w).state = "running" /\ MyRow(w).attempt <= Allowance
  BY MyCounts, OwnedRow DEF BudgetOK, TableOK
<1>2. /\ row.maxAttempts = MyRow(w).maxAttempts /\ row.attempt = MyRow(w).attempt
      /\ row.lockedBy = w /\ row.lease = LeaseTime /\ row.state = "running"
  BY <1>1 DEF CheckpointedRow, JobRow
<1>3. LeaseTime # Expired
  BY EngineAssumption DEF EngineAssumption
<1>4. jobs' = [jobs EXCEPT ![worker[w].job] = row]
  BY <1>1 DEF Checkpoint
<1> HIDE DEF row
<1> QED BY <1>1, <1>2, <1>3, <1>4, BudgetOwned

LEMMA BudgetRelease ==
    ASSUME BudgetOK, NEW w \in Workers, Owns(w), NEW state, NEW ph, NEW nextRun, NEW attempt,
           Release(w, state, ph, nextRun, attempt), Leave(w),
           UNCHANGED <<retrier, faults, overruns, retries>>,
           state # "running", attempt <= Allowance,
           state \in {"queued", "retrying"} => attempt < Allowance
    PROVE  BudgetInv'
<1> DEFINE row == ReleasedRow(MyRow(w), state, ph, nextRun, attempt)
           t == AtRest("claim", worker[w].cand)
<1>1. /\ row.maxAttempts = MyRow(w).maxAttempts /\ row.attempt = attempt
      /\ row.lockedBy = NoWorker /\ row.state = state
  BY DEF ReleasedRow
<1>2. t.cand = worker[w].cand /\ t.pc = "claim"
  BY DEF AtRest
<1>3. jobs' = [jobs EXCEPT ![worker[w].job] = row] /\ worker' = [worker EXCEPT ![w] = t]
  BY OwnedRow DEF BudgetOK, TableOK, Release, Leave, MyRow
<1> HIDE DEF row, t
<1> QED BY <1>1, <1>2, <1>3, BudgetOwned

LEMMA BudgetWrites ==
    ASSUME BudgetOK, NEW w \in Workers,
           \/ StartAttempt(w) \/ Requeue(w) \/ FinishFailure(w) \/ FinishSuccess(w)
           \/ \E p \in Phases : BeginPhase(w, p) \/ CompletePhase(w, p)
    PROVE  BudgetInv'
<1>0. worker[w] \in TickState
  BY MyCounts
<1>o. ASSUME Owns(w)
      PROVE  /\ worker[w].attempt \in Nat \ {0} /\ worker[w].attempt <= Allowance
             /\ worker[w].budget \in Nat /\ worker[w].budget <= Allowance
             /\ MyRow(w).attempt = worker[w].attempt /\ Allowance \in Nat
  BY <1>o, MyCounts, OwnedRow, MyRowType, AllowanceType
     DEF BudgetOK, TableOK, TickState, CountsTick
<1>1. CASE StartAttempt(w)
  BY <1>0, <1>1, BudgetCheckpoint DEF StartAttempt, Goto, TickState
<1>2. ASSUME NEW p \in Phases, BeginPhase(w, p) PROVE BudgetInv'
  BY <1>0, <1>2, BudgetCheckpoint DEF BeginPhase, TickState
<1>3. ASSUME NEW p \in Phases, CompletePhase(w, p) PROVE BudgetInv'
  <2> DEFINE ph == MarkPhase(worker[w].phases, p, "succeeded")
             pc == IF BudgetSpent(worker[w].done + 1, ph) THEN "requeue" ELSE "next"
             t == [worker[w] EXCEPT !.pc = pc, !.phases = ph, !.done = @ + 1]
  <2>1. /\ Owns(w) /\ Checkpoint(w, ph) /\ worker' = [worker EXCEPT ![w] = t]
        /\ UNCHANGED <<retrier, faults, overruns, retries>>
    BY <1>3 DEF CompletePhase
  <2>2. /\ t.cand = worker[w].cand /\ t.pc \in Active /\ t.job = worker[w].job
        /\ t.attempt = worker[w].attempt /\ t.budget = worker[w].budget
    BY <1>0 DEF TickState
  <2> HIDE DEF t, ph
  <2> QED BY <2>1, <2>2, BudgetCheckpoint
<1>4. CASE Requeue(w)
  <2>1. worker[w].attempt - 1 < Allowance /\ worker[w].attempt - 1 <= Allowance
    BY <1>o, <1>4 DEF Requeue
  <2> QED BY <1>4, <2>1, BudgetRelease DEF Requeue
<1>5. CASE FinishFailure(w)
  <2> DEFINE again == WillRetry(worker[w].attempt, worker[w].budget, worker[w].retryable)
             state == IF again THEN "retrying" ELSE "failed"
  <2>1. Owns(w) /\ Leave(w) /\ UNCHANGED <<retrier, faults, overruns, retries>>
        /\ \E ph, nextRun : Release(w, state, ph, nextRun, MyRow(w).attempt)
    BY <1>5 DEF FinishFailure
  <2>2. again => worker[w].attempt < worker[w].budget
    BY DEF WillRetry
  <2>3. again => MyRow(w).attempt < Allowance
    BY <1>o, <2>1, <2>2
  <2>4. state # "running" /\ (state \in {"queued", "retrying"} => again)
    OBVIOUS
  <2> HIDE DEF again, state
  <2> QED BY <1>o, <2>1, <2>3, <2>4, BudgetRelease
<1>6. CASE FinishSuccess(w)
  BY <1>o, <1>6, BudgetRelease DEF FinishSuccess
<1> QED BY <1>1, <1>2, <1>3, <1>4, <1>5, <1>6

LEMMA BudgetClaims ==
    ASSUME BudgetOK, NEW w \in Workers, NEW c \in worker[w].cand,
           ClaimWins(w, c) \/ ClaimLoses(w, c)
    PROVE  BudgetInv'
<1>0. /\ worker[w] \in TickState /\ CountsTick(worker[w]) /\ c.job \in Jobs
      /\ AttemptStarted(c) <= Allowance /\ jobs[c.job].maxAttempts <= Allowance
      /\ worker[w].pc = "claim" /\ ~Owns(w)
      /\ \A d \in worker[w].cand \ {c} : d.attempt < Allowance
  BY MyCounts DEF ClaimWins, ClaimLoses, Takes, Owns, CountsTick
<1>1. CASE ClaimWins(w, c)
  <2> DEFINE row == ClaimedRow(jobs[c.job], w, c)
             t == [pc |-> "start", cand |-> worker[w].cand \ {c}, job |-> c.job,
                   attempt |-> AttemptStarted(c), budget |-> jobs[c.job].maxAttempts,
                   phases |-> MergePhases(jobs[c.job].phases), done |-> 0, retryable |-> FALSE]
  <2>1. worker' = [worker EXCEPT ![w] = t] /\ jobs' = [jobs EXCEPT ![c.job] = row]
        /\ UNCHANGED <<retrier, faults, overruns, retries>>
    BY <1>1 DEF ClaimWins
  <2>2. /\ row.attempt = AttemptStarted(c) /\ row.maxAttempts = jobs[c.job].maxAttempts
        /\ row.lockedBy = w /\ row.lease = LeaseTime /\ row.state = "running"
    BY DEF ClaimedRow
  <2>3. LeaseTime # Expired
    BY EngineAssumption DEF EngineAssumption
  <2>4. /\ t.cand = worker[w].cand \ {c} /\ t.pc = "start" /\ t.job = c.job
        /\ t.attempt = AttemptStarted(c) /\ t.budget = jobs[c.job].maxAttempts
    OBVIOUS
  <2> HIDE DEF row, t
  <2>5. CountsTick(t)
    BY <1>0, <2>4 DEF CountsTick
  <2>6. /\ row.attempt <= Allowance /\ row.maxAttempts <= Allowance
        /\ row.lockedBy \in {w, NoWorker} /\ (Owns(w) => worker[w].job = c.job)
        /\ (row.state \in {"queued", "retrying"} => row.attempt < Allowance)
        /\ (row.state = "running" => t.pc \in Active)
    BY <1>0, <2>2, <2>4
  <2>7. /\ t.job = c.job /\ row.lockedBy = w /\ row.lease # Expired
        /\ t.attempt = row.attempt /\ t.budget = row.maxAttempts
    BY <2>2, <2>3, <2>4
  <2> QED BY <1>0, <2>1, <2>5, <2>6, <2>7, WriteCounts
<1>2. CASE ClaimLoses(w, c)
  <2> DEFINE t == [worker[w] EXCEPT !.cand = @ \ {c}]
  <2>1. t.cand = worker[w].cand \ {c} /\ t.pc = "claim"
    BY <1>0 DEF TickState
  <2>2. CountsTick(t)
    BY <1>0, <2>1 DEF CountsTick
  <2>3. worker' = [worker EXCEPT ![w] = t] /\ UNCHANGED <<jobs, retrier, faults, overruns, retries>>
    BY <1>2 DEF ClaimLoses
  <2> HIDE DEF t
  <2> QED BY <1>0, <2>1, <2>2, <2>3, LocalCounts
<1> QED BY <1>1, <1>2

LEMMA BudgetFaults ==
    ASSUME BudgetOK, NEW w \in Workers, TickFault(w)
    PROVE  BudgetInv'
<1>0. /\ worker[w] \in TickState /\ CountsTick(worker[w]) /\ NoWorker \notin Workers
      /\ worker[w].pc \notin Active => ~Owns(w)
      /\ \A j \in Jobs : jobs[j] \in JobRow
  BY MyCounts, EngineAssumption DEF EngineAssumption, Owns
<1>j. \A j \in Jobs : /\ jobs[j].attempt \in Nat /\ jobs[j].attempt <= Allowance
                      /\ jobs[j].maxAttempts \in Nat /\ jobs[j].maxAttempts <= Allowance
  BY MyCounts, CountsType DEF BudgetOK, TableOK
<1>c. \A c \in worker[w].cand : c.attempt \in Nat /\ c.attempt < Allowance
  BY <1>0, CountsType DEF BudgetOK, TableOK, CountsTick
<1>1. ASSUME NEW t, worker' = [worker EXCEPT ![w] = t], t.pc \notin Active,
             \A c \in t.cand : c.attempt \in Nat /\ c.attempt < Allowance,
             UNCHANGED <<jobs, retrier, overruns, retries>>, faults' = faults + 1
      PROVE  BudgetInv'
  <2>1. CASE Jobs = {}
    <3>1. Allowance' = Allowance + 1 /\ Pending' = Pending /\ Allowance \in Nat
      BY <1>1, AllowanceGrows, AllowanceType
    <3>2. /\ worker'[w] = t /\ \A v \in Workers \ {w} : worker'[v] = worker[v]
      BY <1>1 DEF BudgetOK, TableOK, TypeOK
    <3>3. \A v \in Workers : worker'[v].pc \notin Active
      BY <1>1, <2>1, <3>2, CountsType DEF BudgetOK, TableOK
    <3>4. \A n \in Nat : n <= Allowance \/ n < Allowance => n < Allowance' /\ n <= Allowance'
      BY <3>1
    <3>5. \A v \in Workers : \A c \in worker'[v].cand : c.attempt \in Nat /\ c.attempt < Allowance
      BY <1>1, <3>2, CountsType DEF BudgetOK, TableOK, BudgetInv, CountsBounded
    <3>6. \A r \in Pending : retrier[r].attempt \in Nat /\ retrier[r].attempt <= Allowance
      BY CountsType DEF BudgetOK, TableOK, BudgetInv, CountsBounded, Pending
    <3>7. CountsBounded'
      BY <1>1, <2>1, <3>1, <3>3, <3>4, <3>5, <3>6 DEF CountsBounded
    <3> QED BY <1>1, <2>1, <3>1, <3>3, <3>7
            DEF BudgetOK, BudgetInv, RoomToClaim, OwnersCount, Owns
  <2>2. ASSUME NEW j \in Jobs PROVE BudgetInv'
    <3>1. jobs' = [jobs EXCEPT ![j] = jobs[j]]
      BY <1>1 DEF BudgetOK, TableOK, TypeOK
    <3> QED BY <1>1, <1>j, <3>1, FaultCounts
  <2> QED BY <2>1, <2>2
<1>r. \A pc, cand : AtRest(pc, cand).pc = pc /\ AtRest(pc, cand).cand = cand
  BY DEF AtRest
<1>2. CASE SelectUnanswered(w)
  <2>1. PICK pc \in {"select", "claim"}, cand \in {{}, worker[w].cand} :
              worker' = [worker EXCEPT ![w] = AtRest(pc, cand)]
    BY <1>2 DEF SelectUnanswered
  <2> DEFINE t == AtRest(pc, cand)
  <2>2. t.pc \notin Active /\ \A c \in t.cand : c.attempt \in Nat /\ c.attempt < Allowance
    BY <1>c, <1>r
  <2>3. UNCHANGED <<jobs, retrier, overruns, retries>> /\ faults' = faults + 1
    BY <1>2 DEF SelectUnanswered
  <2> HIDE DEF t
  <2>4. worker' = [worker EXCEPT ![w] = t]
    BY <2>1 DEF t
  <2> QED BY <1>1, <2>2, <2>3, <2>4
<1>3. CASE Crash(w)
  <2> DEFINE t == AtRest("idle", {})
  <2>1. t.pc \notin Active /\ t.cand = {}
    BY <1>r
  <2>2. /\ worker' = [worker EXCEPT ![w] = t]
        /\ UNCHANGED <<jobs, retrier, overruns, retries>> /\ faults' = faults + 1
    BY <1>3 DEF Crash
  <2> HIDE DEF t
  <2> QED BY <1>1, <2>1, <2>2
<1>4. ASSUME NEW c \in worker[w].cand, ClaimUnanswered(w, c) PROVE BudgetInv'
  <2> DEFINE row == ClaimedRow(jobs[c.job], w, c)
             t == [worker[w] EXCEPT !.cand = @ \ {c}]
  <2>1. /\ worker' = [worker EXCEPT ![w] = t] /\ jobs' = [jobs EXCEPT ![c.job] = row]
        /\ UNCHANGED <<retrier, overruns, retries>> /\ faults' = faults + 1
        /\ worker[w].pc = "claim"
    BY <1>4 DEF ClaimUnanswered, Takes
  <2>2. t.cand = worker[w].cand \ {c} /\ t.pc = "claim"
    BY <1>0, <2>1 DEF TickState
  <2>3. /\ row.attempt = AttemptStarted(c) /\ row.maxAttempts = jobs[c.job].maxAttempts
        /\ row.lockedBy = w
    BY DEF ClaimedRow
  <2>4. c.job \in Jobs /\ row.attempt \in Nat /\ row.attempt <= Allowance
    BY <2>3, MyCounts
  <2> HIDE DEF row, t
  <2>5. /\ \A d \in t.cand : d.attempt \in Nat /\ d.attempt < Allowance
        /\ t.pc \notin Active
    BY <1>c, <2>2
  <2>6. row.maxAttempts \in Nat /\ row.maxAttempts <= Allowance
    BY <1>j, <2>3, <2>4
  <2> QED BY <2>1, <2>3, <2>4, <2>5, <2>6, FaultCounts
<1>5. ASSUME NEW p \in Phases, PhaseWriteFails(w, p) PROVE BudgetInv'
  <2> DEFINE ph == IF worker[w].pc = "requeue" THEN worker[w].phases
                   ELSE MarkPhase(worker[w].phases, p,
                                  IF worker[w].pc = "next" THEN "running" ELSE "succeeded")
             t == [worker[w] EXCEPT !.pc = "fail", !.phases = ph, !.retryable = TRUE]
             j == worker[w].job
  <2>1. /\ worker' = [worker EXCEPT ![w] = t]
        /\ UNCHANGED <<retrier, overruns, retries>> /\ faults' = faults + 1
        /\ worker[w].pc \in Active
        /\ \/ UNCHANGED jobs
           \/ Owns(w) /\ Checkpoint(w, ph)
           \/ Owns(w) /\ Release(w, "queued", ph, 0, worker[w].attempt - 1)
    BY <1>5 DEF PhaseWriteFails
  <2>2. /\ t.cand = worker[w].cand /\ t.pc = "fail" /\ t.job = j
        /\ t.attempt = worker[w].attempt /\ t.budget = worker[w].budget
    BY <1>0 DEF TickState
  <2>3. /\ j \in Jobs /\ worker[w].attempt \in Nat \ {0} /\ worker[w].attempt <= Allowance
        /\ Owns(w) => /\ jobs[j].attempt = worker[w].attempt
                      /\ jobs[j].maxAttempts = worker[w].budget
        /\ Owns(w) <=> jobs[j].lockedBy = w
    BY <1>0, <2>1, MyCounts, MyRowType DEF BudgetOK, TableOK, CountsTick, MyRow, Owns
  <2>4. ASSUME NEW row, jobs' = [jobs EXCEPT ![j] = row],
               row.attempt \in Nat, row.attempt <= Allowance, row.maxAttempts = jobs[j].maxAttempts,
               row # jobs[j] => row.lockedBy \in {w, NoWorker},
               row.lockedBy = w => Owns(w) /\ row.attempt = jobs[j].attempt
        PROVE  BudgetInv'
    <3>1. t.attempt \in Nat /\ t.attempt <= Allowance
      BY <2>2, <2>3
    <3>2. row.lockedBy = w => t.attempt = row.attempt /\ t.budget = row.maxAttempts
      BY <2>2, <2>3, <2>4
    <3>3. row.maxAttempts \in Nat /\ row.maxAttempts <= Allowance
      BY <1>j, <2>3, <2>4
    <3>4. \A c \in t.cand : c.attempt \in Nat /\ c.attempt < Allowance
      BY <1>c, <2>2
    <3>5. t.job = j
      BY <2>2
    <3> HIDE DEF t, j, ph
    <3>6. /\ t.pc \in Active => t.attempt \in Nat /\ t.attempt <= Allowance
          /\ \/ t.pc \notin Active
             \/ /\ t.job = j
                /\ row.lockedBy = w => t.attempt = row.attempt /\ t.budget = row.maxAttempts
      BY <3>1, <3>2, <3>5
    <3>7. worker' = [worker EXCEPT ![w] = t] /\ UNCHANGED <<retrier, overruns, retries>>
          /\ faults' = faults + 1 /\ j \in Jobs
      BY <2>1, <2>3
    <3> QED BY ONLY BudgetOK, <2>4, <3>3, <3>4, <3>6, <3>7, FaultCounts
  <2>5. CASE UNCHANGED jobs
    <3>1. jobs' = [jobs EXCEPT ![j] = jobs[j]]
      BY <2>3, <2>5 DEF BudgetOK, TableOK, TypeOK
    <3> QED BY <1>j, <2>3, <2>4, <3>1
  <2>6. CASE Owns(w) /\ Checkpoint(w, ph)
    <3> DEFINE row == CheckpointedRow(jobs[j], ph)
    <3>1. /\ row.attempt = jobs[j].attempt /\ row.maxAttempts = jobs[j].maxAttempts
          /\ row.lockedBy = jobs[j].lockedBy
      BY <1>0, <2>3 DEF CheckpointedRow, JobRow
    <3>2. jobs' = [jobs EXCEPT ![j] = row]
      BY <2>6 DEF Checkpoint
    <3> HIDE DEF row
    <3> QED BY <1>j, <2>3, <2>4, <2>6, <3>1, <3>2
  <2>7. CASE Owns(w) /\ Release(w, "queued", ph, 0, worker[w].attempt - 1)
    <3> DEFINE row == ReleasedRow(jobs[j], "queued", ph, 0, worker[w].attempt - 1)
    <3>1. /\ row.attempt = worker[w].attempt - 1 /\ row.maxAttempts = jobs[j].maxAttempts
          /\ row.lockedBy = NoWorker
      BY DEF ReleasedRow
    <3>2. jobs' = [jobs EXCEPT ![j] = row]
      BY <2>7 DEF Release
    <3>3. row.attempt \in Nat /\ row.attempt <= Allowance
      BY <2>3, <3>1, AllowanceType
    <3> HIDE DEF row
    <3> QED BY <1>0, <2>3, <2>4, <3>1, <3>2, <3>3
  <2> QED BY <2>1, <2>5, <2>6, <2>7
<1> QED BY <1>2, <1>3, <1>4, <1>5 DEF TickFault

-----------------------------------------------------------------------------
(* Requests and time.                                                      *)

LEMMA BudgetRetryRead ==
    ASSUME BudgetOK, NEW r \in Retriers, NEW j \in Jobs, RetryRead(r, j)
    PROVE  BudgetInv'
<1>1. /\ Allowance' = Allowance /\ Pending' = Pending \cup {r}
      /\ IsFiniteSet(Pending') /\ Cardinality(Pending') <= retries'
  BY AllowanceRead
<1>2. /\ UNCHANGED <<jobs, worker>> /\ retrier'[r].attempt = jobs[j].attempt
      /\ \A q \in Retriers \ {r} : retrier'[q] = retrier[q]
      /\ BudgetInv
  BY DEF RetryRead, BudgetOK, TableOK, TypeOK
<1>3. \A q \in Pending' : retrier'[q].attempt <= Allowance
  BY <1>1, <1>2 DEF BudgetInv, CountsBounded, Pending
<1>4. CountsBounded'
  BY <1>1, <1>2, <1>3 DEF BudgetInv, CountsBounded
<1>5. RoomToClaim' /\ OwnersCount'
  BY <1>1, <1>2 DEF BudgetInv, RoomToClaim, OwnersCount, Owns, MyRow
<1> QED BY <1>1, <1>4, <1>5 DEF BudgetInv

LEMMA BudgetRetryWrite ==
    ASSUME BudgetOK, NEW r \in Retriers, RetryWrite(r)
    PROVE  BudgetInv'
<1> DEFINE j == retrier[r].job
           row == RetriedRow(jobs[j], retrier[r].attempt)
<1>1. /\ Allowance' = Allowance + MaxAttempts /\ Pending' = Pending \ {r}
      /\ IsFiniteSet(Pending') /\ Cardinality(Pending') <= retries'
      /\ Allowance \in Nat /\ MaxAttempts \in Nat \ {0}
  BY AllowanceWritten, AllowanceType, EngineAssumption DEF EngineAssumption
<1>2. /\ UNCHANGED worker /\ jobs'[j] = row /\ \A i \in Jobs \ {j} : jobs'[i] = jobs[i]
      /\ \A q \in Retriers \ {r} : retrier'[q] = retrier[q]
      /\ BudgetInv /\ j \in Jobs /\ r \in Pending /\ NoWorker \notin Workers
  BY EngineAssumption DEF EngineAssumption, RetryWrite, BudgetOK, TableOK, TypeOK, RetryOK, Pending
<1>3. /\ row.attempt = jobs[j].attempt /\ row.maxAttempts = retrier[r].attempt + MaxAttempts
      /\ row.lockedBy = NoWorker
  BY DEF RetriedRow
<1> HIDE DEF row, j
<1>4. \A n \in Nat : n <= Allowance \/ n < Allowance
                       => /\ n < Allowance' /\ n <= Allowance'
                          /\ n + MaxAttempts <= Allowance'
  BY <1>1
<1>5. /\ \A i \in Jobs : /\ jobs[i].attempt \in Nat /\ jobs[i].attempt <= Allowance
                         /\ jobs[i].maxAttempts \in Nat /\ jobs[i].maxAttempts <= Allowance
      /\ \A q \in Pending : retrier[q].attempt \in Nat /\ retrier[q].attempt <= Allowance
      /\ \A w \in Workers : /\ \A c \in worker[w].cand : c.attempt \in Nat /\ c.attempt < Allowance
                            /\ worker[w].attempt \in Nat
                            /\ worker[w].pc \in Active => /\ worker[w].attempt <= Allowance
                                                          /\ worker[w].job \in Jobs
  BY <1>2, CountsType DEF BudgetOK, TableOK, BudgetInv, CountsBounded, Pending
<1>6. \A i \in Jobs : /\ jobs'[i].attempt < Allowance' /\ jobs'[i].attempt <= Allowance'
                      /\ jobs'[i].maxAttempts <= Allowance'
  BY <1>2, <1>3, <1>4, <1>5
<1>7. CountsBounded'
  <2>1. \A w \in Workers : \A c \in worker'[w].cand : c.attempt < Allowance'
    BY <1>2, <1>4, <1>5
  <2>2. \A w \in Workers : worker'[w].pc \in Active => worker'[w].attempt <= Allowance'
    BY <1>2, <1>4, <1>5
  <2>3. \A q \in Pending' : retrier'[q].attempt <= Allowance'
    BY <1>1, <1>2, <1>4, <1>5 DEF Pending
  <2> QED BY <1>6, <2>1, <2>2, <2>3 DEF CountsBounded
<1>8. RoomToClaim'
  BY <1>6 DEF RoomToClaim
<1>9. OwnersCount'
  <2> SUFFICES ASSUME NEW w \in Workers, Owns(w)'
               PROVE  MyRow(w)'.attempt = worker'[w].attempt
                      /\ MyRow(w)'.maxAttempts = worker'[w].budget
    BY DEF OwnersCount
  <2>1. worker[w].pc \in Active /\ worker[w].job \in Jobs /\ jobs'[worker[w].job].lockedBy = w
    BY <1>2, <1>5 DEF Owns, MyRow
  <2>2. jobs'[worker[w].job] = jobs[worker[w].job]
    BY <1>2, <1>3, <2>1
  <2> QED BY <1>2, <2>1, <2>2 DEF BudgetInv, OwnersCount, Owns, MyRow
<1> QED BY <1>1, <1>7, <1>8, <1>9 DEF BudgetInv

LEMMA BudgetEnqueue ==
    ASSUME BudgetOK, NEW j \in Jobs, Enqueue(j)
    PROVE  BudgetInv'
<1>1. Allowance' = Allowance /\ Pending' = Pending
  BY AllowanceSame DEF Enqueue
<1>2. /\ jobs'[j] = NewRow /\ \A i \in Jobs \ {j} : jobs'[i] = jobs[i]
      /\ UNCHANGED <<worker, retrier, retries>> /\ BudgetInv /\ NoWorker \notin Workers
      /\ jobs[j].maxAttempts <= Allowance
  BY EngineAssumption DEF EngineAssumption, Enqueue, BudgetOK, TableOK, TypeOK, BudgetInv, CountsBounded
<1>3. NewRow.attempt = 0 /\ NewRow.maxAttempts = MaxAttempts /\ NewRow.lockedBy = NoWorker
  BY DEF NewRow, QueuedRow
<1>4. 0 < Allowance /\ 0 <= Allowance /\ MaxAttempts <= Allowance
  <2> DEFINE granted == retries - Cardinality(Pending)
  <2>1. granted \in Nat /\ MaxAttempts \in Nat \ {0} /\ faults \in Nat /\ overruns \in Nat
    BY <1>2, AllowanceType, EngineAssumption DEF EngineAssumption, BudgetInv
  <2>2. 1 + retries - Cardinality(Pending) = 1 + granted
    BY AllowanceType
  <2>3. Allowance = MaxAttempts * (1 + granted) + faults + overruns
    BY <2>2 DEF Allowance
  <2> HIDE DEF granted
  <2>4. \A m, n \in Nat : m * (1 + n) = m + m * n /\ m * n \in Nat
    OBVIOUS
  <2>5. MaxAttempts * (1 + granted) = MaxAttempts + MaxAttempts * granted
        /\ MaxAttempts * granted \in Nat
    BY <2>1, <2>4
  <2> QED BY <2>1, <2>3, <2>5
<1>5. CountsBounded'
  BY <1>1, <1>2, <1>3, <1>4 DEF BudgetInv, CountsBounded
<1>6. \A w \in Workers : Owns(w)' <=> Owns(w) /\ worker[w].job # j
  <2> SUFFICES ASSUME NEW w \in Workers, worker[w].pc \in Active
               PROVE  Owns(w)' <=> Owns(w) /\ worker[w].job # j
    BY <1>2 DEF Owns
  <2>1. worker[w].job \in Jobs
    BY CountsType DEF BudgetOK, TableOK
  <2>2. jobs[j].lockedBy # w
    BY EngineAssumption DEF EngineAssumption, Enqueue, BudgetOK, TableOK, NoRowStuck, RowCoherent
  <2> QED BY <1>2, <1>3, <2>1, <2>2 DEF Owns, MyRow
<1>7. RoomToClaim'
  BY <1>1, <1>2, <1>3, <1>4, <1>6 DEF BudgetInv, RoomToClaim
<1>8. OwnersCount'
  <2> SUFFICES ASSUME NEW w \in Workers, Owns(w)'
               PROVE  MyRow(w)'.attempt = worker'[w].attempt
                      /\ MyRow(w)'.maxAttempts = worker'[w].budget
    BY DEF OwnersCount
  <2>1. Owns(w) /\ worker[w].job # j /\ worker[w].job \in Jobs
    BY <1>6, CountsType DEF Owns, BudgetOK, TableOK
  <2> QED BY <1>2, <2>1 DEF BudgetInv, OwnersCount, MyRow
<1> QED BY <1>1, <1>2, <1>5, <1>7, <1>8 DEF BudgetInv

LEMMA BudgetElapse ==
    ASSUME BudgetOK, Elapse
    PROVE  BudgetInv'
<1> DEFINE overrun == \E w \in Workers : Owns(w) /\ MyRow(w).lease = 0
<1>1. /\ jobs' = [j \in Jobs |-> Aged(jobs[j])]
      /\ UNCHANGED <<worker, retrier, faults, retries>>
      /\ overruns' = IF overrun THEN overruns + 1 ELSE overruns
      /\ BudgetInv
  BY DEF Elapse, BudgetOK
<1>2. \A j \in Jobs : /\ jobs'[j].state = jobs[j].state /\ jobs'[j].lockedBy = jobs[j].lockedBy
                      /\ jobs'[j].attempt = jobs[j].attempt
                      /\ jobs'[j].maxAttempts = jobs[j].maxAttempts
                      /\ jobs'[j].lease = Expired => jobs[j].lease = Expired \/ jobs[j].lease = 0
                      /\ jobs[j].attempt \in Nat /\ jobs[j].attempt <= Allowance
                      /\ jobs[j].maxAttempts \in Nat /\ jobs[j].maxAttempts <= Allowance
  <2> SUFFICES ASSUME NEW j \in Jobs
               PROVE  /\ jobs'[j].state = jobs[j].state /\ jobs'[j].lockedBy = jobs[j].lockedBy
                      /\ jobs'[j].attempt = jobs[j].attempt
                      /\ jobs'[j].maxAttempts = jobs[j].maxAttempts
                      /\ jobs'[j].lease = Expired => jobs[j].lease = Expired \/ jobs[j].lease = 0
                      /\ jobs[j].attempt \in Nat /\ jobs[j].attempt <= Allowance
                      /\ jobs[j].maxAttempts \in Nat /\ jobs[j].maxAttempts <= Allowance
    OBVIOUS
  <2>1. jobs[j] \in JobRow /\ jobs'[j] = Aged(jobs[j])
    BY <1>1, MyCounts DEF BudgetOK, TableOK, TypeOK
  <2>2. /\ jobs[j].attempt \in Nat /\ jobs[j].attempt <= Allowance
        /\ jobs[j].maxAttempts \in Nat /\ jobs[j].maxAttempts <= Allowance
    BY <1>1, CountsType DEF BudgetOK, TableOK, BudgetInv, CountsBounded
  <2> QED BY <2>1, <2>2 DEF Aged, JobRow
<1>3. /\ \A w \in Workers : Owns(w)' <=> Owns(w)
      /\ \A w \in Workers : worker[w].pc \in Active => worker[w].job \in Jobs
  BY <1>1, <1>2, CountsType DEF BudgetOK, TableOK, Owns, MyRow
<1>4. OwnersCount'
  BY <1>1, <1>2, <1>3 DEF BudgetInv, OwnersCount, MyRow, Owns
<1>5. /\ \A w \in Workers : /\ \A c \in worker[w].cand : c.attempt \in Nat /\ c.attempt < Allowance
                            /\ worker[w].attempt \in Nat
                            /\ worker[w].pc \in Active => worker[w].attempt <= Allowance
      /\ \A r \in Pending : retrier[r].attempt \in Nat /\ retrier[r].attempt <= Allowance
  BY <1>1, CountsType DEF BudgetOK, TableOK, BudgetInv, CountsBounded, Pending
<1> SUFFICES CountsBounded' /\ RoomToClaim' /\ Pending' = Pending
  BY <1>1, <1>4 DEF BudgetInv
<1>6. CASE overrun
  <2>1. Allowance' = Allowance + 1 /\ Pending' = Pending /\ Allowance \in Nat
    BY <1>1, <1>6, AllowanceGrows, AllowanceType
  <2>2. \A n \in Nat : n <= Allowance \/ n < Allowance => n < Allowance' /\ n <= Allowance'
    BY <2>1
  <2>3. \A w \in Workers : \A c \in worker'[w].cand : c.attempt < Allowance'
    BY <1>1, <1>5, <2>2
  <2>4. /\ \A w \in Workers : worker'[w].pc \in Active => worker'[w].attempt <= Allowance'
        /\ \A r \in Pending' : retrier'[r].attempt <= Allowance'
    BY <1>1, <1>5, <2>1, <2>2
  <2>5. \A j \in Jobs : /\ jobs'[j].attempt < Allowance' /\ jobs'[j].attempt <= Allowance'
                        /\ jobs'[j].maxAttempts <= Allowance'
    BY <1>2, <2>2
  <2> QED BY <2>1, <2>3, <2>4, <2>5 DEF CountsBounded, RoomToClaim
<1>7. CASE ~overrun
  <2>1. Allowance' = Allowance /\ Pending' = Pending
    BY <1>1, <1>7, AllowanceSame
  <2>2. CountsBounded'
    BY <1>1, <1>2, <2>1 DEF BudgetInv, CountsBounded
  <2>3. RoomToClaim'
    <3> SUFFICES ASSUME NEW j \in Jobs,
                        \/ jobs'[j].state \in {"queued", "retrying"}
                        \/ /\ jobs'[j].state = "running"
                           /\ jobs'[j].lease = Expired
                              \/ \A w \in Workers : Owns(w)' => worker'[w].job # j
                 PROVE  jobs'[j].attempt < Allowance
      BY <2>1 DEF RoomToClaim
    <3>1. jobs[j].lease = 0 => \A w \in Workers : Owns(w) => worker[w].job # j
      BY <1>7 DEF MyRow
    <3>2. jobs'[j].lease = Expired =>
             jobs[j].lease = Expired \/ \A w \in Workers : Owns(w) => worker[w].job # j
      BY <1>2, <3>1
    <3>3. (\A w \in Workers : Owns(w)' => worker'[w].job # j)
            => \A w \in Workers : Owns(w) => worker[w].job # j
      BY <1>1, <1>3
    <3>4. jobs'[j].state = jobs[j].state /\ jobs'[j].attempt = jobs[j].attempt
      BY <1>2
    <3> QED BY <1>1, <3>2, <3>3, <3>4 DEF BudgetInv, RoomToClaim
  <2> QED BY <2>1, <2>2, <2>3
<1> QED BY <1>6, <1>7

-----------------------------------------------------------------------------
(* The theorem.                                                            *)

LEMMA BudgetInit == Init => BudgetInv
<1> SUFFICES ASSUME Init PROVE BudgetInv
  OBVIOUS
<1>1. Pending = {}
  BY DEF Init, IdleRequest, Pending
<1>2. /\ IsFiniteSet(Pending) /\ Cardinality(Pending) = 0 /\ retries = 0
      /\ faults = 0 /\ overruns = 0
  BY <1>1, FS_EmptySet DEF Init
<1>3. MaxAttempts \in Nat \ {0} /\ Allowance = MaxAttempts
  <2>1. 1 + retries - Cardinality(Pending) = 1 /\ MaxAttempts \in Nat \ {0}
    BY <1>2, EngineAssumption DEF EngineAssumption
  <2> QED BY <1>2, <2>1 DEF Allowance
<1>4. /\ \A j \in Jobs : jobs[j] = AbsentRow
      /\ \A w \in Workers : worker[w].pc = "idle" /\ worker[w].cand = {}
  BY DEF Init, AtRest
<1>5. CountsBounded
  BY <1>1, <1>3, <1>4 DEF CountsBounded, AbsentRow
<1>6. RoomToClaim /\ OwnersCount
  BY <1>4 DEF RoomToClaim, OwnersCount, Owns, AbsentRow
<1> QED BY <1>2, <1>5, <1>6 DEF BudgetInv

LEMMA BudgetStep == BudgetOK /\ [Next]_vars => BudgetOK'
<1> SUFFICES ASSUME BudgetOK, [Next]_vars PROVE BudgetInv'
  BY TableStep DEF BudgetOK
<1>1. ASSUME NEW w \in Workers, TickStep(w) PROVE BudgetInv'
  BY <1>1, BudgetLocal, BudgetWrites, BudgetClaims DEF TickStep
<1>2. ASSUME NEW w \in Workers, TickFault(w) PROVE BudgetInv'
  BY <1>2, BudgetFaults
<1>3. ASSUME NEW r \in Retriers, RetryWrite(r) \/ \E j \in Jobs : RetryRead(r, j) PROVE BudgetInv'
  BY <1>3, BudgetRetryRead, BudgetRetryWrite
<1>4. ASSUME NEW j \in Jobs, Enqueue(j) PROVE BudgetInv'
  BY <1>4, BudgetEnqueue
<1>5. CASE Elapse
  BY <1>5, BudgetElapse
<1>6. CASE UNCHANGED vars
  BY <1>6 DEF BudgetOK, BudgetInv, CountsBounded, RoomToClaim, OwnersCount, Pending, Allowance,
     Owns, MyRow, vars
<1> QED BY <1>1, <1>2, <1>3, <1>4, <1>5, <1>6 DEF Next

\* What every remembered budget, stale candidate and overrun claim may still add to a row's
\* attempts stays within the retries and faults there were.
THEOREM BudgetInvariant == Spec => []BudgetOK
<1>1. Init => BudgetOK
  BY TypeInit, CoherentInit, BudgetInit DEF BudgetOK, TableOK
<1> QED BY <1>1, BudgetStep, PTL DEF Spec

\* However stale the counts its claims go by, a job starts at most MaxAttempts attempts for its
\* enqueue and for each manual retry, and one more for each fault or overrun.
THEOREM AttemptsBounded == Spec => []AttemptBudget
<1>1. BudgetOK => AttemptBudget
  <2> SUFFICES ASSUME BudgetOK, NEW j \in Jobs
               PROVE  jobs[j].attempt <= MaxAttempts * (1 + retries) + faults + overruns
    BY DEF AttemptBudget
  <2> DEFINE pending == Cardinality(Pending)
             granted == 1 + retries - pending
  <2>1. /\ MaxAttempts \in Nat /\ pending \in Nat /\ granted \in Nat /\ retries \in Nat
        /\ faults \in Nat /\ overruns \in Nat /\ jobs[j].attempt \in Nat
        /\ jobs[j].attempt <= MaxAttempts * granted + faults + overruns
        /\ 1 + retries = granted + pending
    BY AllowanceType, CountsType, EngineAssumption
       DEF EngineAssumption, BudgetOK, TableOK, BudgetInv, CountsBounded, Allowance
  <2> HIDE DEF granted, pending
  <2>2. \A m, g, p \in Nat : m * (g + p) = m * g + m * p /\ m * g \in Nat /\ m * p \in Nat
    OBVIOUS
  <2>3. /\ MaxAttempts * (1 + retries) = MaxAttempts * granted + MaxAttempts * pending
        /\ MaxAttempts * granted \in Nat /\ MaxAttempts * pending \in Nat
    BY <2>1, <2>2
  <2> QED BY <2>1, <2>3
<1> QED BY <1>1, BudgetInvariant, PTL
=============================================================================
