----------------------------- MODULE Viability -----------------------------
(***************************************************************************)
(* A seeded investigation: the job whose phases are turns of the model and *)
(* scripted tool calls (lib/agent.ts), each recorded once (createWorkStore *)
(* in functions/_shared/agent-runtime.ts), and whose incident is finalized *)
(* when it has succeeded (lib/worker.ts).  Its ticks signal every failed   *)
(* attempt (Telemetry).                                                    *)
(*                                                                         *)
(* A lease outlasts a phase: a running row is taken up again only after    *)
(* its tick is gone.                                                       *)
(***************************************************************************)
EXTENDS Telemetry, Sequences

VARIABLES
    job,        \* the row: state, attempt_count, phases completed
    tick,       \* local state of each tick
    records,    \* the ai_model_calls and evidence_items of the job
    worked,     \* how often a turn was completed or a tool called
    unrecorded, \* and how often its result was lost before it was recorded
    finalized   \* the incident has its closing entry

jobVars == <<job, tick, records, worked, unrecorded, finalized>>
vars == <<telemetryVars, faults, jobVars>>

\* What each phase leaves: a turn of the model, or evidence from two tools.
Plan == <<<<"triage">>, <<"github", "datadog">>, <<"correlate">>, <<"hypotheses">>, <<"summarize">>>>

Tools == {"github", "datadog"}
Artifacts == UNION {{Plan[p][i] : i \in DOMAIN Plan[p]} : p \in DOMAIN Plan}

Idle == [pc |-> "idle", kind |-> "due", attempt |-> 0, at |-> 1]

Step(t) == Plan[job.done + 1][tick[t].at]
AtStep(t, pc) == tick[t].pc = pc
Executing == {t \in Ticks : tick[t].pc \notin {"idle", "claim", "finalize"}}
Rest(t) == tick' = [tick EXCEPT ![t] = Idle]

-----------------------------------------------------------------------------
(* Taking the job.                                                         *)

Claimable(kind) ==
    IF kind = "due" THEN job.state \in {"queued", "retrying"}
    ELSE job.state = "running" /\ Executing = {}

\* The attempts are counted from the row as it was selected.
Select(t) ==
    /\ AtStep(t, "idle") /\ sender[t].pc = "quiet"
    /\ \E kind \in {"due", "abandoned"} :
          /\ Claimable(kind)
          /\ tick' = [tick EXCEPT ![t] = [Idle EXCEPT !.pc = "claim", !.kind = kind,
                                          !.attempt = job.attempt + 1]]
    /\ UNCHANGED <<telemetryVars, faults, job, records, worked, unrecorded, finalized>>

Claim(t) ==
    /\ AtStep(t, "claim")
    /\ IF Claimable(tick[t].kind)
       THEN /\ job' = [job EXCEPT !.state = "running", !.attempt = tick[t].attempt]
            /\ tick' = [tick EXCEPT ![t].pc = IF job.done = Len(Plan) THEN "finish" ELSE "has"]
       ELSE Rest(t) /\ UNCHANGED job
    /\ UNCHANGED <<telemetryVars, faults, records, worked, unrecorded, finalized>>

-----------------------------------------------------------------------------
(* A phase.                                                                *)

\* On to the phase's next turn or tool, or to its checkpoint.
Proceed(t) ==
    IF tick[t].at < Len(Plan[job.done + 1])
    THEN tick' = [tick EXCEPT ![t].pc = "has", ![t].at = tick[t].at + 1]
    ELSE tick' = [tick EXCEPT ![t].pc = "checkpoint"]

\* (Mutant) Nothing is looked up before it is done.
NeverRecorded(a) == FALSE

\* hasModelCall, hasEvidence: a phase that is entered again skips what it recorded.
Recorded(a) == a \in records

LookUp(t) ==
    /\ AtStep(t, "has")
    /\ IF Recorded(Step(t)) THEN Proceed(t) ELSE tick' = [tick EXCEPT ![t].pc = "work"]
    /\ UNCHANGED <<telemetryVars, faults, job, records, worked, unrecorded, finalized>>

\* The gateway completes the turn, or the tool answers.
Work(t) ==
    /\ AtStep(t, "work")
    /\ worked' = [worked EXCEPT ![Step(t)] = @ + 1]
    /\ tick' = [tick EXCEPT ![t].pc = "record"]
    /\ UNCHANGED <<telemetryVars, faults, job, records, unrecorded, finalized>>

\* A second row for the same job and purpose is refused and taken for the first.
Record(t) ==
    /\ AtStep(t, "record")
    /\ records' = records \cup {Step(t)}
    /\ Proceed(t)
    /\ UNCHANGED <<telemetryVars, faults, job, worked, unrecorded, finalized>>

\* The phase is done.  A tick whose phase budget is spent gives the rest back, and its
\* attempt with it.
Checkpoint(t) ==
    LET more == job.done + 1 < Len(Plan) IN
    /\ AtStep(t, "checkpoint")
    /\ \/ /\ job' = [job EXCEPT !.done = @ + 1]
          /\ tick' = [tick EXCEPT ![t].pc = IF more THEN "has" ELSE "finish", ![t].at = 1]
       \/ /\ more
          /\ job' = [state |-> "queued", attempt |-> tick[t].attempt - 1, done |-> job.done + 1]
          /\ Rest(t)
    /\ UNCHANGED <<telemetryVars, faults, records, worked, unrecorded, finalized>>

FinishSuccess(t) ==
    /\ AtStep(t, "finish")
    /\ job' = [job EXCEPT !.state = "succeeded"]
    /\ tick' = [tick EXCEPT ![t].pc = "finalize"]
    /\ UNCHANGED <<telemetryVars, faults, records, worked, unrecorded, finalized>>

\* The closing entry, written over the one a former finalization may have left; an error is
\* swallowed.
FinalizeIncident(t) ==
    /\ AtStep(t, "finalize")
    /\ \/ finalized' = TRUE /\ UNCHANGED faults
       \/ UNCHANGED finalized /\ faults < MaxFaults /\ faults' = faults + 1
    /\ Rest(t)
    /\ UNCHANGED <<telemetryVars, job, records, worked, unrecorded>>

-----------------------------------------------------------------------------
(* Failures.                                                               *)

StoreError == [retryable |-> TRUE, source |-> "worker", class |-> "other"]

\* An HTTP error of the gateway, a timeout, an unreachable gateway or a truncated stream.
GatewayErrors ==
    [retryable : {TRUE}, source : {"truefoundry"}, class : {"rate_limit", "other"}]
    \cup [retryable : {FALSE}, source : {"truefoundry"}, class : {"auth", "other"}]

\* The workspace has no TrueFoundry integration.
IntegrationMissing == [retryable |-> FALSE, source |-> "truefoundry", class |-> "other"]

\* The scripted tools answer always.
Errors(pc, a) ==
    CASE pc = "has" -> {StoreError}
      [] pc = "work" -> IF a \in Tools THEN {} ELSE GatewayErrors
      [] pc = "record" -> {StoreError} \cup (IF a \in Tools THEN {} ELSE {IntegrationMissing})
      [] pc = "checkpoint" -> {StoreError}

WillRetry(attempt, error) == error.retryable /\ attempt < MaxAttempts

\* The phase or its checkpoint throws: the failure is written, then signalled.  The tick's
\* own list of phases is ahead of a failed checkpoint and is written with the failure.  A
\* result that was not recorded is lost; one whose insert only went unanswered is not.
Fail(t) ==
    LET a == Step(t) IN
    /\ tick[t].pc \in {"has", "work", "record", "checkpoint"}
    /\ faults < MaxFaults /\ faults' = faults + 1
    /\ \E error \in Errors(tick[t].pc, a) :
          LET again == WillRetry(tick[t].attempt, error) IN
          /\ job' = [job EXCEPT !.state = IF again THEN "retrying" ELSE "failed",
                                !.done = IF tick[t].pc = "checkpoint" THEN @ + 1 ELSE @]
          /\ Emit(t, IF again THEN "retry" ELSE "error", tick[t].attempt, error)
          /\ \/ /\ tick[t].pc = "record"
                /\ unrecorded' = [unrecorded EXCEPT ![a] = @ + 1] /\ UNCHANGED records
             \/ /\ tick[t].pc = "record" /\ error # IntegrationMissing
                /\ records' = records \cup {a} /\ UNCHANGED unrecorded
             \/ tick[t].pc # "record" /\ UNCHANGED <<records, unrecorded>>
    /\ Rest(t)
    /\ UNCHANGED <<emission, counted, health, worked, finalized>>

\* The tick is killed: a running row keeps its lease for a while.
Crash(t) ==
    /\ tick[t].pc # "idle" \/ sender[t].pc # "quiet"
    /\ faults < MaxFaults /\ faults' = faults + 1
    /\ unrecorded' = IF AtStep(t, "record") THEN [unrecorded EXCEPT ![Step(t)] = @ + 1]
                     ELSE unrecorded
    /\ Rest(t) /\ Interrupted(t)
    /\ UNCHANGED <<job, records, worked, finalized>>

-----------------------------------------------------------------------------

Init ==
    /\ TelemetryInit
    /\ job = [state |-> "queued", attempt |-> 0, done |-> 0]
    /\ tick = [t \in Ticks |-> Idle]
    /\ records = {}
    /\ worked = [a \in Artifacts |-> 0] /\ unrecorded = worked
    /\ finalized = FALSE

Execute(t) ==
    \/ Select(t) \/ Claim(t) \/ LookUp(t) \/ Work(t) \/ Record(t) \/ Checkpoint(t)
    \/ FinishSuccess(t) \/ FinalizeIncident(t) \/ Fail(t) \/ Crash(t)
    \/ Send(t) /\ UNCHANGED jobVars

Next == \E t \in Ticks : Execute(t)

Spec == Init /\ [][Next]_vars

-----------------------------------------------------------------------------
(* Properties.                                                             *)

\* Resuming repeats neither a turn of the model nor a tool call, whatever failed and
\* whoever takes the job up again, except for a result that was lost before it was
\* recorded; and a completed phase has all of its records (agent.ts:85-91).
WorkDoneOnce ==
    /\ \A a \in Artifacts : worked[a] <= 1 + unrecorded[a]
    /\ \A p \in 1 .. job.done : \A i \in DOMAIN Plan[p] : Plan[p][i] \in records

-----------------------------------------------------------------------------
(* What makes the safety properties inductive.                             *)

TickState ==
    [pc : {"idle", "claim", "has", "work", "record", "checkpoint", "finish", "finalize"},
     kind : {"due", "abandoned"}, attempt : Nat, at : Nat]

\* Types of the row, of the ticks and of what they recorded.
TypeOK ==
    /\ TelemetryTypeOK
    /\ job \in [state : {"queued", "running", "retrying", "failed", "succeeded"},
                attempt : Nat, done : 0 .. Len(Plan)]
    /\ tick \in [Ticks -> TickState]
    /\ records \subseteq Artifacts
    /\ worked \in [Artifacts -> Nat] /\ unrecorded \in [Artifacts -> Nat]
    /\ finalized \in BOOLEAN

\* A running row has one tick at most, and a tick sends nothing while it has the row.
AloneAtWork ==
    /\ \A t, u \in Executing : t = u
    /\ Executing # {} => job.state = "running"
    /\ \A t \in Ticks : tick[t].pc # "idle" => sender[t].pc = "quiet"

\* Only a kill gives an attempt beyond the budget.
Budget == MaxAttempts + faults

Takeable == job.state \in {"queued", "retrying"} \/ (job.state = "running" /\ Executing = {})

AttemptsOK ==
    /\ job.attempt <= Budget /\ (Takeable => job.attempt < Budget)
    /\ \A t \in Ticks : AtStep(t, "claim") => tick[t].attempt \in 1 .. Budget /\ tick[t].at = 1
    /\ \A t \in Executing : tick[t].attempt = job.attempt /\ job.attempt > 0

\* Where a tick is in its phase: what comes before is recorded, what it works on is not.
PlaceOK(t) ==
    LET phase == Plan[job.done + 1] IN
    /\ AtStep(t, "finish") <=> job.done = Len(Plan)
    /\ tick[t].pc \in {"has", "work", "record"} =>
          tick[t].at \in DOMAIN phase /\ \A i \in 1 .. tick[t].at - 1 : phase[i] \in records
    /\ AtStep(t, "checkpoint") => \A i \in DOMAIN phase : phase[i] \in records
    /\ tick[t].pc \in {"work", "record"} => Step(t) \notin records

\* What was worked and not recorded is with the tick that is to record it, or lost.
NothingForgotten ==
    \A a \in Artifacts : \/ a \in records
                         \/ \E t \in Executing : AtStep(t, "record") /\ Step(t) = a
                         \/ worked[a] <= unrecorded[a]

ViabilityInv ==
    /\ TypeOK /\ SignalInv /\ SignalCountedOnce
    /\ AloneAtWork /\ AttemptsOK
    /\ (\A t \in Executing : PlaceOK(t)) /\ NothingForgotten /\ WorkDoneOnce
=============================================================================
