--------------------------- MODULE Investigation ---------------------------
(***************************************************************************)
(* The five phases of an incident investigation (lib/agent-investigate.ts, *)
(* functions/_shared/investigate-store.ts) next to the webhook that keeps  *)
(* writing the same incidents and evidence (DatadogIncidents).             *)
(*                                                                         *)
(* The job around the phases is reduced to what the executor sees of it: a *)
(* phase that throws or is killed is run again, from its first statement,  *)
(* until the budget is spent (module JobEngine).                           *)
(***************************************************************************)
EXTENDS DatadogIncidents, ModelCall, SequencesExt

CONSTANTS
    Ticks,          \* worker ticks that execute investigations
    KeySets,        \* sets of evidence keys a hypothesis may cite, invented ones included
    MaxFacts,       \* rows offered to the model (20 in the code)
    MaxAttempts     \* attempt budget of a job

ASSUME InvestigationAssumption ==
    /\ MaxAttempts \in Nat \ {0} /\ MaxFacts \in Nat \ {0}
    /\ KeySets \subseteq SUBSET Nat

VARIABLES
    job,            \* investigation jobs by incident: state, phase reached, attempts
    gathered,       \* evidence_items the job collected, by incident
    correlated,     \* the incidents' correlated changes
    call,           \* ai_model_calls of the job
    output,         \* the persisted model output, with the facts the model was shown
    hypotheses,     \* the hypotheses of the incidents
    tick            \* local state of each executor

invVars == <<job, gathered, correlated, call, output, hypotheses, tick>>
allVars == <<vars, invVars>>
webhookVars == <<deliveries, handler, sent, overlapped, evidence, jobs>>

Phases == <<"triage", "gather_signals", "correlate", "hypotheses", "summarize">>

\* The evidence rows that a job can gather, by subject key.  (The trace and the logs are
\* gathered alike: one signal.)  Telemetry that is missing leaves a row of its own,
\* verified by nobody.
Commit == <<"commit", 0>>
Signal == <<"signal", 0>>
Telemetry == <<"telemetry", 0>>
Unavailable == <<"telemetry", 1>>

IdleTick == [pc |-> "idle", inc |-> 0, facts |-> <<>>, answer |-> <<>>, seen |-> {}]

-----------------------------------------------------------------------------
(* Facts and hypotheses.                                                   *)

\* (Mutant) Every row is a fact.
EveryRow(i) == gathered[i] \cup {k \in Keys : evidence[i, k] > 0}

\* The citable rows of an incident: the alerts and what was gathered, verified ones only.
Verified(i) == (gathered[i] \ {Unavailable}) \cup {k \in Keys : evidence[i, k] > 0}

\* Commits were observed before the alert, signals of the service are read after it.
ObservedAt(f) ==
    CASE f = Commit -> 0
      [] f \in Keys -> f[2]
      [] f = Signal -> 100
      [] f = Telemetry -> 101
      [] f = Unavailable -> 102

\* The rows in the order of their observation; of two observed at once either may be first.
OldestFirst(rows) ==
    {s \in SetToSeqs(rows) :
        \A m, n \in DOMAIN s : m < n => ObservedAt(s[m]) <= ObservedAt(s[n])}

\* loadEvidenceFacts: the oldest rows, the n-th offered to the model as key "En".
LoadFacts(i) ==
    {SubSeq(s, 1, IF Len(s) < MaxFacts THEN Len(s) ELSE MaxFacts) : s \in OldestFirst(Verified(i))}

\* A model answer: a hypothesis, none at all, an object that fails the schema, or prose
\* (a truncated object, say).
Other(kind) == [kind |-> kind, keys |-> {}, confidence |-> "low"]
Answers == [kind : {"ranked"}, keys : KeySets, confidence : {"high"}]
              \cup {Other("empty"), Other("invalid"), Other("prose")}

\* The keys are resolved against the facts the model was shown; invented ones are dropped.
Cited(answer, facts) == {facts[n] : n \in answer.keys \cap DOMAIN facts}

TfAvailable(facts) == \E n \in DOMAIN facts : facts[n] = Telemetry

\* (Mutant) The model's confidence is taken as it is.
SelectUncapped(answer, facts) ==
    [cites |-> Cited(answer, facts), confidence |-> answer.confidence,
     telemetry |-> TfAvailable(facts)]

\* selectHypotheses: high confidence needs a cited fact; no hypothesis becomes the
\* inconclusive one.  The summary notes when no telemetry was available.
Select(answer, facts) ==
    LET cites == Cited(answer, facts)
    IN [cites |-> cites,
        confidence |-> IF answer.confidence = "high" /\ cites = {} THEN "likely"
                       ELSE answer.confidence,
        telemetry |-> TfAvailable(facts)]

-----------------------------------------------------------------------------
(* The job around a phase.                                                 *)

Mine(t) == tick[t].inc

Resume(t, pc) == tick' = [tick EXCEPT ![t].pc = pc]

\* The first statement of a phase; a resumed phase starts over.
Enter(i, phase) == [IdleTick EXCEPT !.pc = Phases[phase], !.inc = i]

\* A tick claims the job of an incident, a killed run's after its lease.
Claim(t, i) ==
    /\ tick[t].pc = "idle" /\ i \in jobs /\ job[i].state = "runnable"
    /\ \A u \in Ticks : Mine(u) # i
    /\ job' = [job EXCEPT ![i].attempt = @ + 1]
    /\ tick' = [tick EXCEPT ![t] = Enter(i, job[i].phase)]
    /\ UNCHANGED <<vars, gathered, correlated, call, output, hypotheses>>

\* The checkpoint after a phase: the next one, or the job has succeeded.
PhaseDone(t) ==
    LET i == Mine(t) IN
    /\ tick[t].pc = "done"
    /\ IF job[i].phase = Len(Phases)
       THEN /\ job' = [job EXCEPT ![i].state = "succeeded"]
            /\ tick' = [tick EXCEPT ![t] = IdleTick]
       ELSE /\ job' = [job EXCEPT ![i].phase = @ + 1]
            /\ tick' = [tick EXCEPT ![t] = Enter(i, job[i].phase + 1)]
    /\ UNCHANGED <<vars, gathered, correlated, call, output, hypotheses>>

\* A retryable error: another attempt while the budget lasts.
Throw(t) ==
    /\ job' = [job EXCEPT ![Mine(t)].state =
                 IF job[Mine(t)].attempt < MaxAttempts THEN "runnable" ELSE "failed"]
    /\ tick' = [tick EXCEPT ![t] = IdleTick]

\* An error that no retry would help: the job has failed.
Refuse(t) ==
    /\ job' = [job EXCEPT ![Mine(t)].state = "failed"]
    /\ tick' = [tick EXCEPT ![t] = IdleTick]

-----------------------------------------------------------------------------
(* The phases.                                                             *)

\* The incident is there: jobs are only enqueued for existing ones, which are never
\* deleted.
LoadIncident(t) == Mine(t) \in DOMAIN incidents

Triage(t) ==
    /\ tick[t].pc = "triage" /\ LoadIncident(t)
    /\ Resume(t, "done")
    /\ UNCHANGED <<vars, job, gathered, correlated, call, output, hypotheses>>

\* Behind the unique (job, subject key) a row that is there stays.
InsertEvidence(t, rows) == gathered' = [gathered EXCEPT ![Mine(t)] = @ \cup rows]

\* A read gathers nothing when it throws (safe() degrades it): the server is not the
\* registered read-only one, the tool is not on its allowlist, the provider is down.
Safe(reads) == {{}} \cup reads

\* The repository whose service map names the service, or else the primary one.
LoadRepo == {"none", "repository"}

\* The answer may be no list of commits, or an empty one.
ParsedCommits == {{}, {Commit}}

RecentCommits(repo) == IF repo = "none" THEN {{}} ELSE Safe(ParsedCommits)

GatherCommits(t) ==
    /\ tick[t].pc = "gather_signals"
    /\ \E repo \in LoadRepo : \E found \in RecentCommits(repo) : InsertEvidence(t, found)
    /\ Resume(t, "gather_datadog")
    /\ UNCHANGED <<vars, job, correlated, call, output, hypotheses>>

\* The alert's trace and the service's error logs, as far as they can be read.
ParsedLogs == {{}, {Signal}}

DatadogFacts == Safe(ParsedLogs)

GatherSignals(t) ==
    /\ tick[t].pc = "gather_datadog"
    /\ \E found \in DatadogFacts : InsertEvidence(t, found)
    /\ Resume(t, "gather_telemetry")
    /\ UNCHANGED <<vars, job, correlated, call, output, hypotheses>>

\* What the answer of one TrueFoundry tool parses to: a fact, or nothing when it is an
\* error, unreadable, empty or counts zero requests.
TelemetryFact == {{}, {Telemetry}}

\* Model metrics, MCP metrics and request logs, each only when its tool is on the server.
TruefoundryFacts ==
    {models \cup requests \cup logs :
        models \in TelemetryFact, requests \in TelemetryFact, logs \in TelemetryFact}

GatherTelemetry(t) ==
    /\ tick[t].pc = "gather_telemetry"
    /\ \E found \in TruefoundryFacts :
          InsertEvidence(t, IF found = {} THEN {Unavailable} ELSE found)
    /\ Resume(t, "done")
    /\ UNCHANGED <<vars, job, correlated, call, output, hypotheses>>

\* The commits that this job collected.
LoadCommitEvidence(t) == gathered[Mine(t)] \cap {Commit}

WriteCorrelatedChanges(t, changes) ==
    correlated' = [correlated EXCEPT ![Mine(t)] = changes]

Correlate(t) ==
    /\ tick[t].pc = "correlate"
    /\ WriteCorrelatedChanges(t, LoadCommitEvidence(t))
    /\ Resume(t, "done")
    /\ UNCHANGED <<vars, job, gathered, call, output, hypotheses>>

\* (Mutant) A resumed phase asks again.
AskAgain(t) ==
    /\ tick[t].pc = "hypotheses"
    /\ \E facts \in LoadFacts(Mine(t)) :
          tick' = [tick EXCEPT ![t].pc = "invoke", ![t].facts = facts]
    /\ UNCHANGED <<vars, job, gathered, correlated, call, output, hypotheses>>

\* An earlier run has persisted the model's output.
HasOutput(t) == output[Mine(t)] # <<>>

\* hypotheses: nothing to do when there is an output; otherwise the facts are read for
\* the prompt.
Ask(t) ==
    /\ tick[t].pc = "hypotheses"
    /\ \/ HasOutput(t) /\ Resume(t, "done")
       \/ /\ ~ HasOutput(t)
          /\ \E facts \in LoadFacts(Mine(t)) :
                tick' = [tick EXCEPT ![t].pc = "invoke", ![t].facts = facts]
    /\ UNCHANGED <<vars, job, gathered, correlated, call, output, hypotheses>>

\* The gateway answers, with a stream that is complete.
Invoke(t) ==
    /\ tick[t].pc = "invoke"
    /\ \E answer \in Answers :
          tick' = [tick EXCEPT ![t].pc = "save_call", ![t].answer = <<answer>>]
    /\ UNCHANGED <<vars, job, gathered, correlated, call, output, hypotheses>>

\* The gateway fails, which a timeout, a cut stream, a rate limit or an outage may remedy
\* and a refused request not: the call is recorded before the error is thrown, whatever
\* became of the row before, and an error of the record itself is swallowed.
InvokeFails(t) ==
    /\ tick[t].pc = "invoke" /\ faults < MaxFaults
    /\ faults' = faults + 1
    /\ call' \in {call, [call EXCEPT ![Mine(t)] = SavedCall(@, Failed)]}
    /\ Throw(t) \/ Refuse(t)
    /\ UNCHANGED <<webhookVars, incidents, gathered, correlated, output, hypotheses>>

SaveCall(t) ==
    /\ tick[t].pc = "save_call"
    /\ call' = [call EXCEPT ![Mine(t)] =
                  SavedCall(@, Succeeded([answer |-> tick[t].answer[1], shown |-> tick[t].facts]))]
    /\ Resume(t, "save_output")
    /\ UNCHANGED <<vars, job, gathered, correlated, output, hypotheses>>

\* (Mutant) The keys are resolved against the evidence of the moment.
OutputAlone(t) ==
    [answer |-> Validated(tick[t].answer[1], Other("empty")),
     facts |-> CHOOSE facts \in LoadFacts(Mine(t)) : TRUE]

\* The output and the facts the model was shown, which its keys refer to.
OutputOf(t) ==
    [answer |-> Validated(tick[t].answer[1], Other("empty")), facts |-> tick[t].facts]

\* Behind the unique (job, subject key) a second output is dropped.
SaveOutput(t) ==
    /\ tick[t].pc = "save_output"
    /\ output' = [output EXCEPT ![Mine(t)] = IF @ = <<>> THEN <<OutputOf(t)>> ELSE @]
    /\ Resume(t, "done")
    /\ UNCHANGED <<vars, job, gathered, correlated, call, hypotheses>>

\* summarize reads the output and then the columns it will write back.
ReadIncident(t) ==
    /\ tick[t].pc = "summarize"
    /\ IF ~ HasOutput(t) THEN Throw(t)
       ELSE /\ tick' = [tick EXCEPT ![t].pc = "write_back",
                                    ![t].seen = incidents[Mine(t)].timeline]
            /\ UNCHANGED job
    /\ UNCHANGED <<vars, gathered, correlated, call, output, hypotheses>>

\* A finding of the same title gives way to the new one.
AppendFinding(timeline) == timeline \cup {Finding}

\* The output and the facts that it refers to, as they were saved.
LoadOutput(t) == output[Mine(t)][1]

\* The hypotheses, and the timeline as it was read.
WriteHypotheses(t) ==
    LET i == Mine(t)
        loaded == LoadOutput(t) IN
    /\ tick[t].pc = "write_back"
    /\ hypotheses' = [hypotheses EXCEPT ![i] = {Select(loaded.answer, loaded.facts)}]
    /\ incidents' = [incidents EXCEPT ![i].timeline = AppendFinding(tick[t].seen)]
    /\ Resume(t, "done")
    /\ UNCHANGED <<webhookVars, faults, job, gathered, correlated, call, output>>

\* A statement fails with a retryable error, or the function is killed.
PhaseFails(t) ==
    /\ tick[t].pc # "idle" /\ faults < MaxFaults
    /\ faults' = faults + 1
    /\ \/ Throw(t)
       \/ tick' = [tick EXCEPT ![t] = IdleTick] /\ UNCHANGED job
    /\ UNCHANGED <<webhookVars, incidents, gathered, correlated, call, output, hypotheses>>

-----------------------------------------------------------------------------

InvInit ==
    /\ Init
    /\ job = [i \in Rows |-> [state |-> "runnable", phase |-> 1, attempt |-> 0]]
    /\ gathered = [i \in Rows |-> {}]
    /\ correlated = [i \in Rows |-> {}]
    /\ call = [i \in Rows |-> NoCall]
    /\ output = [i \in Rows |-> <<>>]
    /\ hypotheses = [i \in Rows |-> {}]
    /\ tick = [t \in Ticks |-> IdleTick]

Execute(t) ==
    \/ \E i \in Rows : Claim(t, i)
    \/ PhaseDone(t) \/ Triage(t) \/ Correlate(t)
    \/ GatherCommits(t) \/ GatherSignals(t) \/ GatherTelemetry(t)
    \/ Ask(t) \/ Invoke(t) \/ InvokeFails(t) \/ SaveCall(t) \/ SaveOutput(t)
    \/ ReadIncident(t) \/ WriteHypotheses(t) \/ PhaseFails(t)

InvNext ==
    \/ Next /\ UNCHANGED invVars
    \/ \E t \in Ticks : Execute(t)

InvSpec == InvInit /\ [][InvNext]_allVars

-----------------------------------------------------------------------------
(* Properties.                                                             *)

\* The audit row of the call is the call whose output is kept: what the console shows as
\* the model's answer is what the gateway is recorded to have answered, to the same facts
\* (agent-investigate.ts:391-395), through failures and resumptions.
AuditMatchesOutput ==
    \A i \in Rows : output[i] # <<>> =>
        /\ call[i].status = "succeeded"
        /\ output[i][1] = [answer |-> Validated(call[i].answer[1].answer, Other("empty")),
                           facts  |-> call[i].answer[1].shown]

\* A hypothesis cites what the model was shown under the keys of its answer, however the
\* evidence grew meanwhile, and only verified rows (agent-investigate.ts:403-404).
CitationsAreTrue ==
    \A i \in Rows : \A hyp \in hypotheses[i] :
        /\ hyp.cites \subseteq (gathered[i] \ {Unavailable}) \cup {k \in Keys : evidence[i, k] > 0}
        /\ hyp.cites \subseteq
              LET shown == call[i].answer[1].shown IN
              {shown[n] : n \in call[i].answer[1].answer.keys \cap DOMAIN shown}

\* A completed investigation explains itself, is sure only of what it can cite, and says
\* that telemetry was missing only where none was gathered (agent-investigate.ts:333-335).
\* The last holds while the facts fit into the prompt.
CompletedIsExplained ==
    \A i \in Rows :
        /\ job[i].state = "succeeded" => hypotheses[i] # {}
        /\ \A hyp \in hypotheses[i] :
              /\ hyp.confidence = "high" => hyp.cites # {}
              /\ Cardinality(Verified(i)) <= MaxFacts /\ Telemetry \in gathered[i] => hyp.telemetry

\* A resumed investigation never pays for an answer it already has
\* (agent-investigate.ts:365, "don't re-bill the gateway").
NoRebilling ==
    [][\A t \in Ticks : tick[t].pc = "invoke" /\ tick'[t].pc # "invoke"
          => output[Mine(t)] = <<>>]_allVars

\* A recorded success is never downgraded (model-call-store.ts:95-97).
SuccessKept ==
    [][\A i \in Rows : call[i].status = "succeeded" => call'[i].status = "succeeded"]_allVars
-----------------------------------------------------------------------------
(* What makes them inductive.                                              *)

Facts == Keys \cup {Commit, Signal, Telemetry}

Calls == [answer : Answers, shown : Seq(Facts)]
Outputs == [answer : Answers, facts : Seq(Facts)]

\* The statements of each phase.
Statements ==
    <<{"triage"}, {"gather_signals", "gather_datadog", "gather_telemetry"}, {"correlate"},
      {"hypotheses", "invoke", "save_call", "save_output"}, {"summarize", "write_back"}>>

TickPcs == {"idle", "done"} \cup UNION {Statements[n] : n \in DOMAIN Phases}

\* Types of the executor's tables and of its local state.
InvTypeOK ==
    /\ job \in [Rows -> [state : {"runnable", "succeeded", "failed"},
                         phase : DOMAIN Phases, attempt : 0 .. MaxAttempts + MaxFaults]]
    /\ gathered \in [Rows -> SUBSET {Commit, Signal, Telemetry, Unavailable}]
    /\ correlated \in [Rows -> SUBSET {Commit}]
    /\ call \in [Rows -> [status : {"absent", "failed", "succeeded"},
                          answer : Seq(Calls)]]
    /\ output \in [Rows -> Seq(Outputs)]
    /\ hypotheses \in [Rows -> SUBSET [cites : SUBSET Facts, confidence : {"high", "likely", "low"},
                                       telemetry : BOOLEAN]]
    /\ tick \in [Ticks -> [pc : TickPcs, inc : {0} \cup jobs, facts : Seq(Facts),
                           answer : Seq(Answers), seen : SUBSET Entries]]

\* A job has one tick, and is not over while it has it.
OneTickPerJob ==
    /\ \A t, u \in Ticks : Mine(t) = Mine(u) /\ Mine(t) # 0 => t = u
    /\ \A t \in Ticks :
          IF tick[t].pc = "idle" THEN Mine(t) = 0
          ELSE Mine(t) # 0 /\ job[Mine(t)].state = "runnable"

\* Only a kill takes an attempt beyond the budget, and a job that waits has one left.
AttemptsOK ==
    \A i \in Rows :
        /\ job[i].attempt <= MaxAttempts + faults
        /\ job[i].state = "runnable" /\ (\A t \in Ticks : Mine(t) # i) =>
              job[i].attempt < MaxAttempts + faults

\* Facts shown to the model are rows of the incident, each shown once, telemetry among them
\* if there is any and the prompt is not full.
ShownOK(facts, i) ==
    /\ \A n \in DOMAIN facts : facts[n] \in Verified(i)
    /\ \A m, n \in DOMAIN facts : facts[m] = facts[n] => m = n
    /\ Telemetry \in gathered[i] => TfAvailable(facts) \/ Len(facts) = MaxFacts

\* A tick in its phase; one that asks the model does so for the first output of its job, and
\* saves it beside the call it came from.
PlaceOK(t) ==
    LET i == Mine(t)
        row == tick[t] IN
    /\ row.pc \in Statements[job[i].phase] \cup {"done"}
    /\ row.pc \in {"invoke", "save_call", "save_output"} =>
          output[i] = <<>> /\ ShownOK(row.facts, i)
    /\ row.pc \in {"save_call", "save_output"} => row.answer # <<>>
    /\ row.pc = "save_output" =>
          call[i] = Succeeded([answer |-> row.answer[1], shown |-> row.facts])
    /\ row.pc = "done" /\ job[i].phase = 4 => output[i] # <<>>
    /\ row.pc = "done" /\ job[i].phase = 5 => hypotheses[i] # {}

\* What a job has by the time it reaches a phase, and that its hypotheses are those of its
\* output.
ResultsOK(i) ==
    /\ job[i].phase = 5 => output[i] # <<>>
    /\ output[i] # <<>> => job[i].phase >= 4 /\ ShownOK(output[i][1].facts, i)
    /\ job[i].state = "succeeded" => hypotheses[i] # {}
    /\ \A hyp \in hypotheses[i] :
          output[i] # <<>> /\ hyp = Select(output[i][1].answer, output[i][1].facts)

InvestigationInv ==
    /\ IncidentsInv /\ InvTypeOK
    /\ OneTickPerJob /\ AttemptsOK
    /\ \A t \in Ticks : Mine(t) = 0 \/ PlaceOK(t)
    /\ \A i \in Rows : ResultsOK(i)
    /\ AuditMatchesOutput
=============================================================================
