----------------------------- MODULE Telemetry -----------------------------
(***************************************************************************)
(* The reliability signals of a job's failed attempts: an audit row in     *)
(* telemetry_emissions and a metric and an event in Datadog, sent by the   *)
(* tick once the failure is written (lib/telemetry.ts, functions/_shared/  *)
(* telemetry-store.ts, datadog-client.ts), and the status of the           *)
(* integrations that failures leave behind (lib/integration-health.ts,     *)
(* functions/_shared/integration-health-store.ts).                         *)
(***************************************************************************)
EXTENDS Integers, FiniteSets

CONSTANTS
    Ticks,          \* worker ticks
    MaxAttempts,    \* jobs.max_attempts
    MaxFaults       \* bound: failures and kills

ASSUME TelemetryAssumption == MaxAttempts \in Nat \ {0} /\ MaxFaults \in Nat

VARIABLES
    emission,   \* telemetry_emissions: a row per metric and attempt
    counted,    \* how often Datadog counted the metric of a row
    unsure,     \* rows whose sending was interrupted, or overlapped another one's
    health,     \* integrations.status of each provider
    sender,     \* the signal that each tick is sending
    faults

telemetryVars == <<emission, counted, unsure, health, sender>>

\* A kill takes an attempt of its own.
Attempts == 1 .. (MaxAttempts + MaxFaults)

\* The idempotency key of an emission: the metric, and the attempt of the job.
Keys == {"retry", "error"} \X Attempts

NoEmission == [state |-> "absent", emitted |-> FALSE]

Quiet == [pc |-> "quiet", key |-> <<"retry", 1>>, source |-> "worker", class |-> "other",
          enabled |-> FALSE, outcome |-> "none"]

Sending(k) == {t \in Ticks : sender[t].pc # "quiet" /\ sender[t].key = k}

Key(t) == sender[t].key
At(t, pc) == sender[t].pc = pc
Go(t, pc) == sender' = [sender EXCEPT ![t].pc = pc]
Done(t) == sender' = [sender EXCEPT ![t] = Quiet]

-----------------------------------------------------------------------------
(* Sending a signal.                                                       *)

\* emitTelemetry: after a failure is written.  Whether Datadog is configured is read from
\* the tick's environment.
Emit(t, kind, attempt, error) ==
    /\ \E enabled \in BOOLEAN :
          sender' = [sender EXCEPT ![t] =
              [pc |-> "reserve", key |-> <<kind, attempt>>, source |-> error.source,
               class |-> error.class, enabled |-> enabled, outcome |-> "none"]]
    /\ unsure' = IF Sending(<<kind, attempt>>) = {} THEN unsure
                 ELSE unsure \cup {<<kind, attempt>>}

\* The row is inserted as running; a duplicate is looked up.
Reserve(t) ==
    /\ At(t, "reserve")
    /\ IF emission[Key(t)].state = "absent"
       THEN /\ emission' = [emission EXCEPT ![Key(t)].state = "running"]
            /\ Go(t, "submit")
       ELSE Go(t, "refind") /\ UNCHANGED emission
    /\ UNCHANGED <<counted, unsure, health, faults>>

\* (Mutant) An attempt that was signalled before is signalled again.
NeverSent(k) == FALSE

AlreadySucceeded(k) == emission[k].state = "succeeded"

\* The same attempt was signalled before: once is enough.
Refind(t) ==
    /\ At(t, "refind")
    /\ Go(t, IF AlreadySucceeded(Key(t)) THEN "reflect" ELSE "submit")
    /\ UNCHANGED <<emission, counted, unsure, health, faults>>

\* The metric is counted when Datadog answers, and may have been when it does not.  Without
\* configuration nothing is sent.
SubmitMetric(t) ==
    LET k == Key(t) IN
    /\ At(t, "submit")
    /\ \/ /\ ~sender[t].enabled
          /\ sender' = [sender EXCEPT ![t].pc = "finish", ![t].outcome = "mocked"]
          /\ UNCHANGED <<counted, unsure, faults>>
       \/ /\ sender[t].enabled
          /\ counted' = [counted EXCEPT ![k] = @ + 1]
          /\ Go(t, "event")
          /\ UNCHANGED <<unsure, faults>>
       \/ /\ sender[t].enabled /\ faults < MaxFaults /\ faults' = faults + 1
          /\ \/ counted' = [counted EXCEPT ![k] = @ + 1] /\ unsure' = unsure \cup {k}
             \/ UNCHANGED <<counted, unsure>>
          /\ sender' = [sender EXCEPT ![t].pc = "finish", ![t].outcome = "failed"]
    /\ UNCHANGED <<emission, health>>

\* (Mutant) The signal failed if its event did.
EventDecides(answered) == IF answered THEN "emitted" ELSE "failed"

\* The metric has landed: whatever becomes of the event, the emission succeeded.
EventOutcome(answered) == "emitted"

SubmitEvent(t) ==
    /\ At(t, "event")
    /\ \E answered \in BOOLEAN :
          /\ answered \/ faults < MaxFaults
          /\ faults' = IF answered THEN faults ELSE faults + 1
          /\ sender' = [sender EXCEPT ![t].pc = "finish", ![t].outcome = EventOutcome(answered)]
    /\ UNCHANGED <<emission, counted, unsure, health>>

Finished(outcome) ==
    [state |-> IF outcome = "failed" THEN "failed" ELSE "succeeded", emitted |-> outcome = "emitted"]

\* The outcome is written by id; an error of the write is ignored.
Finish(t) ==
    LET outcome == sender[t].outcome IN
    /\ At(t, "finish")
    /\ \/ emission' = [emission EXCEPT ![Key(t)] = Finished(outcome)] /\ UNCHANGED <<unsure, faults>>
       \/ /\ faults < MaxFaults /\ faults' = faults + 1
          /\ unsure' = unsure \cup {Key(t)} /\ UNCHANGED emission
    /\ Go(t, IF outcome = "failed" THEN "degrade" ELSE "reflect")
    /\ UNCHANGED <<counted, health>>

\* The row cannot be reserved or looked up: the signal is given up, the integration untouched.
ReserveFails(t) ==
    /\ At(t, "reserve") \/ At(t, "refind")
    /\ faults < MaxFaults /\ faults' = faults + 1
    /\ Done(t)
    /\ UNCHANGED <<emission, counted, unsure, health>>

-----------------------------------------------------------------------------
(* Integration health.                                                     *)

Providers == {"truefoundry", "datadog"}

\* The most recent failure decides: throttling is told apart, a rejected credential and
\* anything else degrade the integration.
Assessed(class) == IF class = "rate_limit" THEN "rate_limited" ELSE "degraded"

\* The status is written over the last one; an error of the write is ignored.
WriteHealth(provider, status) ==
    \/ health' = [health EXCEPT ![provider] = status] /\ UNCHANGED faults
    \/ UNCHANGED health /\ faults < MaxFaults /\ faults' = faults + 1

\* Datadog refused the signal.
ReflectTelemetryFailure(t) ==
    /\ At(t, "degrade")
    /\ WriteHealth("datadog", Assessed("other"))
    /\ Go(t, "reflect")
    /\ UNCHANGED <<emission, counted, unsure>>

\* The job failed against a provider; the engine's own failures have none.
ReflectProviderFailure(t) ==
    /\ At(t, "reflect")
    /\ IF sender[t].source \in Providers
       THEN WriteHealth(sender[t].source, Assessed(sender[t].class))
       ELSE UNCHANGED <<health, faults>>
    /\ Done(t)
    /\ UNCHANGED <<emission, counted, unsure>>

\* The tick is killed while it sends.
Interrupted(t) ==
    /\ unsure' = IF sender[t].pc \in {"event", "finish"} THEN unsure \cup {Key(t)} ELSE unsure
    /\ Done(t)
    /\ UNCHANGED <<emission, counted, health>>

TelemetryInit ==
    /\ emission = [k \in Keys |-> NoEmission]
    /\ counted = [k \in Keys |-> 0]
    /\ unsure = {}
    /\ health = [p \in Providers |-> "connected"]
    /\ sender = [t \in Ticks |-> Quiet]
    /\ faults = 0

Send(t) ==
    \/ Reserve(t) \/ Refind(t) \/ SubmitMetric(t) \/ SubmitEvent(t) \/ Finish(t)
    \/ ReserveFails(t) \/ ReflectTelemetryFailure(t) \/ ReflectProviderFailure(t)

-----------------------------------------------------------------------------
(* Properties.                                                             *)

\* However often an attempt's failure is signalled (two ticks may run the same attempt),
\* its metric is counted once, unless the sending was cut off or two ticks sent the same
\* signal at the same time (telemetry.ts:132-134, "no double-submit").
SignalCountedOnce == \A k \in Keys \ unsure : counted[k] <= 1

\* A row that says when it was emitted is a metric that Datadog has, and, once nobody is
\* sending it, the other way round, with the same exceptions: neither a missing key nor a
\* failed event makes the audit lie (telemetry.ts:254-256, 271-273).
AuditMatchesDatadog ==
    \A k \in Keys :
        /\ emission[k].emitted => counted[k] > 0
        /\ k \notin unsure /\ Sending(k) = {} /\ counted[k] > 0 => emission[k].emitted

-----------------------------------------------------------------------------
(* What makes them inductive.                                              *)

SignalState ==
    [pc : {"quiet", "reserve", "refind", "submit", "event", "finish", "degrade", "reflect"},
     key : Keys, source : {"worker"} \cup Providers, class : {"rate_limit", "auth", "other"},
     enabled : BOOLEAN, outcome : {"none", "mocked", "emitted", "failed"}]

EmissionRow == [state : {"absent", "running", "failed", "succeeded"}, emitted : BOOLEAN]

\* Types of the audit, of what Datadog counted and of the signals being sent.
TelemetryTypeOK ==
    /\ emission \in [Keys -> EmissionRow]
    /\ counted \in [Keys -> Nat] /\ unsure \subseteq Keys
    /\ health \in [Providers -> {"connected", "degraded", "rate_limited"}]
    /\ sender \in [Ticks -> SignalState]
    /\ faults \in 0 .. MaxFaults

\* The metric was counted, and the row does not say so yet.
Unwritten(t) == At(t, "event") \/ (At(t, "finish") /\ sender[t].outcome = "emitted")

\* The tick takes it that nothing was counted.
Unsent(t) == At(t, "submit") \/ (At(t, "finish") /\ sender[t].outcome # "emitted")

\* A row about which there is no doubt has one sender at most; its metric was counted if the
\* row says so or its sender knows.
RowOK(k) ==
    /\ \A t, u \in Sending(k) : t = u
    /\ counted[k] = 0 \/ emission[k].emitted \/ \E t \in Sending(k) : Unwritten(t)
    /\ \A t \in Sending(k) : Unsent(t) => counted[k] = 0

SignalInv ==
    /\ \A k \in Keys : emission[k].emitted => emission[k].state = "succeeded" /\ counted[k] > 0
    /\ \A t \in Ticks : Unwritten(t) => counted[Key(t)] > 0
    /\ \A k \in Keys \ unsure : RowOK(k)
=============================================================================
