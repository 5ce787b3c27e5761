-------------------------- MODULE DatadogIncidents --------------------------
(***************************************************************************)
(* The Datadog webhook: alerts of one alert cycle (one correlation key)    *)
(* open, update and resolve its incidents, start investigations and leave  *)
(* evidence (functions/datadog-webhook, functions/_shared/datadog-         *)
(* webhook-store.ts, lib/datadog-webhook.ts).                              *)
(*                                                                         *)
(* One step is one database statement.  Every handled request may be       *)
(* killed or have a statement fail between any two; a statement that is    *)
(* applied but whose answer is lost is the same as one that succeeds and   *)
(* is followed by a failure.                                               *)
(***************************************************************************)
EXTENDS Naturals, Sequences, FiniteSets

\* What the parser keeps of a payload, as far as it matters here: the transition, the
\* payload's own time stamp (never the server's clock), and whether one of the smart
\* rules matches the alert's tags, monitor or text.
ParsedAlert == [name : STRING, stamp : Nat, smart : BOOLEAN]

CONSTANTS
    Alerts,         \* what Datadog sends
    Handlers,       \* requests the function may be handling at the same time
    MaxSends,       \* bound: deliveries, repeated ones included
    MaxFaults       \* bound: killed requests and failed statements

ASSUME DatadogAssumption ==
    /\ Alerts \subseteq ParsedAlert
    /\ IsFiniteSet(Alerts)
    /\ MaxSends \in Nat /\ MaxFaults \in Nat

VARIABLES
    deliveries,     \* inbound_webhooks: processing status by delivery id
    incidents,      \* incidents of the cycle, in the order of insertion
    evidence,       \* evidence_items: rows by incident and transition key
    jobs,           \* incidents that have an incident_investigation job
    handler,        \* local state of each request
    sent, overlapped, faults

vars == <<deliveries, incidents, evidence, jobs, handler, sent, overlapped, faults>>

-----------------------------------------------------------------------------
(* Alerts (lib/datadog-webhook.ts).                                        *)

\* The key of a transition: a hash of it identifies the delivery, so a repeated
\* alert with the same stamp is the same delivery.
AlertTransitionKey(a) == <<a.name, a.stamp>>

Keys == {AlertTransitionKey(a) : a \in Alerts}

\* Only a recovery resolves; any other transition fires.
AlertState(a) == IF a.name = "recovered" THEN "resolved" ELSE "firing"

Modes == {"manual", "auto", "smart"}

\* Whether a new incident starts its own investigation.
StartsAutomatically(mode, a) ==
    /\ AlertState(a) = "firing"
    /\ mode = "auto" \/ (mode = "smart" /\ a.smart)

-----------------------------------------------------------------------------

Rows == 1 .. MaxSends

\* The columns of an incident that its readers take along.
Snapshot(i) == incidents[i]

NoIncident == [state |-> "none", key |-> <<"none", 0>>, auto |-> FALSE,
               job |-> FALSE, timeline |-> {}]

NoAlert == [name |-> "none", stamp |-> 0, smart |-> FALSE]

Idle == [pc |-> "idle", alert |-> NoAlert, auto |-> FALSE, inc |-> 0, seen |-> NoIncident]

Key(h) == AlertTransitionKey(handler[h].alert)

Goto(h, pc) == handler' = [handler EXCEPT ![h].pc = pc]

\* activeIncident: the open incident of the cycle, 0 when there is none.
ActiveIncidents == {i \in DOMAIN incidents : incidents[i].state = "active"}
ActiveIncident == IF ActiveIncidents = {} THEN 0 ELSE CHOOSE i \in ActiveIncidents : TRUE

-----------------------------------------------------------------------------
(* Recording the delivery.                                                 *)

\* A request arrives and inserts its row.  A row that exists is terminal when it was
\* processed; otherwise the delivery is taken up again.  The workspace's mode is what
\* the console last set.  (A request without the shared secret only touches the row of
\* its own that counts rejections, which no step reads.)
Deliver(h, a) ==
    /\ handler[h].pc = "idle" /\ sent < MaxSends
    /\ sent' = sent + 1
    /\ overlapped' = IF \E g \in Handlers : Key(g) = AlertTransitionKey(a)
                     THEN overlapped \cup {AlertTransitionKey(a)} ELSE overlapped
    /\ \E auto \in {StartsAutomatically(mode, a) : mode \in Modes} :
          LET k == AlertTransitionKey(a)
              next == CASE deliveries[k] = "absent" -> "find"
                        [] deliveries[k] = "processed" -> "idle"
                        [] OTHER -> "refresh"
          IN /\ deliveries' = IF next = "find" THEN [deliveries EXCEPT ![k] = "received"]
                              ELSE deliveries
             /\ handler' = IF next = "idle" THEN handler
                           ELSE [handler EXCEPT ![h] =
                                   [Idle EXCEPT !.pc = next, !.alert = a, !.auto = auto]]
    /\ UNCHANGED <<incidents, evidence, jobs, faults>>

\* The row left behind by an earlier delivery is reset, whatever it says by now.
RefreshDelivery(h) ==
    /\ handler[h].pc = "refresh"
    /\ deliveries' = [deliveries EXCEPT ![Key(h)] = "received"]
    /\ Goto(h, "find")
    /\ UNCHANGED <<incidents, evidence, jobs, sent, overlapped, faults>>

-----------------------------------------------------------------------------
(* The incident.                                                           *)

\* (Mutant) A replayed alert has nothing left to do.
FoundReplayIsDone(h, i, missing, apply) ==
    LET seen == Snapshot(i) IN
    handler' = [handler EXCEPT ![h] =
        IF i = 0 THEN [@ EXCEPT !.pc = missing]
        ELSE [@ EXCEPT !.inc = i, !.seen = seen,
                       !.pc = IF AlertState(handler[h].alert) = "firing" /\ seen.key = Key(h)
                              THEN "mark" ELSE apply]]

\* What follows a read of the open incident: an alert that was the last one applied
\* to it is a replay, which only its evidence and its enqueue are repaired for.
Found(h, i, missing, apply) ==
    LET seen == Snapshot(i) IN
    handler' = [handler EXCEPT ![h] =
        IF i = 0 THEN [@ EXCEPT !.pc = missing]
        ELSE [@ EXCEPT !.inc = i, !.seen = seen,
                       !.pc = IF AlertState(handler[h].alert) = "firing" /\ seen.key = Key(h)
                              THEN "evidence" ELSE apply]]

FindIncident(h) ==
    /\ handler[h].pc = "find"
    /\ IF AlertState(handler[h].alert) = "resolved"
       THEN Found(h, ActiveIncident, "mark", "resolve")
       ELSE Found(h, ActiveIncident, "insert", "update")
    /\ UNCHANGED <<deliveries, incidents, evidence, jobs, sent, overlapped, faults>>

\* (Mutant) The alert's state is written where the incident's belongs.
FoldedSwapped(row, seen, k, state) ==
    [row EXCEPT !.state = IF state = "active" THEN "firing" ELSE state, !.key = k,
                !.timeline = seen.timeline \cup {k}]

\* The row with an alert folded into it: the timeline is written back whole, from the
\* copy that was read.
Folded(row, seen, k, state) ==
    [row EXCEPT !.state = state, !.key = k, !.timeline = seen.timeline \cup {k}]

\* (Mutant) Neither update looks at the state.
UpdatesById(row) == TRUE

\* The WHERE clause of both updates: the incident is still open.
StillActive(row) == row.state = "active"

\* (Mutant) Only a new incident records its alert.
UpdateSilently(h) ==
    LET i == handler[h].inc
        hit == StillActive(incidents[i])
    IN /\ handler[h].pc \in {"update", "reupdate"}
       /\ incidents' = IF hit THEN [incidents EXCEPT ![i] =
                                      Folded(@, handler[h].seen, Key(h), @.state)]
                       ELSE incidents
       /\ Goto(h, CASE hit -> "mark"
                    [] ~ hit /\ handler[h].pc = "update" -> "insert"
                    [] OTHER -> "catch")
       /\ UNCHANGED <<deliveries, evidence, jobs, sent, overlapped, faults>>

\* An update matches no row when the incident was resolved since it was read.
UpdateIncident(h) ==
    LET i == handler[h].inc
        hit == StillActive(incidents[i])
    IN /\ handler[h].pc \in {"update", "reupdate"}
       /\ incidents' = IF hit THEN [incidents EXCEPT ![i] =
                                      Folded(@, handler[h].seen, Key(h), @.state)]
                       ELSE incidents
       /\ Goto(h, CASE hit -> "evidence"
                    [] ~ hit /\ handler[h].pc = "update" -> "insert"
                    [] OTHER -> "catch")
       /\ UNCHANGED <<deliveries, evidence, jobs, sent, overlapped, faults>>

\* (Mutant) No unique index on open incidents.
NothingConflicts == FALSE

\* The partial unique index: one open incident per correlation key.
InsertConflicts == ActiveIncidents # {}

NewIncident(h) ==
    [state |-> "active", key |-> Key(h), job |-> FALSE, timeline |-> {Key(h)},
     auto |-> handler[h].auto]

\* Losing the race to create the incident is answered by reading the winner's.
InsertIncident(h) ==
    /\ handler[h].pc = "insert"
    /\ IF InsertConflicts
       THEN Goto(h, "refind") /\ UNCHANGED incidents
       ELSE /\ incidents' = Append(incidents, NewIncident(h))
            /\ handler' = [handler EXCEPT ![h] =
                 [@ EXCEPT !.pc = "evidence", !.inc = Len(incidents) + 1, !.seen = NewIncident(h)]]
    /\ UNCHANGED <<deliveries, evidence, jobs, sent, overlapped, faults>>

RefindIncident(h) ==
    /\ handler[h].pc = "refind"
    /\ Found(h, ActiveIncident, "catch", "reupdate")
    /\ UNCHANGED <<deliveries, incidents, evidence, jobs, sent, overlapped, faults>>

\* Reports the incident as resolved even when another recovery was faster.
ResolveIncident(h) ==
    LET i == handler[h].inc IN
    /\ handler[h].pc = "resolve"
    /\ incidents' = IF StillActive(incidents[i])
                    THEN [incidents EXCEPT ![i] = Folded(@, handler[h].seen, Key(h), "resolved")]
                    ELSE incidents
    /\ Goto(h, "evidence")
    /\ UNCHANGED <<deliveries, evidence, jobs, sent, overlapped, faults>>

-----------------------------------------------------------------------------
(* Evidence, enqueue, acknowledgement.                                     *)

\* After the evidence: an incident that starts by itself and, as far as this request
\* knows, has no job yet gets one.
WantsJob(seen) == seen.auto /\ ~ seen.job

AfterEvidence(h) ==
    IF AlertState(handler[h].alert) = "firing" /\ WantsJob(handler[h].seen)
    THEN "enqueue" ELSE "mark"

\* (Mutant) Every delivery records its evidence.
NeverLooks(h) ==
    /\ handler[h].pc = "evidence"
    /\ Goto(h, "record")
    /\ UNCHANGED <<deliveries, incidents, evidence, jobs, sent, overlapped, faults>>

\* No unique index covers this evidence: a select looks for the row first.
LookForEvidence(h) ==
    /\ handler[h].pc = "evidence"
    /\ Goto(h, IF evidence[handler[h].inc, Key(h)] > 0 THEN AfterEvidence(h) ELSE "record")
    /\ UNCHANGED <<deliveries, incidents, evidence, jobs, sent, overlapped, faults>>

RecordEvidence(h) ==
    /\ handler[h].pc = "record"
    /\ evidence' = [evidence EXCEPT ![<<handler[h].inc, Key(h)>>] = @ + 1]
    /\ Goto(h, AfterEvidence(h))
    /\ UNCHANGED <<deliveries, incidents, jobs, sent, overlapped, faults>>

\* One job per incident: found, inserted, or found after a lost insert race.
EnqueueInvestigation(h) ==
    /\ handler[h].pc = "enqueue"
    /\ jobs' = jobs \cup {handler[h].inc}
    /\ Goto(h, "link")
    /\ UNCHANGED <<deliveries, incidents, evidence, sent, overlapped, faults>>

\* The link is written by id, whatever became of the incident, and its error is ignored.
LinkInvestigation(h) ==
    /\ handler[h].pc = "link"
    /\ \/ incidents' = [incidents EXCEPT ![handler[h].inc].job = TRUE] /\ UNCHANGED faults
       \/ UNCHANGED incidents /\ faults < MaxFaults /\ faults' = faults + 1
    /\ Goto(h, "mark")
    /\ UNCHANGED <<deliveries, evidence, jobs, sent, overlapped>>

MarkProcessed(h) ==
    /\ handler[h].pc = "mark"
    /\ deliveries' = [deliveries EXCEPT ![Key(h)] = "processed"]
    /\ handler' = [handler EXCEPT ![h] = Idle]
    /\ UNCHANGED <<incidents, evidence, jobs, sent, overlapped, faults>>

\* The catch block: the delivery is marked failed, so that it can be sent again.
MarkFailed(h) ==
    /\ handler[h].pc = "catch"
    /\ deliveries' = [deliveries EXCEPT ![Key(h)] = "failed"]
    /\ handler' = [handler EXCEPT ![h] = Idle]
    /\ UNCHANGED <<incidents, evidence, jobs, sent, overlapped, faults>>

\* A statement fails.  Until the delivery is recorded the catch block has no row to mark.
StatementFails(h) ==
    /\ handler[h].pc \notin {"idle", "catch", "link"} /\ faults < MaxFaults
    /\ faults' = faults + 1
    /\ handler' = [handler EXCEPT ![h] =
          IF @.pc = "refresh" THEN Idle ELSE [@ EXCEPT !.pc = "catch"]]
    /\ UNCHANGED <<deliveries, incidents, evidence, jobs, sent, overlapped>>

\* The function is killed, or its last write fails.
Crash(h) ==
    /\ handler[h].pc # "idle" /\ faults < MaxFaults
    /\ faults' = faults + 1
    /\ handler' = [handler EXCEPT ![h] = Idle]
    /\ UNCHANGED <<deliveries, incidents, evidence, jobs, sent, overlapped>>

\* A member starts the investigation from the console: the job, then its link, which
\* a crash may keep from being written.
StartInvestigation(i) ==
    /\ i \notin jobs \/ ~ incidents[i].job
    /\ jobs' = jobs \cup {i}
    /\ \/ incidents' = [incidents EXCEPT ![i].job = TRUE] /\ UNCHANGED faults
       \/ i \notin jobs /\ UNCHANGED incidents /\ faults < MaxFaults /\ faults' = faults + 1
    /\ UNCHANGED <<deliveries, evidence, handler, sent, overlapped>>

-----------------------------------------------------------------------------

Init ==
    /\ deliveries = [k \in Keys |-> "absent"]
    /\ incidents = <<>>
    /\ evidence = [ik \in Rows \X Keys |-> 0]
    /\ jobs = {}
    /\ handler = [h \in Handlers |-> Idle]
    /\ sent = 0 /\ overlapped = {} /\ faults = 0

Handle(h) ==
    \/ \E a \in Alerts : Deliver(h, a)
    \/ RefreshDelivery(h) \/ FindIncident(h) \/ UpdateIncident(h)
    \/ InsertIncident(h) \/ RefindIncident(h) \/ ResolveIncident(h)
    \/ LookForEvidence(h) \/ RecordEvidence(h)
    \/ EnqueueInvestigation(h) \/ LinkInvestigation(h)
    \/ MarkProcessed(h) \/ MarkFailed(h) \/ StatementFails(h) \/ Crash(h)

Next ==
    \/ \E h \in Handlers : Handle(h)
    \/ \E i \in DOMAIN incidents : StartInvestigation(i)

Spec == Init /\ [][Next]_vars

-----------------------------------------------------------------------------
(* Properties.                                                             *)

Pcs == {"idle", "refresh", "find", "update", "insert", "refind", "reupdate", "resolve",
        "evidence", "record", "enqueue", "link", "mark", "catch"}

\* The entries of a timeline: alerts, and the finding of an investigation.
Finding == <<"finding", 0>>
Entries == Keys \cup {Finding}

Incident == [state : {"active", "resolved"}, key : Keys, auto : BOOLEAN, job : BOOLEAN,
             timeline : SUBSET Entries]

\* Types of the tables and of the requests' local state.
TypeOK ==
    /\ deliveries \in [Keys -> {"absent", "received", "processed", "failed"}]
    /\ incidents \in Seq(Incident) /\ Len(incidents) <= sent
    /\ evidence \in [Rows \X Keys -> Nat]
    /\ jobs \subseteq DOMAIN incidents
    /\ handler \in [Handlers -> [pc : Pcs, alert : Alerts \cup {NoAlert}, auto : BOOLEAN,
                                 inc : 0 .. Len(incidents), seen : Incident \cup {NoIncident}]]
    /\ sent \in 0 .. MaxSends /\ overlapped \subseteq Keys /\ faults \in 0 .. MaxFaults

\* Racing creates, replays after a recovery and crashes never leave two open incidents
\* of one cycle (datadog-webhook-store.ts: "the single open incident per correlation key").
OneActiveIncident == Cardinality(ActiveIncidents) <= 1

\* Once a delivery is acknowledged for good, an open incident that was to start by
\* itself has its job: a crash between the two is repaired by the next delivery
\* (index.ts:148-151).  Deliveries repeated while the first is still handled are excepted.
AutoStartNotLost ==
    \A i \in ActiveIncidents :
        LET inc == incidents[i] IN
        inc.auto /\ i \notin jobs /\ inc.key \notin overlapped
            => deliveries[inc.key] # "processed"

\* A delivery that is reprocessed after a crash records its evidence once
\* (datadog-webhook-store.ts:324-326), with the same exception.
NoDuplicateEvidence ==
    \A i \in Rows, k \in Keys \ overlapped : evidence[i, k] <= 1

\* An acknowledged firing alert left the evidence that the investigation reads, wherever a
\* crash fell and however often it was delivered.  (A recovery's evidence can be lost: once
\* it has resolved the incident, its repetition finds no open one.)
AcknowledgedLeavesEvidence ==
    \A a \in Alerts :
        AlertState(a) = "firing" /\ deliveries[AlertTransitionKey(a)] = "processed"
            => \E i \in Rows : evidence[i, AlertTransitionKey(a)] > 0

\* What the cycle knows of an incident.
CycleRow(row) == [state |-> row.state, key |-> row.key, auto |-> row.auto]
CycleMap == [i \in DOMAIN incidents |-> CycleRow(incidents[i])]

\* The incidents of the cycle, as the console is promised them: opened one at a time,
\* never changed once resolved, investigated at most once.
Cycle == INSTANCE AlertCycle WITH cycle <- CycleMap, investigated <- jobs

ImplementsAlertCycle == Cycle!AcSpec

-----------------------------------------------------------------------------
(* What makes the safety properties inductive.                             *)

\* Requests that may still open an incident: there is a delivery for each.
Openers == {h \in Handlers : handler[h].pc \in {"refresh", "find", "update", "insert"}}

OpenersDelivered ==
    IsFiniteSet(Openers) /\ Len(incidents) + Cardinality(Openers) <= sent

\* A request knows its alert, and past its search the incident it is about: whether that
\* one starts by itself, and a job it has seen is really there.
HandlerOK(h) ==
    LET t == handler[h] IN
    /\ t.pc # "idle" => t.alert \in Alerts
    /\ t.pc \in {"update", "reupdate", "resolve", "evidence", "record", "enqueue", "link"} =>
          /\ t.inc \in DOMAIN incidents /\ t.seen \in Incident
          /\ t.seen.auto = incidents[t.inc].auto /\ (t.seen.job => t.inc \in jobs)
    /\ t.pc \in {"update", "reupdate", "insert", "refind"} => AlertState(t.alert) = "firing"
    /\ t.pc = "resolve" => AlertState(t.alert) = "resolved"
    /\ t.pc = "link" => t.inc \in jobs

\* The last alert of an open incident fires; a linked incident has its job.
IncidentsOK ==
    \A i \in DOMAIN incidents :
        /\ incidents[i].state = "active" => incidents[i].key[1] # "recovered"
        /\ incidents[i].job => i \in jobs

\* A delivery is in the hands of one request, and not acknowledged before it is done.
OneHandlerPerKey ==
    \A g, h \in Handlers :
        handler[g].pc # "idle" /\ handler[h].pc # "idle" /\ Key(g) = Key(h) /\ g # h
            => Key(h) \in overlapped

OpenUntilHandled ==
    \A h \in Handlers :
        handler[h].pc # "idle" /\ Key(h) \notin overlapped => deliveries[Key(h)] # "processed"

\* A request that is past its incident has put right what the alert left behind there ...
JobsFollow ==
    \A h \in Handlers, i \in ActiveIncidents :
        /\ handler[h].pc \in {"evidence", "record", "enqueue", "link", "mark"}
        /\ Key(h) = incidents[i].key /\ Key(h) \notin overlapped
        /\ incidents[i].auto /\ i \notin jobs
        => handler[h].pc \in {"evidence", "record", "enqueue"} /\ handler[h].inc = i

\* ... and a firing alert has its evidence, recorded once.
EvidenceFollows ==
    \A h \in Handlers :
        /\ handler[h].pc \in {"enqueue", "link", "mark"} /\ AlertState(handler[h].alert) = "firing"
              => \E i \in Rows : evidence[i, Key(h)] > 0
        /\ handler[h].pc = "record" /\ Key(h) \notin overlapped
              => evidence[handler[h].inc, Key(h)] = 0

IncidentsInv ==
    /\ TypeOK /\ OpenersDelivered /\ IncidentsOK /\ \A h \in Handlers : HandlerOK(h)
    /\ OneActiveIncident
    /\ OneHandlerPerKey /\ OpenUntilHandled
    /\ AutoStartNotLost /\ JobsFollow
    /\ NoDuplicateEvidence /\ AcknowledgedLeavesEvidence /\ EvidenceFollows
=============================================================================
