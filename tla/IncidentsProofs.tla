-------------------------- MODULE IncidentsProofs --------------------------
(***************************************************************************)
(* DatadogIncidents keeps its promises for every set of alerts, any number *)
(* of requests and any number of faults: its invariants, and that it       *)
(* implements AlertCycle.  Investigation leaves them intact and keeps its  *)
(* own, for any number of ticks and answers of the model.                  *)
(***************************************************************************)
EXTENDS Investigation, TLAPS, FiniteSetTheorems, SequenceTheorems

\* What a request does once its delivery is recorded.
Step(h) ==
    \/ RefreshDelivery(h) \/ FindIncident(h) \/ UpdateIncident(h)
    \/ InsertIncident(h) \/ RefindIncident(h) \/ ResolveIncident(h)
    \/ LookForEvidence(h) \/ RecordEvidence(h)
    \/ EnqueueInvestigation(h) \/ LinkInvestigation(h)
    \/ MarkProcessed(h) \/ MarkFailed(h) \/ StatementFails(h) \/ Crash(h)

Firing(h) == AlertState(handler[h].alert) = "firing"

HandlerState == [pc : Pcs, alert : Alerts \cup {NoAlert}, auto : BOOLEAN,
                 inc : 0 .. Len(incidents), seen : Incident \cup {NoIncident}]

-----------------------------------------------------------------------------
(* Types.                                                                  *)

LEMMA TableTypes ==
    ASSUME TypeOK
    PROVE  /\ Len(incidents) \in Nat /\ DOMAIN incidents = 1 .. Len(incidents)
           /\ DOMAIN incidents \subseteq Rows
           /\ \A i \in DOMAIN incidents : incidents[i] \in Incident
           /\ \A h \in Handlers : handler[h] \in HandlerState
           /\ sent \in Nat /\ MaxSends \in Nat /\ Len(incidents) <= sent /\ sent <= MaxSends
<1>1. incidents \in Seq(Incident) /\ Len(incidents) <= sent /\ sent \in 0 .. MaxSends
  BY DEF TypeOK
<1>2. Len(incidents) \in Nat /\ DOMAIN incidents = 1 .. Len(incidents)
  BY <1>1, LenProperties
<1>3. MaxSends \in Nat
  BY DatadogAssumption DEF DatadogAssumption
<1>4. DOMAIN incidents \subseteq Rows
  BY <1>1, <1>2, <1>3 DEF Rows
<1>5. \A i \in DOMAIN incidents : incidents[i] \in Incident
  BY <1>1, <1>2, ElementOfSeq
<1> QED BY <1>1, <1>2, <1>3, <1>4, <1>5 DEF TypeOK, HandlerState

LEMMA HandlerEdit ==
    ASSUME TypeOK, NEW h \in Handlers, NEW t, handler' = [handler EXCEPT ![h] = t]
    PROVE  handler'[h] = t /\ \A g \in Handlers \ {h} : handler'[g] = handler[g]
BY DEF TypeOK

LEMMA GotoEdit ==
    ASSUME TypeOK, NEW h \in Handlers, NEW pc, Goto(h, pc)
    PROVE  /\ handler' = [handler EXCEPT ![h] = [@ EXCEPT !.pc = pc]]
           /\ handler'[h] = [handler[h] EXCEPT !.pc = pc]
           /\ handler'[h].pc = pc /\ handler'[h].alert = handler[h].alert
           /\ handler'[h].inc = handler[h].inc /\ handler'[h].seen = handler[h].seen
           /\ \A g \in Handlers \ {h} : handler'[g] = handler[g]
BY DEF TypeOK, Goto

\* An index of an open incident, or none.
LEMMA ActiveType ==
    \/ ActiveIncident = 0 /\ ActiveIncidents = {}
    \/ ActiveIncident \in ActiveIncidents /\ ActiveIncident \in DOMAIN incidents
       /\ incidents[ActiveIncident].state = "active"
BY DEF ActiveIncident, ActiveIncidents

\* The request keeps a copy of incident i.
ReadsInto(h, i) ==
    handler'[h] = [pc |-> handler'[h].pc, alert |-> handler[h].alert, auto |-> handler[h].auto,
                   inc |-> i, seen |-> incidents[i]]

LEMMA FoundEdit ==
    ASSUME TypeOK, NEW h \in Handlers, NEW missing, NEW apply,
           Found(h, ActiveIncident, missing, apply)
    PROVE  /\ handler'[h].alert = handler[h].alert /\ handler'[h].auto = handler[h].auto
           /\ handler'[h].pc \in {missing, apply, "evidence"}
           /\ \A g \in Handlers \ {h} : handler'[g] = handler[g]
           /\ \E t : handler' = [handler EXCEPT ![h] = t]
           /\ \/ /\ ActiveIncidents = {}
                 /\ handler'[h] = [handler[h] EXCEPT !.pc = missing] /\ handler'[h].pc = missing
              \/ \E i \in ActiveIncidents :
                    /\ handler'[h].inc = i /\ handler'[h].seen = incidents[i]
                    /\ ReadsInto(h, i)
                    /\ handler'[h].pc = IF Firing(h) /\ incidents[i].key = Key(h)
                                        THEN "evidence" ELSE apply
<1>1. handler[h] \in HandlerState
  BY TableTypes
<1>2. DOMAIN incidents = 1 .. Len(incidents) /\ Len(incidents) \in Nat
  BY TableTypes
<1>3. CASE ActiveIncident = 0 /\ ActiveIncidents = {}
  <2>1. handler' = [handler EXCEPT ![h] = [@ EXCEPT !.pc = missing]]
    BY <1>3 DEF Found
  <2> QED BY <1>1, <1>3, <2>1 DEF TypeOK, HandlerState
<1>4. CASE ActiveIncident \in ActiveIncidents /\ ActiveIncident \in DOMAIN incidents
  <2> DEFINE i == ActiveIncident
             next == IF Firing(h) /\ incidents[i].key = Key(h) THEN "evidence" ELSE apply
  <2>0. i # 0
    BY <1>2, <1>4
  <2>1. handler' = [handler EXCEPT ![h] =
                      [@ EXCEPT !.inc = i, !.seen = incidents[i], !.pc = next]]
    BY <2>0 DEF Found, Snapshot, Firing
  <2> HIDE DEF next
  <2>2. /\ ReadsInto(h, i)
        /\ handler'[h].inc = i /\ handler'[h].seen = incidents[i] /\ handler'[h].pc = next
        /\ handler'[h].alert = handler[h].alert /\ handler'[h].auto = handler[h].auto
        /\ \A g \in Handlers \ {h} : handler'[g] = handler[g]
    BY <1>1, <2>1 DEF TypeOK, HandlerState, ReadsInto
  <2> QED BY <1>4, <2>1, <2>2 DEF next
<1> QED BY <1>3, <1>4, ActiveType

-----------------------------------------------------------------------------
(* What a step of a request changes of its own state.                      *)

LEMMA StepMoves ==
    ASSUME TypeOK, NEW h \in Handlers, Step(h)
    PROVE  /\ handler[h].pc # "idle" /\ UNCHANGED <<sent, overlapped>>
           /\ \E t : handler' = [handler EXCEPT ![h] = t]
           /\ \A g \in Handlers \ {h} : handler'[g] = handler[g]
           /\ handler'[h].pc # "idle" => handler'[h].alert = handler[h].alert
           /\ handler'[h].pc \in Pcs /\ handler'[h].pc # "refresh"
           /\ handler'[h].pc \in {"find", "update", "insert"} =>
                 handler[h].pc \in {"refresh", "find", "update"}
<1> DEFINE OK == /\ handler[h].pc # "idle" /\ UNCHANGED <<sent, overlapped>>
                 /\ \E t : handler' = [handler EXCEPT ![h] = t]
                 /\ \A g \in Handlers \ {h} : handler'[g] = handler[g]
                 /\ handler'[h].pc # "idle" => handler'[h].alert = handler[h].alert
                 /\ handler'[h].pc \in Pcs /\ handler'[h].pc # "refresh"
                 /\ handler'[h].pc \in {"find", "update", "insert"} =>
                       handler[h].pc \in {"refresh", "find", "update"}
<1>0. handler[h] \in HandlerState
  BY TableTypes
<1>1. ASSUME NEW pc, Goto(h, pc), pc \in Pcs \ {"refresh"}, handler[h].pc # "idle",
             UNCHANGED <<sent, overlapped>>,
             pc \in {"find", "update", "insert"} => handler[h].pc \in {"refresh", "find", "update"}
      PROVE  OK
  <2>1. handler' = [handler EXCEPT ![h] = [@ EXCEPT !.pc = pc]]
    BY <1>1 DEF Goto
  <2>2. /\ handler'[h].pc = pc /\ handler'[h].alert = handler[h].alert
        /\ \A g \in Handlers \ {h} : handler'[g] = handler[g]
    BY <1>1, GotoEdit
  <2> QED BY <1>1, <2>1, <2>2
<1>2. ASSUME NEW t, handler' = [handler EXCEPT ![h] = t], t = Idle \/ t.alert = handler[h].alert,
             t.pc \in Pcs \ {"refresh", "find", "update", "insert"}, handler[h].pc # "idle",
             UNCHANGED <<sent, overlapped>>
      PROVE  OK
  <2>1. Idle.pc = "idle"
    BY DEF Idle
  <2>2. handler'[h] = t /\ \A g \in Handlers \ {h} : handler'[g] = handler[g]
    BY <1>2, HandlerEdit
  <2>3. \E s : handler' = [handler EXCEPT ![h] = s]
    BY <1>2
  <2>4. CASE t = Idle
    BY <1>2, <2>1, <2>2, <2>3, <2>4
  <2>5. CASE t.alert = handler[h].alert
    BY <1>2, <2>2, <2>3, <2>5
  <2> QED BY <1>2, <2>4, <2>5
<1>3. CASE RefreshDelivery(h)
  BY <1>1, <1>3 DEF RefreshDelivery, Pcs
<1>4. CASE FindIncident(h)
  <2>1. PICK missing \in {"mark", "insert"}, apply \in {"resolve", "update"} :
              Found(h, ActiveIncident, missing, apply)
    BY <1>4 DEF FindIncident
  <2>2. handler[h].pc = "find" /\ UNCHANGED <<sent, overlapped>>
    BY <1>4 DEF FindIncident
  <2>3. /\ handler'[h].pc \in {missing, apply, "evidence"}
        /\ handler'[h].alert = handler[h].alert
        /\ \A g \in Handlers \ {h} : handler'[g] = handler[g]
        /\ \E t : handler' = [handler EXCEPT ![h] = t]
    BY <2>1, FoundEdit
  <2> QED BY <2>2, <2>3 DEF Pcs
<1>5. CASE RefindIncident(h)
  <2>1. Found(h, ActiveIncident, "catch", "reupdate")
    BY <1>5 DEF RefindIncident
  <2>2. handler[h].pc = "refind" /\ UNCHANGED <<sent, overlapped>>
    BY <1>5 DEF RefindIncident
  <2>3. /\ handler'[h].pc \in {"catch", "reupdate", "evidence"}
        /\ handler'[h].alert = handler[h].alert
        /\ \A g \in Handlers \ {h} : handler'[g] = handler[g]
        /\ \E t : handler' = [handler EXCEPT ![h] = t]
    BY <2>1, FoundEdit
  <2> QED BY <2>2, <2>3 DEF Pcs
<1>6. CASE UpdateIncident(h)
  BY <1>1, <1>6 DEF UpdateIncident, Pcs
<1>7. CASE InsertIncident(h)
  <2>1. CASE InsertConflicts
    BY <1>1, <1>7, <2>1 DEF InsertIncident, Pcs
  <2>2. CASE ~ InsertConflicts
    <3> DEFINE t == [handler[h] EXCEPT !.pc = "evidence", !.inc = Len(incidents) + 1,
                                       !.seen = NewIncident(h)]
    <3>1. handler' = [handler EXCEPT ![h] = t] /\ handler[h].pc = "insert"
      BY <1>7, <2>2 DEF InsertIncident
    <3>2. t.alert = handler[h].alert /\ t.pc = "evidence"
      BY <1>0 DEF HandlerState
    <3>3. UNCHANGED <<sent, overlapped>>
      BY <1>7 DEF InsertIncident
    <3> HIDE DEF t
    <3> QED BY <1>2, <3>1, <3>2, <3>3 DEF Pcs
  <2> QED BY <2>1, <2>2
<1>8. CASE ResolveIncident(h)
  BY <1>1, <1>8 DEF ResolveIncident, Pcs
<1>9. CASE LookForEvidence(h)
  BY <1>1, <1>9 DEF LookForEvidence, AfterEvidence, Pcs
<1>10. CASE RecordEvidence(h)
  BY <1>1, <1>10 DEF RecordEvidence, AfterEvidence, Pcs
<1>11. CASE EnqueueInvestigation(h)
  BY <1>1, <1>11 DEF EnqueueInvestigation, Pcs
<1>12. CASE LinkInvestigation(h)
  BY <1>1, <1>12 DEF LinkInvestigation, Pcs
<1>13. CASE MarkProcessed(h) \/ MarkFailed(h) \/ Crash(h)
  <2>1. Idle.pc = "idle"
    BY DEF Idle
  <2> QED BY <1>2, <1>13, <2>1 DEF MarkProcessed, MarkFailed, Crash, Pcs
<1>14. CASE StatementFails(h)
  <2>1. CASE handler[h].pc = "refresh"
    <3>1. Idle.pc = "idle" /\ handler' = [handler EXCEPT ![h] = Idle]
      BY <1>14, <2>1 DEF Idle, StatementFails
    <3> QED BY <1>2, <1>14, <3>1, <2>1 DEF StatementFails, Pcs
  <2>2. CASE handler[h].pc # "refresh"
    <3>1. Goto(h, "catch")
      BY <1>14, <2>2 DEF StatementFails, Goto
    <3> QED BY <1>1, <1>14, <3>1 DEF StatementFails, Pcs
  <2> QED BY <2>1, <2>2
<1> QED BY <1>3, <1>4, <1>5, <1>6, <1>7, <1>8, <1>9, <1>10, <1>11, <1>12, <1>13, <1>14 DEF Step

\* A delivery that arrives.
LEMMA DeliverMoves ==
    ASSUME TypeOK, NEW h \in Handlers, NEW a \in Alerts, Deliver(h, a)
    PROVE  /\ handler[h].pc = "idle" /\ sent' = sent + 1 /\ sent < MaxSends
           /\ UNCHANGED <<incidents, evidence, jobs, faults>>
           /\ \A g \in Handlers \ {h} : handler'[g] = handler[g]
           /\ overlapped \subseteq overlapped' /\ overlapped' \subseteq overlapped \cup {AlertTransitionKey(a)}
           /\ (\E g \in Handlers : Key(g) = AlertTransitionKey(a)) => AlertTransitionKey(a) \in overlapped'
           /\ \/ UNCHANGED <<handler, deliveries>>
              \/ /\ handler'[h].alert = a /\ handler'[h] \in HandlerState
                 /\ \/ /\ handler'[h].pc = "find"
                       /\ deliveries' = [deliveries EXCEPT ![AlertTransitionKey(a)] = "received"]
                    \/ /\ handler'[h].pc = "refresh" /\ UNCHANGED deliveries
                       /\ deliveries[AlertTransitionKey(a)] # "processed"
<1> DEFINE k == AlertTransitionKey(a)
           next == CASE deliveries[k] = "absent" -> "find"
                     [] deliveries[k] = "processed" -> "idle"
                     [] OTHER -> "refresh"
<1>1. PICK auto \in BOOLEAN :
        /\ deliveries' = IF next = "find" THEN [deliveries EXCEPT ![k] = "received"]
                         ELSE deliveries
        /\ handler' = IF next = "idle" THEN handler
                      ELSE [handler EXCEPT ![h] =
                              [Idle EXCEPT !.pc = next, !.alert = a, !.auto = auto]]
  BY DEF Deliver, StartsAutomatically
<1>2. /\ handler[h].pc = "idle" /\ sent' = sent + 1 /\ sent < MaxSends
      /\ UNCHANGED <<incidents, evidence, jobs, faults>>
      /\ overlapped' = IF \E g \in Handlers : Key(g) = k THEN overlapped \cup {k} ELSE overlapped
  BY DEF Deliver
<1>3. /\ next = "idle" \/ next = "find" \/ next = "refresh"
      /\ next = "refresh" => deliveries[k] # "processed"
  OBVIOUS
<1>4. next # "idle" => handler'[h] = [Idle EXCEPT !.pc = next, !.alert = a, !.auto = auto]
  BY <1>1 DEF TypeOK
<1>5. ASSUME NEW pc \in {"find", "refresh"}
      PROVE  LET t == [Idle EXCEPT !.pc = pc, !.alert = a, !.auto = auto]
             IN  t.pc = pc /\ t.alert = a /\ t \in HandlerState
  <2>1. 0 \in 0 .. Len(incidents) /\ NoIncident \in Incident \cup {NoIncident}
    BY TableTypes
  <2> QED BY <1>1, <2>1 DEF Idle, HandlerState, Pcs
<1>6. \A g \in Handlers \ {h} : handler'[g] = handler[g]
  BY <1>1 DEF TypeOK
<1> HIDE DEF next
<1> QED BY <1>1, <1>2, <1>3, <1>4, <1>5, <1>6

-----------------------------------------------------------------------------
(* What a step changes of the incidents.                                   *)

Located == {"update", "reupdate", "resolve", "evidence", "record", "enqueue", "link"}

LEMMA MyIncident ==
    ASSUME TypeOK, NEW h \in Handlers, HandlerOK(h)
    PROVE  /\ handler[h] \in HandlerState
           /\ handler[h].pc # "idle" => handler[h].alert \in Alerts /\ Key(h) \in Keys
           /\ handler[h].pc \in Located =>
                 /\ handler[h].inc \in DOMAIN incidents /\ handler[h].inc \in Rows
                 /\ incidents[handler[h].inc] \in Incident /\ handler[h].seen \in Incident
<1>1. handler[h] \in HandlerState
  BY TableTypes
<1>2. handler[h].pc # "idle" => handler[h].alert \in Alerts /\ Key(h) \in Keys
  BY DEF HandlerOK, Key, Keys
<1>3. handler[h].pc \in Located => handler[h].inc \in DOMAIN incidents /\ handler[h].seen \in Incident
  BY DEF HandlerOK, Located
<1> QED BY <1>1, <1>2, <1>3, TableTypes

\* An alert is folded into the open incident i.
FoldsInto(h, i, row) ==
    /\ handler[h].pc \in {"update", "reupdate", "resolve"} /\ i = handler[h].inc
    /\ incidents[i].state = "active" /\ row.key = Key(h) /\ row.job = incidents[i].job
    /\ row.state = IF handler[h].pc = "resolve" THEN "resolved" ELSE "active"
    /\ handler'[h].pc = "evidence" /\ handler'[h].inc = i /\ handler'[h].alert = handler[h].alert
    /\ UNCHANGED <<deliveries, evidence, jobs>>

Links(i, row) ==
    /\ i \in jobs /\ row.job
    /\ row.state = incidents[i].state /\ row.key = incidents[i].key

LEMMA LinkedType ==
    ASSUME TypeOK, NEW i \in DOMAIN incidents, i \in jobs,
           incidents' = [incidents EXCEPT ![i].job = TRUE]
    PROVE  \E row \in Incident :
              /\ incidents' = [incidents EXCEPT ![i] = row]
              /\ row.auto = incidents[i].auto /\ Links(i, row)
<1>1. incidents[i] \in Incident
  BY TableTypes
<1> DEFINE row == [incidents[i] EXCEPT !.job = TRUE]
<1>2. incidents' = [incidents EXCEPT ![i] = row]
  OBVIOUS
<1>3. row \in Incident /\ row.auto = incidents[i].auto /\ Links(i, row)
  BY <1>1 DEF Incident, Links
<1> HIDE DEF row
<1> QED BY <1>2, <1>3

LEMMA IncidentMoves ==
    ASSUME TypeOK, NEW h \in Handlers, HandlerOK(h), Step(h)
    PROVE  \/ UNCHANGED incidents
           \/ /\ handler[h].pc = "insert" /\ ActiveIncidents = {}
              /\ incidents' = Append(incidents, NewIncident(h))
           \/ \E i \in DOMAIN incidents, row \in Incident :
                 /\ incidents' = [incidents EXCEPT ![i] = row]
                 /\ row.auto = incidents[i].auto
                 /\ FoldsInto(h, i, row) \/ (Links(i, row) /\ UNCHANGED jobs)
<1> DEFINE i == handler[h].inc
           Folds == \E row \in Incident : /\ incidents' = [incidents EXCEPT ![i] = row]
                                          /\ row.auto = incidents[i].auto /\ FoldsInto(h, i, row)
<1>1. CASE UpdateIncident(h) /\ incidents' # incidents
  <2>1. /\ handler[h].pc \in {"update", "reupdate"} /\ incidents[i].state = "active"
        /\ incidents' = [incidents EXCEPT ![i] =
                            Folded(incidents[i], handler[h].seen, Key(h), incidents[i].state)]
    BY <1>1 DEF UpdateIncident, StillActive
  <2>0. /\ handler'[h].pc = "evidence" /\ handler'[h].inc = i /\ handler'[h].alert = handler[h].alert
        /\ UNCHANGED <<deliveries, evidence, jobs>>
    BY <1>1, <2>1, GotoEdit DEF UpdateIncident, StillActive
  <2>2. i \in DOMAIN incidents /\ incidents[i] \in Incident /\ handler[h].seen \in Incident /\ Key(h) \in Keys
    BY <2>1, MyIncident DEF Located
  <2> DEFINE row == Folded(incidents[i], handler[h].seen, Key(h), "active")
  <2>3. /\ row \in Incident /\ row.state = "active" /\ row.key = Key(h)
        /\ row.auto = incidents[i].auto /\ row.job = incidents[i].job
    <3> HIDE DEF i
    <3> QED BY <2>2 DEF Folded, Incident, Entries
  <2>4. incidents' = [incidents EXCEPT ![i] = row]
    BY <2>1
  <2> HIDE DEF row
  <2>5. FoldsInto(h, i, row)
    BY <2>0, <2>1, <2>3 DEF FoldsInto
  <2>6. Folds
    BY <2>3, <2>4, <2>5
  <2> QED BY <2>2, <2>6
<1>2. CASE ResolveIncident(h) /\ incidents' # incidents
  <2>1. /\ handler[h].pc = "resolve" /\ incidents[i].state = "active"
        /\ incidents' = [incidents EXCEPT ![i] =
                            Folded(incidents[i], handler[h].seen, Key(h), "resolved")]
    BY <1>2 DEF ResolveIncident, StillActive
  <2>0. /\ handler'[h].pc = "evidence" /\ handler'[h].inc = i /\ handler'[h].alert = handler[h].alert
        /\ UNCHANGED <<deliveries, evidence, jobs>>
    BY <1>2, GotoEdit DEF ResolveIncident
  <2>2. i \in DOMAIN incidents /\ incidents[i] \in Incident /\ handler[h].seen \in Incident /\ Key(h) \in Keys
    BY <2>1, MyIncident DEF Located
  <2> DEFINE row == Folded(incidents[i], handler[h].seen, Key(h), "resolved")
  <2>3. /\ row \in Incident /\ row.state = "resolved" /\ row.key = Key(h)
        /\ row.auto = incidents[i].auto /\ row.job = incidents[i].job
    <3> HIDE DEF i
    <3> QED BY <2>2 DEF Folded, Incident, Entries
  <2>4. incidents' = [incidents EXCEPT ![i] = row]
    BY <2>1
  <2> HIDE DEF row
  <2>5. FoldsInto(h, i, row)
    BY <2>0, <2>1, <2>3 DEF FoldsInto
  <2>6. Folds
    BY <2>3, <2>4, <2>5
  <2> QED BY <2>2, <2>6
<1>3. CASE LinkInvestigation(h) /\ incidents' # incidents
  <2>1. handler[h].pc = "link" /\ incidents' = [incidents EXCEPT ![i].job = TRUE] /\ UNCHANGED jobs
    BY <1>3 DEF LinkInvestigation
  <2>2. i \in DOMAIN incidents /\ i \in jobs
    BY <2>1, MyIncident DEF HandlerOK, Located
  <2> QED BY <2>1, <2>2, LinkedType
<1>4. CASE InsertIncident(h) /\ incidents' # incidents
  BY <1>4 DEF InsertIncident, InsertConflicts
<1>5. UNCHANGED incidents \/ UpdateIncident(h) \/ ResolveIncident(h) \/ LinkInvestigation(h)
      \/ InsertIncident(h)
  BY DEF Step, RefreshDelivery, FindIncident, RefindIncident, LookForEvidence, RecordEvidence,
     EnqueueInvestigation, MarkProcessed, MarkFailed, StatementFails, Crash
<1> QED BY <1>1, <1>2, <1>3, <1>4, <1>5

\* The other tables.
LEMMA TableMoves ==
    ASSUME TypeOK, NEW h \in Handlers, HandlerOK(h), Step(h)
    PROVE  /\ \/ UNCHANGED jobs
              \/ /\ handler[h].pc = "enqueue" /\ jobs' = jobs \cup {handler[h].inc}
                 /\ handler'[h].pc = "link"
           /\ \/ UNCHANGED evidence
              \/ /\ handler[h].pc = "record"
                 /\ evidence' = [evidence EXCEPT ![<<handler[h].inc, Key(h)>>] = @ + 1]
                 /\ handler'[h].pc \in {"enqueue", "mark"}
           /\ \/ UNCHANGED deliveries
              \/ /\ handler[h].pc = "refresh" /\ handler'[h].pc = "find"
                 /\ deliveries' = [deliveries EXCEPT ![Key(h)] = "received"]
              \/ /\ handler'[h].pc = "idle"
                 /\ \/ handler[h].pc = "mark" /\ deliveries' = [deliveries EXCEPT ![Key(h)] = "processed"]
                    \/ handler[h].pc = "catch" /\ deliveries' = [deliveries EXCEPT ![Key(h)] = "failed"]
           /\ faults' \in {faults, faults + 1} /\ (faults' # faults => faults < MaxFaults)
<1> DEFINE Tables == UNCHANGED <<jobs, evidence, deliveries>>
           OneFault == faults' \in {faults, faults + 1} /\ (faults' # faults => faults < MaxFaults)
<1>0. OneFault
  BY DEF Step, RefreshDelivery, FindIncident, UpdateIncident, InsertIncident, RefindIncident,
     ResolveIncident, LookForEvidence, RecordEvidence, EnqueueInvestigation, LinkInvestigation,
     MarkProcessed, MarkFailed, StatementFails, Crash
<1>1. \/ Tables \/ RefreshDelivery(h) \/ RecordEvidence(h) \/ EnqueueInvestigation(h)
      \/ MarkProcessed(h) \/ MarkFailed(h)
  BY DEF Step, FindIncident, UpdateIncident, InsertIncident, RefindIncident, ResolveIncident,
     LookForEvidence, LinkInvestigation, StatementFails, Crash
<1>2. CASE RefreshDelivery(h)
  BY <1>0, <1>2, GotoEdit DEF RefreshDelivery
<1>3. CASE RecordEvidence(h)
  BY <1>0, <1>3, GotoEdit DEF RecordEvidence, AfterEvidence
<1>4. CASE EnqueueInvestigation(h)
  BY <1>0, <1>4, GotoEdit DEF EnqueueInvestigation
<1>5. CASE MarkProcessed(h) \/ MarkFailed(h)
  <2>1. handler'[h].pc = "idle"
    BY <1>5, HandlerEdit DEF MarkProcessed, MarkFailed, Idle
  <2> QED BY <1>0, <1>5, <2>1 DEF MarkProcessed, MarkFailed
<1> QED BY <1>0, <1>1, <1>2, <1>3, <1>4, <1>5

\* The incidents after a step: none is lost, and none changes whether it starts by itself.
LEMMA IncidentsGrow ==
    ASSUME TypeOK, NEW h \in Handlers, HandlerOK(h), Step(h)
    PROVE  /\ incidents' \in Seq(Incident) /\ DOMAIN incidents' = 1 .. Len(incidents')
           /\ \/ Len(incidents') = Len(incidents)
              \/ /\ Len(incidents') = Len(incidents) + 1
                 /\ handler[h].pc = "insert" /\ ActiveIncidents = {}
                 /\ incidents'[Len(incidents) + 1] = NewIncident(h)
                 /\ \A i \in DOMAIN incidents : incidents'[i] = incidents[i]
           /\ \A i \in DOMAIN incidents : i \in DOMAIN incidents' /\ incidents'[i].auto = incidents[i].auto
<1>1. /\ incidents \in Seq(Incident) /\ Len(incidents) \in Nat /\ DOMAIN incidents = 1 .. Len(incidents)
  BY TableTypes DEF TypeOK
<1>2. CASE UNCHANGED incidents
  BY <1>1, <1>2
<1>3. CASE /\ handler[h].pc = "insert" /\ ActiveIncidents = {}
           /\ incidents' = Append(incidents, NewIncident(h))
  <2>1. Key(h) \in Keys /\ handler[h].auto \in BOOLEAN
    BY <1>3, MyIncident DEF HandlerState
  <2>2. NewIncident(h) \in Incident
    BY <2>1 DEF NewIncident, Incident, Entries
  <2>3. /\ incidents' \in Seq(Incident) /\ Len(incidents') = Len(incidents) + 1
        /\ \A i \in 1 .. Len(incidents) : incidents'[i] = incidents[i]
        /\ incidents'[Len(incidents) + 1] = NewIncident(h)
    BY <1>1, <1>3, <2>2, AppendProperties
  <2>4. DOMAIN incidents' = 1 .. Len(incidents')
    BY <2>3, LenProperties
  <2> QED BY <1>1, <1>3, <2>3, <2>4
<1>4. ASSUME NEW i \in DOMAIN incidents, NEW row \in Incident,
             incidents' = [incidents EXCEPT ![i] = row], row.auto = incidents[i].auto
      PROVE  /\ incidents' \in Seq(Incident) /\ DOMAIN incidents' = 1 .. Len(incidents')
             /\ Len(incidents') = Len(incidents)
             /\ \A j \in DOMAIN incidents : j \in DOMAIN incidents' /\ incidents'[j].auto = incidents[j].auto
  <2>1. /\ incidents' \in Seq(Incident) /\ Len(incidents') = Len(incidents)
        /\ \A j \in 1 .. Len(incidents) : incidents'[j] = IF j = i THEN row ELSE incidents[j]
    BY <1>1, <1>4, ExceptSeq
  <2>2. DOMAIN incidents' = 1 .. Len(incidents')
    BY <2>1, LenProperties
  <2> QED BY <1>1, <1>4, <2>1, <2>2
<1> QED BY <1>2, <1>3, <1>4, IncidentMoves

-----------------------------------------------------------------------------
(* Every incident has a delivery that opened it.                           *)

LEMMA OpenersStep ==
    ASSUME TypeOK, OpenersDelivered, NEW h \in Handlers, HandlerOK(h), Step(h)
    PROVE  OpenersDelivered'
<1> USE DEF OpenersDelivered
<1>1. Openers' \subseteq Openers
  BY StepMoves DEF Openers
<1>2. IsFiniteSet(Openers) /\ Cardinality(Openers) \in Nat
  BY FS_CardinalityType
<1>3. IsFiniteSet(Openers') /\ Cardinality(Openers') <= Cardinality(Openers) /\ Cardinality(Openers') \in Nat
  BY <1>1, <1>2, FS_Subset, FS_CardinalityType
<1>4. sent' = sent /\ sent \in Nat /\ Len(incidents) \in Nat
  BY StepMoves, TableTypes
<1>5. CASE Len(incidents') = Len(incidents)
  BY <1>2, <1>3, <1>4, <1>5
<1>6. CASE Len(incidents') = Len(incidents) + 1 /\ handler[h].pc = "insert" /\ incidents' # incidents
  <2>1. InsertIncident(h) /\ ~ InsertConflicts
    BY <1>6 DEF Step, RefreshDelivery, FindIncident, UpdateIncident, InsertIncident, RefindIncident,
       ResolveIncident, LookForEvidence, RecordEvidence, EnqueueInvestigation, LinkInvestigation,
       MarkProcessed, MarkFailed, StatementFails, Crash
  <2> DEFINE t == [handler[h] EXCEPT !.pc = "evidence", !.inc = Len(incidents) + 1,
                                     !.seen = NewIncident(h)]
  <2>2. handler' = [handler EXCEPT ![h] = t] /\ t.pc = "evidence"
    BY <2>1, TableTypes DEF InsertIncident, HandlerState
  <2> HIDE DEF t
  <2>3. handler'[h].pc = "evidence"
    BY <2>2, HandlerEdit
  <2>4. h \in Openers /\ Openers' \subseteq Openers \ {h}
    BY <1>1, <1>6, <2>3 DEF Openers
  <2>5. IsFiniteSet(Openers \ {h}) /\ Cardinality(Openers \ {h}) = Cardinality(Openers) - 1
    BY <1>2, <2>4, FS_RemoveElement
  <2>6. Cardinality(Openers') <= Cardinality(Openers) - 1
    BY <2>4, <2>5, FS_Subset
  <2> QED BY <1>2, <1>3, <1>4, <1>6, <2>6
<1>7. Len(incidents') = Len(incidents) + 1 => incidents' # incidents
  BY <1>4
<1> QED BY <1>5, <1>6, <1>7, IncidentsGrow

LEMMA OpenersDeliver ==
    ASSUME TypeOK, OpenersDelivered, NEW h \in Handlers, NEW a \in Alerts, Deliver(h, a)
    PROVE  OpenersDelivered'
<1> USE DEF OpenersDelivered
<1>1. Openers' \subseteq Openers \cup {h}
  BY DeliverMoves DEF Openers
<1>2. IsFiniteSet(Openers) /\ Cardinality(Openers) \in Nat /\ h \notin Openers
  BY DeliverMoves, FS_CardinalityType DEF Openers
<1>3. IsFiniteSet(Openers \cup {h}) /\ Cardinality(Openers \cup {h}) = Cardinality(Openers) + 1
  BY <1>2, FS_AddElement
<1>4. /\ IsFiniteSet(Openers') /\ Cardinality(Openers') \in Nat
      /\ Cardinality(Openers') <= Cardinality(Openers) + 1
  BY <1>1, <1>3, FS_Subset, FS_CardinalityType
<1>5. sent' = sent + 1 /\ UNCHANGED incidents /\ sent \in Nat /\ Len(incidents) \in Nat
  BY DeliverMoves, TableTypes
<1> QED BY <1>2, <1>4, <1>5

-----------------------------------------------------------------------------
(* Where a step takes a request.                                           *)

\* A request that goes on with the incident it knows, or without one.
Proceeds(h, pc) ==
    LET old == handler[h].pc
        mine == <<handler[h].inc, Key(h)>>
    IN  /\ handler'[h] = [handler[h] EXCEPT !.pc = pc]
        /\ \/ old = "refresh" /\ pc = "find"
           \/ old = "find" /\ pc = "mark" /\ ~ Firing(h)
           \/ old = "find" /\ pc = "insert" /\ Firing(h)
           \/ /\ old \in {"update", "reupdate"} /\ pc = "evidence"
              /\ incidents[handler[h].inc].state = "active"
           \/ old = "update" /\ pc = "insert"
           \/ old = "insert" /\ pc = "refind"
           \/ old = "resolve" /\ pc = "evidence"
           \/ old = "evidence" /\ pc = "record" /\ ~ evidence[mine] > 0
           \/ /\ old = "evidence" /\ pc = AfterEvidence(h)
              /\ evidence[mine] > 0 /\ UNCHANGED evidence
           \/ /\ old = "record" /\ pc = AfterEvidence(h)
              /\ evidence' = [evidence EXCEPT ![mine] = @ + 1]
           \/ old = "enqueue" /\ pc = "link" /\ jobs' = jobs \cup {handler[h].inc}
           \/ old = "link" /\ pc = "mark"
           \/ pc = "catch"

\* A request that reads the open incident.
Finds(h, i) ==
    LET replay == Firing(h) /\ incidents[i].key = Key(h)
    IN  /\ handler'[h].alert = handler[h].alert /\ handler'[h].auto = handler[h].auto
        /\ handler'[h].inc = i /\ handler'[h].seen = incidents[i]
        /\ ReadsInto(h, i)
        /\ handler[h].pc \in {"find", "refind"}
        /\ handler'[h].pc \in {"evidence", "update", "reupdate", "resolve"}
        /\ handler'[h].pc = "evidence" <=> replay
        /\ handler'[h].pc \in {"update", "reupdate"} => Firing(h)
        /\ handler'[h].pc = "resolve" => ~ Firing(h)
        /\ UNCHANGED <<deliveries, incidents, evidence, jobs>>

Opens(h) ==
    /\ handler[h].pc = "insert" /\ ActiveIncidents = {}
    /\ handler'[h] = [handler[h] EXCEPT !.pc = "evidence", !.inc = Len(incidents) + 1,
                                        !.seen = NewIncident(h)]
    /\ incidents' = Append(incidents, NewIncident(h))
    /\ UNCHANGED <<deliveries, evidence, jobs>>

LEMMA StepGoes ==
    ASSUME TypeOK, NEW h \in Handlers, HandlerOK(h), Step(h)
    PROVE  \/ handler'[h] = Idle
           \/ Proceeds(h, handler'[h].pc)
           \/ \E i \in ActiveIncidents : Finds(h, i)
           \/ Opens(h)
<1> DEFINE Goes == Proceeds(h, handler'[h].pc) \/ \E i \in ActiveIncidents : Finds(h, i)
<1>0. handler[h] \in HandlerState
  BY TableTypes
<1>1. CASE FindIncident(h)
  <2>1. ASSUME NEW missing, NEW apply, Found(h, ActiveIncident, missing, apply),
               IF Firing(h) THEN missing = "insert" /\ apply = "update"
                            ELSE missing = "mark" /\ apply = "resolve"
        PROVE  Goes
    <3>1. handler[h].pc = "find" /\ UNCHANGED <<deliveries, incidents, evidence, jobs>>
      BY <1>1 DEF FindIncident
    <3>2. handler'[h].alert = handler[h].alert /\ handler'[h].auto = handler[h].auto
      BY <2>1, FoundEdit
    <3>3. CASE handler'[h] = [handler[h] EXCEPT !.pc = missing] /\ handler'[h].pc = missing
      BY <2>1, <3>1, <3>3 DEF Proceeds
    <3>4. ASSUME NEW i \in ActiveIncidents,
                 handler'[h].inc = i /\ handler'[h].seen = incidents[i],
               ReadsInto(h, i),
                 handler'[h].pc = IF Firing(h) /\ incidents[i].key = Key(h) THEN "evidence" ELSE apply
          PROVE  Finds(h, i)
      BY <2>1, <3>1, <3>2, <3>4 DEF Finds
    <3>5. \/ /\ handler'[h] = [handler[h] EXCEPT !.pc = missing] /\ handler'[h].pc = missing
          \/ \E i \in ActiveIncidents :
                /\ handler'[h].inc = i /\ handler'[h].seen = incidents[i] /\ ReadsInto(h, i)
                /\ handler'[h].pc = IF Firing(h) /\ incidents[i].key = Key(h)
                                    THEN "evidence" ELSE apply
      <4>1. Found(h, ActiveIncident, missing, apply)
        BY <2>1
      <4> QED BY ONLY TypeOK, h \in Handlers, <4>1, FoundEdit
    <3> QED BY <3>3, <3>4, <3>5
  <2>2. /\ ~ Firing(h) => Found(h, ActiveIncident, "mark", "resolve")
        /\ Firing(h) => Found(h, ActiveIncident, "insert", "update")
    <3>1. Firing(h) <=> AlertState(handler[h].alert) # "resolved"
      BY DEF Firing, AlertState
    <3> QED BY <1>1, <3>1 DEF FindIncident
  <2> QED BY <2>1, <2>2
<1>2. CASE RefindIncident(h)
  <2>1. Found(h, ActiveIncident, "catch", "reupdate")
    BY <1>2 DEF RefindIncident
  <2>2. handler[h].pc = "refind" /\ UNCHANGED <<deliveries, incidents, evidence, jobs>> /\ Firing(h)
    BY <1>2 DEF RefindIncident, HandlerOK, Firing
  <2>3. CASE /\ handler'[h] = [handler[h] EXCEPT !.pc = "catch"] /\ handler'[h].pc = "catch"
    BY <2>2, <2>3 DEF Proceeds
  <2>4. ASSUME NEW i \in ActiveIncidents,
               handler'[h].inc = i /\ handler'[h].seen = incidents[i],
               ReadsInto(h, i),
               handler'[h].pc = IF Firing(h) /\ incidents[i].key = Key(h) THEN "evidence" ELSE "reupdate"
        PROVE  Finds(h, i)
    <3>1. handler'[h].alert = handler[h].alert /\ handler'[h].auto = handler[h].auto
      BY <2>1, FoundEdit
    <3> QED BY <2>2, <2>4, <3>1 DEF Finds
  <2>5. \/ /\ handler'[h] = [handler[h] EXCEPT !.pc = "catch"] /\ handler'[h].pc = "catch"
        \/ \E i \in ActiveIncidents :
              /\ handler'[h].inc = i /\ handler'[h].seen = incidents[i]
              /\ ReadsInto(h, i)
              /\ handler'[h].pc = IF Firing(h) /\ incidents[i].key = Key(h) THEN "evidence" ELSE "reupdate"
    BY <2>1, FoundEdit
  <2> QED BY <2>3, <2>4, <2>5
<1>3. CASE UpdateIncident(h)
  BY <1>3, GotoEdit DEF UpdateIncident, StillActive, Proceeds
<1>4. CASE InsertIncident(h)
  <2>1. CASE InsertConflicts
    BY <1>4, <2>1, GotoEdit DEF InsertIncident, Proceeds
  <2>2. CASE ~ InsertConflicts
    <3> DEFINE t == [handler[h] EXCEPT !.pc = "evidence", !.inc = Len(incidents) + 1,
                                       !.seen = NewIncident(h)]
    <3>1. handler' = [handler EXCEPT ![h] = t]
      BY <1>4, <2>2 DEF InsertIncident
    <3> HIDE DEF t
    <3>2. handler'[h] = t
      BY <3>1, HandlerEdit
    <3> QED BY <1>4, <2>2, <3>2 DEF InsertIncident, InsertConflicts, Opens, t
  <2> QED BY <2>1, <2>2
<1>5. CASE ResolveIncident(h)
  BY <1>5, GotoEdit DEF ResolveIncident, Proceeds
<1>6. CASE LookForEvidence(h)
  <2>1. handler[h].pc = "evidence" /\ UNCHANGED evidence
        /\ Goto(h, IF evidence[<<handler[h].inc, Key(h)>>] > 0 THEN AfterEvidence(h) ELSE "record")
    BY <1>6 DEF LookForEvidence
  <2>2. CASE evidence[<<handler[h].inc, Key(h)>>] > 0
    BY <2>1, <2>2, GotoEdit DEF Proceeds
  <2>3. CASE ~ evidence[<<handler[h].inc, Key(h)>>] > 0
    BY <2>1, <2>3, GotoEdit DEF Proceeds
  <2> QED BY <2>2, <2>3
<1>7. CASE RecordEvidence(h)
  BY <1>7, GotoEdit DEF RecordEvidence, Proceeds
<1>8. CASE EnqueueInvestigation(h)
  BY <1>8, GotoEdit DEF EnqueueInvestigation, Proceeds
<1>9. CASE LinkInvestigation(h)
  BY <1>9, GotoEdit DEF LinkInvestigation, Proceeds
<1>10. CASE RefreshDelivery(h)
  BY <1>10, GotoEdit DEF RefreshDelivery, Proceeds
<1>11. CASE MarkProcessed(h) \/ MarkFailed(h) \/ Crash(h)
  BY <1>11, HandlerEdit DEF MarkProcessed, MarkFailed, Crash
<1>12. CASE StatementFails(h)
  <2>1. CASE handler[h].pc = "refresh"
    BY <1>12, <2>1, HandlerEdit DEF StatementFails
  <2>2. CASE handler[h].pc # "refresh"
    <3>1. Goto(h, "catch")
      BY <1>12, <2>2 DEF StatementFails, Goto
    <3> QED BY <3>1, GotoEdit DEF Proceeds
  <2> QED BY <2>1, <2>2
<1> QED BY <1>1, <1>2, <1>3, <1>4, <1>5, <1>6, <1>7, <1>8, <1>9, <1>10, <1>11, <1>12 DEF Step

-----------------------------------------------------------------------------
(* Types and what a request knows.                                         *)

LEMMA NewIncidentType ==
    ASSUME TypeOK, NEW h \in Handlers, HandlerOK(h), handler[h].pc = "insert"
    PROVE  /\ NewIncident(h) \in Incident /\ NewIncident(h).state = "active"
           /\ NewIncident(h).key = Key(h) /\ NewIncident(h).auto = handler[h].auto
           /\ NewIncident(h).job = FALSE
<1>1. Key(h) \in Keys /\ handler[h].auto \in BOOLEAN
  BY MyIncident DEF HandlerState
<1> QED BY <1>1 DEF NewIncident, Incident, Entries

\* The tables only grow, so a request that stands still knows what it knew.
LEMMA StillOK ==
    ASSUME TypeOK, NEW g \in Handlers, HandlerOK(g), handler'[g] = handler[g],
           Len(incidents) <= Len(incidents'), Len(incidents') \in Nat, jobs \subseteq jobs',
           \A i \in DOMAIN incidents : i \in DOMAIN incidents' /\ incidents'[i].auto = incidents[i].auto
    PROVE  handler'[g] \in HandlerState' /\ HandlerOK(g)'
<1>1. handler[g] \in HandlerState
  BY TableTypes
<1>2. Len(incidents) \in Nat
  BY TableTypes
<1>3. 0 .. Len(incidents) \subseteq 0 .. Len(incidents')
  BY <1>2
<1>4. handler'[g] \in HandlerState'
  BY <1>1, <1>3 DEF HandlerState
<1> QED BY <1>4 DEF HandlerOK

LEMMA IncidentsLonger ==
    ASSUME TypeOK, NEW h \in Handlers, HandlerOK(h), Step(h)
    PROVE  /\ Len(incidents) <= Len(incidents') /\ Len(incidents') \in Nat /\ jobs \subseteq jobs'
           /\ \A i \in DOMAIN incidents : i \in DOMAIN incidents' /\ incidents'[i].auto = incidents[i].auto
<1>1. Len(incidents) \in Nat
  BY TableTypes
<1>2. jobs \subseteq jobs'
  BY TableMoves
<1>3. Len(incidents') = Len(incidents) \/ Len(incidents') = Len(incidents) + 1
  BY IncidentsGrow
<1>4. \A i \in DOMAIN incidents : i \in DOMAIN incidents' /\ incidents'[i].auto = incidents[i].auto
  BY IncidentsGrow
<1> QED BY <1>1, <1>2, <1>3, <1>4

LEMMA MovedOK ==
    ASSUME TypeOK, IncidentsOK, NEW h \in Handlers, HandlerOK(h), Step(h)
    PROVE  handler'[h] \in HandlerState' /\ HandlerOK(h)'
<1>0. /\ handler[h] \in HandlerState /\ handler'[h].pc \in Pcs
      /\ Len(incidents) \in Nat /\ DOMAIN incidents = 1 .. Len(incidents)
      /\ \A i \in DOMAIN incidents : incidents[i] \in Incident
  BY TableTypes, StepMoves
<1>1. /\ Len(incidents) <= Len(incidents') /\ Len(incidents') \in Nat /\ jobs \subseteq jobs'
      /\ \A i \in DOMAIN incidents : i \in DOMAIN incidents' /\ incidents'[i].auto = incidents[i].auto
  BY IncidentsLonger
<1>2. CASE handler'[h] = Idle
  <2>1. 0 \in 0 .. Len(incidents')
    BY <1>1
  <2>2. handler'[h] \in HandlerState'
    BY <1>2, <2>1 DEF HandlerState, Idle, Pcs
  <2>3. handler'[h].pc = "idle"
    BY <1>2 DEF Idle
  <2> QED BY <2>2, <2>3 DEF HandlerOK
<1>3. CASE Proceeds(h, handler'[h].pc)
  <2> DEFINE pc == handler'[h].pc
  <2>1. /\ handler'[h].alert = handler[h].alert /\ handler'[h].auto = handler[h].auto
        /\ handler'[h].inc = handler[h].inc /\ handler'[h].seen = handler[h].seen
    BY <1>0, <1>3 DEF Proceeds, HandlerState
  <2>2. 0 .. Len(incidents) \subseteq 0 .. Len(incidents')
    BY <1>0, <1>1
  <2>3. handler'[h] \in HandlerState'
    <3>1. handler[h].inc \in 0 .. Len(incidents')
      BY <1>0, <2>2 DEF HandlerState
    <3> QED BY <1>0, <1>3, <3>1 DEF Proceeds, HandlerState
  <2>4. AfterEvidence(h) \in {"enqueue", "mark"} /\ (AfterEvidence(h) = "enqueue" => Firing(h))
    BY DEF AfterEvidence, Firing
  <2>5. /\ pc # "idle" => handler[h].pc # "idle"
        /\ pc \in Located => handler[h].pc \in Located
        /\ pc \in {"update", "reupdate", "insert", "refind"} => Firing(h)
        /\ pc = "link" => handler[h].inc \in jobs'
        /\ pc # "resolve"
    <3>1. handler[h].pc # "idle"
      BY StepMoves
    <3>2. handler[h].pc \in {"update", "reupdate", "insert", "refind"} => Firing(h)
      BY DEF HandlerOK, Firing
    <3> QED BY <1>3, <2>4, <3>1, <3>2 DEF Proceeds, Located
  <2> QED BY <1>1, <2>1, <2>3, <2>5 DEF HandlerOK, Located, Firing
<1>4. ASSUME NEW i \in ActiveIncidents, Finds(h, i)
      PROVE  handler'[h] \in HandlerState' /\ HandlerOK(h)'
  <2>1. i \in DOMAIN incidents /\ incidents[i] \in Incident /\ i \in 0 .. Len(incidents)
        /\ (incidents[i].job => i \in jobs)
    BY <1>0, <1>4 DEF ActiveIncidents, IncidentsOK
  <2>2. handler[h].pc # "idle" /\ handler[h].alert \in Alerts
    BY MyIncident, StepMoves
  <2>3. handler'[h] \in HandlerState'
    <3>1. /\ handler'[h].alert \in Alerts \cup {NoAlert} /\ handler'[h].auto \in BOOLEAN
          /\ handler'[h].inc \in 0 .. Len(incidents') /\ handler'[h].seen \in Incident \cup {NoIncident}
      BY <1>0, <1>4, <2>1 DEF Finds, HandlerState
    <3>2. ReadsInto(h, i)
      BY <1>4 DEF Finds
    <3> QED BY <1>0, <3>1, <3>2 DEF HandlerState, ReadsInto
  <2> QED BY <1>4, <2>1, <2>2, <2>3 DEF Finds, HandlerOK, Firing, AlertState
<1>5. CASE Opens(h)
  <2>1. /\ handler'[h].pc = "evidence" /\ handler'[h].alert = handler[h].alert
        /\ handler'[h].auto = handler[h].auto
        /\ handler'[h].inc = Len(incidents) + 1 /\ handler'[h].seen = NewIncident(h)
    BY <1>0, <1>5 DEF Opens, HandlerState
  <2>2. /\ Len(incidents') = Len(incidents) + 1 /\ incidents'[Len(incidents) + 1] = NewIncident(h)
        /\ DOMAIN incidents' = 1 .. Len(incidents')
    <3>1. NewIncident(h) \in Incident /\ incidents \in Seq(Incident)
      BY <1>5, NewIncidentType DEF Opens, TypeOK
    <3>2. /\ Len(incidents') = Len(incidents) + 1 /\ incidents'[Len(incidents) + 1] = NewIncident(h)
          /\ incidents' \in Seq(Incident)
      BY <1>5, <3>1, AppendProperties DEF Opens
    <3> QED BY <3>2, LenProperties
  <2>3. NewIncident(h) \in Incident /\ NewIncident(h).job = FALSE
    BY <1>5, NewIncidentType DEF Opens
  <2>4. Len(incidents) + 1 \in 0 .. Len(incidents') /\ Len(incidents) + 1 \in DOMAIN incidents'
    BY <1>0, <2>2
  <2>5. handler'[h] \in HandlerState'
    BY <1>0, <1>5, <2>3, <2>4 DEF Opens, HandlerState, Pcs
  <2>6. handler[h].pc # "idle" /\ handler[h].alert \in Alerts
    BY MyIncident, StepMoves
  <2> QED BY <2>1, <2>2, <2>3, <2>4, <2>5, <2>6 DEF HandlerOK
<1> QED BY <1>2, <1>3, <1>4, <1>5, StepGoes

-----------------------------------------------------------------------------
(* The steps keep the types.                                               *)

IncBase == TypeOK /\ OpenersDelivered /\ IncidentsOK /\ \A h \in Handlers : HandlerOK(h)

LEMMA FiringKey ==
    ASSUME NEW h \in Handlers, Firing(h)
    PROVE  Key(h)[1] # "recovered"
BY DEF Firing, AlertState, Key, AlertTransitionKey

LEMMA HandlersStep ==
    ASSUME IncBase, NEW h \in Handlers, Step(h)
    PROVE  \A g \in Handlers : handler'[g] \in HandlerState' /\ HandlerOK(g)'
<1>1. handler'[h] \in HandlerState' /\ HandlerOK(h)'
  BY MovedOK DEF IncBase
<1>2. ASSUME NEW g \in Handlers, g # h PROVE handler'[g] \in HandlerState' /\ HandlerOK(g)'
  <2>1. handler'[g] = handler[g]
    BY <1>2, StepMoves DEF IncBase
  <2>2. /\ Len(incidents) <= Len(incidents') /\ Len(incidents') \in Nat /\ jobs \subseteq jobs'
        /\ \A i \in DOMAIN incidents : i \in DOMAIN incidents' /\ incidents'[i].auto = incidents[i].auto
    BY IncidentsLonger DEF IncBase
  <2>3. TypeOK /\ HandlerOK(g)
    BY DEF IncBase
  <2> QED BY <2>1, <2>2, <2>3, StillOK
<1> QED BY <1>1, <1>2

LEMMA TypeOKStep ==
    ASSUME IncBase, NEW h \in Handlers, Step(h)
    PROVE  TypeOK'
<1>0. TypeOK /\ HandlerOK(h) /\ OpenersDelivered
  BY DEF IncBase
<1>1. /\ UNCHANGED <<sent, overlapped>>
      /\ \E t : handler' = [handler EXCEPT ![h] = t]
  BY <1>0, StepMoves
<1>2. handler' \in [Handlers -> [pc : Pcs, alert : Alerts \cup {NoAlert}, auto : BOOLEAN,
                                 inc : 0 .. Len(incidents'), seen : Incident \cup {NoIncident}]]
  <2>1. \A g \in Handlers : handler'[g] \in [pc : Pcs, alert : Alerts \cup {NoAlert}, auto : BOOLEAN,
                                 inc : 0 .. Len(incidents'), seen : Incident \cup {NoIncident}]
    BY HandlersStep DEF HandlerState
  <2>2. handler' = [g \in Handlers |-> handler'[g]]
    BY <1>0, <1>1 DEF TypeOK
  <2> QED BY <2>1, <2>2
<1>3. incidents' \in Seq(Incident) /\ Len(incidents') <= sent'
  <2>1. OpenersDelivered' /\ incidents' \in Seq(Incident)
    BY <1>0, OpenersStep, IncidentsGrow
  <2>2. Len(incidents') \in Nat /\ Cardinality(Openers') \in Nat /\ sent' \in Nat
    BY <1>0, <1>1, <2>1, FS_CardinalityType, LenProperties, TableTypes DEF OpenersDelivered
  <2> QED BY <2>1, <2>2 DEF OpenersDelivered
<1>4. handler[h].pc # "idle" => Key(h) \in Keys
  BY <1>0, MyIncident
<1>5. handler[h].pc # "idle"
  BY <1>0, StepMoves
<1>6. deliveries' \in [Keys -> {"absent", "received", "processed", "failed"}]
  BY <1>0, <1>4, <1>5, TableMoves DEF TypeOK
<1>7. evidence' \in [Rows \X Keys -> Nat]
  <2> DEFINE mine == <<handler[h].inc, Key(h)>>
  <2>1. handler[h].pc = "record" => mine \in Rows \X Keys
    BY <1>0, <1>4, <1>5, MyIncident DEF Located
  <2>2. UNCHANGED evidence \/ (handler[h].pc = "record" /\ evidence' = [evidence EXCEPT ![mine] = @ + 1])
    BY <1>0, TableMoves
  <2> HIDE DEF mine
  <2>3. \A m \in Rows \X Keys : evidence[m] + 1 \in Nat
    BY <1>0 DEF TypeOK
  <2> QED BY <1>0, <2>1, <2>2, <2>3 DEF TypeOK
<1>8. jobs' \subseteq DOMAIN incidents'
  <2>1. handler[h].pc = "enqueue" => handler[h].inc \in DOMAIN incidents
    BY <1>0, MyIncident DEF Located
  <2>2. \A i \in DOMAIN incidents : i \in DOMAIN incidents'
    BY <1>0, IncidentsGrow
  <2>3. jobs' \subseteq jobs \/ (handler[h].pc = "enqueue" /\ jobs' = jobs \cup {handler[h].inc})
    BY <1>0, TableMoves
  <2> QED BY <1>0, <2>1, <2>2, <2>3 DEF TypeOK
<1>9. faults' \in 0 .. MaxFaults
  <2>1. faults \in 0 .. MaxFaults /\ MaxFaults \in Nat
    BY <1>0, DatadogAssumption DEF TypeOK, DatadogAssumption
  <2>2. faults' \in {faults, faults + 1} /\ (faults' # faults => faults < MaxFaults)
    BY <1>0, TableMoves
  <2> QED BY <2>1, <2>2
<1>10. sent' \in 0 .. MaxSends /\ overlapped' \subseteq Keys
  BY <1>0, <1>1 DEF TypeOK
<1> QED BY <1>2, <1>3, <1>6, <1>7, <1>8, <1>9, <1>10 DEF TypeOK

\* The incidents after a step, one by one.
LEMMA RowMoves ==
    ASSUME IncBase, NEW h \in Handlers, Step(h), NEW i \in DOMAIN incidents'
    PROVE  \/ /\ i \in DOMAIN incidents
              /\ \/ incidents'[i] = incidents[i]
                 \/ FoldsInto(h, i, incidents'[i])
                 \/ Links(i, incidents'[i])
           \/ Opens(h) /\ i = Len(incidents) + 1 /\ incidents'[i] = NewIncident(h)
<1>0. TypeOK /\ HandlerOK(h) /\ incidents \in Seq(Incident)
  BY DEF IncBase, TypeOK
<1>1. DOMAIN incidents = 1 .. Len(incidents) /\ Len(incidents) \in Nat
  BY <1>0, TableTypes
<1>2. CASE UNCHANGED incidents
  BY <1>2
<1>3. CASE Opens(h)
  <2>1. NewIncident(h) \in Incident
    BY <1>0, <1>3, NewIncidentType DEF Opens
  <2>2. /\ incidents' \in Seq(Incident) /\ Len(incidents') = Len(incidents) + 1
        /\ \A j \in 1 .. Len(incidents) : incidents'[j] = incidents[j]
        /\ incidents'[Len(incidents) + 1] = NewIncident(h)
    BY <1>0, <1>3, <2>1, AppendProperties DEF Opens
  <2>3. DOMAIN incidents' = 1 .. Len(incidents')
    BY <2>2, LenProperties
  <2> QED BY <1>1, <1>3, <2>2, <2>3
<1>4. ASSUME NEW j \in DOMAIN incidents, NEW row \in Incident,
             incidents' = [incidents EXCEPT ![j] = row], FoldsInto(h, j, row) \/ Links(j, row)
      PROVE  /\ i \in DOMAIN incidents
             /\ incidents'[i] = incidents[i] \/ FoldsInto(h, i, incidents'[i]) \/ Links(i, incidents'[i])
  <2>1. i \in DOMAIN incidents /\ incidents'[i] = IF i = j THEN row ELSE incidents[i]
    BY <1>1, <1>4
  <2> QED BY <1>4, <2>1
<1>5. (/\ handler[h].pc = "insert" /\ ActiveIncidents = {}
       /\ incidents' = Append(incidents, NewIncident(h))) => Opens(h) \/ UNCHANGED incidents
  <2> SUFFICES ASSUME incidents' # incidents, handler[h].pc = "insert", ActiveIncidents = {}
               PROVE  Opens(h)
    OBVIOUS
  <2>1. InsertIncident(h) /\ ~ InsertConflicts
    BY DEF InsertConflicts, Step, RefreshDelivery, FindIncident, UpdateIncident, InsertIncident,
       RefindIncident, ResolveIncident, LookForEvidence, RecordEvidence, EnqueueInvestigation,
       LinkInvestigation, MarkProcessed, MarkFailed, StatementFails, Crash
  <2> DEFINE t == [handler[h] EXCEPT !.pc = "evidence", !.inc = Len(incidents) + 1,
                                     !.seen = NewIncident(h)]
  <2>2. handler' = [handler EXCEPT ![h] = t]
    BY <2>1 DEF InsertIncident
  <2> HIDE DEF t
  <2>3. handler'[h] = t
    BY <1>0, <2>2, HandlerEdit
  <2> QED BY <2>1, <2>3 DEF InsertIncident, Opens, t
<1> QED BY <1>0, <1>2, <1>3, <1>4, <1>5, IncidentMoves

LEMMA IncidentsOKStep ==
    ASSUME IncBase, NEW h \in Handlers, Step(h)
    PROVE  IncidentsOK'
<1> SUFFICES ASSUME NEW i \in DOMAIN incidents'
             PROVE  /\ incidents'[i].state = "active" => incidents'[i].key[1] # "recovered"
                    /\ incidents'[i].job => i \in jobs'
  BY DEF IncidentsOK
<1>0. TypeOK /\ HandlerOK(h) /\ jobs \subseteq jobs'
  BY IncidentsLonger DEF IncBase
<1>1. handler[h].pc \in {"insert", "update", "reupdate"} => Key(h)[1] # "recovered"
  BY <1>0, FiringKey DEF HandlerOK, Firing
<1>2. CASE i \in DOMAIN incidents /\ incidents'[i] = incidents[i]
  BY <1>0, <1>2 DEF IncBase, IncidentsOK
<1>3. CASE i \in DOMAIN incidents /\ FoldsInto(h, i, incidents'[i])
  BY <1>0, <1>1, <1>3 DEF IncBase, IncidentsOK, FoldsInto
<1>4. CASE i \in DOMAIN incidents /\ Links(i, incidents'[i])
  BY <1>0, <1>4 DEF IncBase, IncidentsOK, Links
<1>5. CASE Opens(h) /\ incidents'[i] = NewIncident(h)
  BY <1>0, <1>1, <1>5, NewIncidentType DEF Opens
<1> QED BY <1>2, <1>3, <1>4, <1>5, RowMoves

LEMMA BaseStep ==
    ASSUME IncBase, NEW h \in Handlers, Step(h)
    PROVE  IncBase'
BY TypeOKStep, HandlersStep, IncidentsOKStep, OpenersStep DEF IncBase

LEMMA BaseDeliver ==
    ASSUME IncBase, NEW h \in Handlers, NEW a \in Alerts, Deliver(h, a)
    PROVE  IncBase'
<1>0. TypeOK /\ OpenersDelivered
  BY DEF IncBase
<1>k. AlertTransitionKey(a) \in Keys
  BY DEF Keys
<1>1. /\ sent' = sent + 1 /\ sent < MaxSends /\ UNCHANGED <<incidents, evidence, jobs, faults>>
      /\ \A g \in Handlers \ {h} : handler'[g] = handler[g]
      /\ overlapped' \subseteq overlapped \cup {AlertTransitionKey(a)}
  BY <1>0, DeliverMoves
<1>2. \/ UNCHANGED <<handler, deliveries>>
      \/ /\ handler'[h].alert = a /\ handler'[h] \in HandlerState
         /\ handler'[h].pc \in {"find", "refresh"}
         /\ \/ deliveries' = [deliveries EXCEPT ![AlertTransitionKey(a)] = "received"]
            \/ UNCHANGED deliveries
  BY <1>0, DeliverMoves
<1>3. \A g \in Handlers : handler'[g] \in HandlerState
  BY <1>0, <1>1, <1>2, TableTypes
<1>4. \A g \in Handlers : HandlerOK(g)'
  BY <1>1, <1>2 DEF IncBase, HandlerOK
<1>5. handler' \in [Handlers -> HandlerState]
  <2>1. \E t : handler' = [handler EXCEPT ![h] = t] \/ handler' = handler
    BY DEF Deliver
  <2>2. handler' = [g \in Handlers |-> handler'[g]]
    BY <1>0, <2>1 DEF TypeOK
  <2> QED BY <1>3, <2>2
<1>6. /\ sent' \in 0 .. MaxSends /\ Len(incidents') <= sent'
      /\ deliveries' \in [Keys -> {"absent", "received", "processed", "failed"}]
      /\ overlapped' \subseteq Keys
  <2>1. sent \in Nat /\ MaxSends \in Nat /\ Len(incidents) \in Nat /\ Len(incidents) <= sent
    BY <1>0, TableTypes
  <2>2. sent' \in 0 .. MaxSends /\ Len(incidents') <= sent'
    BY <1>1, <2>1
  <2> QED BY <1>0, <1>1, <1>2, <1>k, <2>2 DEF TypeOK
<1>7. TypeOK'
  BY <1>0, <1>1, <1>5, <1>6 DEF TypeOK, HandlerState
<1>8. OpenersDelivered'
  BY <1>0, OpenersDeliver
<1> QED BY <1>1, <1>4, <1>7, <1>8 DEF IncBase, IncidentsOK

LEMMA StartMoves ==
    ASSUME TypeOK, NEW i \in DOMAIN incidents, StartInvestigation(i)
    PROVE  /\ jobs' = jobs \cup {i} /\ UNCHANGED <<deliveries, evidence, handler, sent, overlapped>>
           /\ incidents' \in Seq(Incident) /\ Len(incidents') = Len(incidents)
           /\ DOMAIN incidents' = DOMAIN incidents
           /\ faults' \in {faults, faults + 1} /\ (faults' # faults => faults < MaxFaults)
           /\ \A j \in DOMAIN incidents :
                 /\ incidents'[j].state = incidents[j].state /\ incidents'[j].key = incidents[j].key
                 /\ incidents'[j].auto = incidents[j].auto
                 /\ incidents'[j].job => incidents[j].job \/ j = i
<1>1. /\ incidents \in Seq(Incident) /\ DOMAIN incidents = 1 .. Len(incidents)
      /\ \A j \in DOMAIN incidents : incidents[j] \in Incident
  BY TableTypes DEF TypeOK
<1>2. /\ jobs' = jobs \cup {i} /\ UNCHANGED <<deliveries, evidence, handler, sent, overlapped>>
      /\ faults' \in {faults, faults + 1} /\ (faults' # faults => faults < MaxFaults)
  BY DEF StartInvestigation
<1>3. CASE UNCHANGED incidents
  BY <1>1, <1>2, <1>3
<1>4. CASE incidents' = [incidents EXCEPT ![i].job = TRUE]
  <2> DEFINE row == [incidents[i] EXCEPT !.job = TRUE]
  <2>1. incidents' = [incidents EXCEPT ![i] = row]
    BY <1>4
  <2>2. /\ row \in Incident /\ row.state = incidents[i].state /\ row.key = incidents[i].key
        /\ row.auto = incidents[i].auto
    BY <1>1 DEF Incident
  <2> HIDE DEF row
  <2>3. /\ incidents' \in Seq(Incident) /\ Len(incidents') = Len(incidents)
        /\ \A j \in 1 .. Len(incidents) : incidents'[j] = IF j = i THEN row ELSE incidents[j]
    BY <1>1, <2>1, <2>2, ExceptSeq
  <2>4. DOMAIN incidents' = DOMAIN incidents
    BY <2>1
  <2> QED BY <1>1, <1>2, <2>2, <2>3, <2>4
<1> QED BY <1>3, <1>4 DEF StartInvestigation

LEMMA BaseStart ==
    ASSUME IncBase, NEW i \in DOMAIN incidents, StartInvestigation(i)
    PROVE  IncBase'
<1>0. TypeOK /\ OpenersDelivered
  BY DEF IncBase
<1>1. /\ jobs' = jobs \cup {i} /\ UNCHANGED <<deliveries, evidence, handler, sent, overlapped>>
      /\ incidents' \in Seq(Incident) /\ Len(incidents') = Len(incidents)
      /\ DOMAIN incidents' = DOMAIN incidents
      /\ faults' \in {faults, faults + 1} /\ (faults' # faults => faults < MaxFaults)
  BY <1>0, StartMoves
<1>2. \A j \in DOMAIN incidents :
         /\ incidents'[j].state = incidents[j].state /\ incidents'[j].key = incidents[j].key
         /\ incidents'[j].auto = incidents[j].auto
         /\ incidents'[j].job => incidents[j].job \/ j = i
  BY <1>0, StartMoves
<1>3. faults' \in 0 .. MaxFaults
  <2>1. faults \in 0 .. MaxFaults /\ MaxFaults \in Nat
    BY <1>0, DatadogAssumption DEF TypeOK, DatadogAssumption
  <2> QED BY <1>1, <2>1
<1>4. TypeOK'
  BY <1>0, <1>1, <1>3 DEF TypeOK
<1>5. IncidentsOK' /\ \A h \in Handlers : HandlerOK(h)'
  BY <1>1, <1>2 DEF IncBase, IncidentsOK, HandlerOK
<1>6. OpenersDelivered'
  BY <1>0, <1>1 DEF OpenersDelivered, Openers
<1> QED BY <1>4, <1>5, <1>6 DEF IncBase

-----------------------------------------------------------------------------
(* One open incident.                                                      *)

OneActive == \A i, j \in ActiveIncidents : i = j

LEMMA OneActiveIsOne ==
    ASSUME TypeOK
    PROVE  OneActiveIncident <=> OneActive
<1>1. IsFiniteSet(ActiveIncidents) /\ Cardinality(ActiveIncidents) \in Nat
  <2>1. DOMAIN incidents = 1 .. Len(incidents) /\ Len(incidents) \in Nat
    BY TableTypes
  <2>2. IsFiniteSet(1 .. Len(incidents))
    BY <2>1, FS_Interval
  <2> QED BY <2>1, <2>2, FS_Subset, FS_CardinalityType DEF ActiveIncidents
<1>2. ASSUME OneActive PROVE OneActiveIncident
  <2>1. CASE ActiveIncidents = {}
    BY <2>1, FS_EmptySet DEF OneActiveIncident
  <2>2. ASSUME NEW i \in ActiveIncidents PROVE OneActiveIncident
    <3>1. ActiveIncidents = {i}
      BY <1>2, <2>2 DEF OneActive
    <3>2. Cardinality({i}) = 1
      BY FS_Singleton
    <3> QED BY <3>1, <3>2 DEF OneActiveIncident
  <2> QED BY <2>1, <2>2
<1>3. ASSUME OneActiveIncident, NEW i \in ActiveIncidents, NEW j \in ActiveIncidents PROVE i = j
  <2>1. /\ IsFiniteSet(ActiveIncidents \ {i})
        /\ Cardinality(ActiveIncidents \ {i}) = Cardinality(ActiveIncidents) - 1
        /\ Cardinality(ActiveIncidents \ {i}) \in Nat
    BY <1>1, <1>3, FS_RemoveElement, FS_CardinalityType
  <2>2. Cardinality(ActiveIncidents \ {i}) = 0
    BY <1>1, <1>3, <2>1 DEF OneActiveIncident
  <2>3. ActiveIncidents \ {i} = {}
    BY <2>1, <2>2, FS_EmptySet
  <2> QED BY <1>3, <2>3
<1> QED BY <1>2, <1>3 DEF OneActive

\* An open incident was open, or it is the new one and there was none.
LEMMA ActiveMoves ==
    ASSUME IncBase, NEW h \in Handlers, Step(h), NEW i \in ActiveIncidents'
    PROVE  \/ /\ i \in ActiveIncidents /\ incidents'[i].auto = incidents[i].auto
              /\ \/ incidents'[i].key = incidents[i].key
                 \/ FoldsInto(h, i, incidents'[i])
           \/ Opens(h) /\ i = Len(incidents) + 1 /\ incidents'[i] = NewIncident(h)
<1>0. TypeOK /\ HandlerOK(h)
  BY DEF IncBase
<1>1. i \in DOMAIN incidents' /\ incidents'[i].state = "active"
  BY DEF ActiveIncidents
<1>2. CASE i \in DOMAIN incidents /\ incidents'[i] = incidents[i]
  BY <1>1, <1>2 DEF ActiveIncidents
<1>3. CASE i \in DOMAIN incidents /\ FoldsInto(h, i, incidents'[i])
  <2>1. incidents'[i].auto = incidents[i].auto
    BY <1>0, <1>3, IncidentsGrow
  <2> QED BY <1>1, <1>3, <2>1 DEF ActiveIncidents, FoldsInto
<1>4. CASE i \in DOMAIN incidents /\ Links(i, incidents'[i])
  <2>1. incidents'[i].auto = incidents[i].auto
    BY <1>0, <1>4, IncidentsGrow
  <2> QED BY <1>1, <1>4, <2>1 DEF ActiveIncidents, Links
<1> QED BY <1>1, <1>2, <1>3, <1>4, RowMoves

LEMMA OneActiveStep ==
    ASSUME IncBase, OneActive, NEW h \in Handlers, Step(h)
    PROVE  OneActive'
<1> SUFFICES ASSUME NEW i \in ActiveIncidents', NEW j \in ActiveIncidents' PROVE i = j
  BY DEF OneActive
<1>1. i \in ActiveIncidents \/ (ActiveIncidents = {} /\ i = Len(incidents) + 1)
  BY ActiveMoves DEF Opens
<1>2. j \in ActiveIncidents \/ (ActiveIncidents = {} /\ j = Len(incidents) + 1)
  BY ActiveMoves DEF Opens
<1> QED BY <1>1, <1>2 DEF OneActive

-----------------------------------------------------------------------------
(* One request per delivery.                                               *)

DeliveriesOK == OneHandlerPerKey /\ OpenUntilHandled

LEMMA KeyMoves ==
    ASSUME IncBase, NEW h \in Handlers, Step(h), NEW g \in Handlers, handler'[g].pc # "idle"
    PROVE  /\ handler[g].pc # "idle" /\ Key(g)' = Key(g) /\ Key(g) \in Keys
           /\ AlertState(handler'[g].alert) = AlertState(handler[g].alert)
<1>1. handler'[g].alert = handler[g].alert /\ handler[g].pc # "idle"
  BY StepMoves DEF IncBase
<1>2. Key(g) \in Keys
  BY <1>1, MyIncident DEF IncBase
<1> QED BY <1>1, <1>2 DEF Key

LEMMA DeliveriesStep ==
    ASSUME IncBase, DeliveriesOK, NEW h \in Handlers, Step(h)
    PROVE  DeliveriesOK'
<1>0. TypeOK /\ HandlerOK(h) /\ overlapped' = overlapped
  BY StepMoves DEF IncBase
<1>1. OneHandlerPerKey'
  <2> SUFFICES ASSUME NEW f \in Handlers, NEW g \in Handlers, handler'[f].pc # "idle",
                      handler'[g].pc # "idle", Key(f)' = Key(g)', f # g
               PROVE  Key(g)' \in overlapped
    BY <1>0 DEF OneHandlerPerKey
  <2> QED BY KeyMoves DEF DeliveriesOK, OneHandlerPerKey
<1>2. OpenUntilHandled'
  <2> SUFFICES ASSUME NEW g \in Handlers, handler'[g].pc # "idle", Key(g)' \notin overlapped
               PROVE  deliveries'[Key(g)'] # "processed"
    BY <1>0 DEF OpenUntilHandled
  <2>1. /\ handler[g].pc # "idle" /\ Key(g)' = Key(g) /\ Key(g) \in Keys
        /\ deliveries[Key(g)] # "processed"
    BY KeyMoves DEF DeliveriesOK, OpenUntilHandled
  <2>2. CASE handler'[h].pc = "idle"
    <3>1. handler[h].pc # "idle" /\ g # h
      BY <1>0, <2>2, StepMoves
    <3>2. Key(g) # Key(h)
      BY <2>1, <3>1 DEF DeliveriesOK, OneHandlerPerKey
    <3>3. deliveries' = deliveries \/ \E s : deliveries' = [deliveries EXCEPT ![Key(h)] = s]
      BY <1>0, TableMoves
    <3> QED BY <1>0, <2>1, <3>2, <3>3 DEF TypeOK
  <2>3. CASE handler'[h].pc # "idle"
    <3>1. deliveries' = deliveries \/ deliveries' = [deliveries EXCEPT ![Key(h)] = "received"]
      BY <1>0, <2>3, TableMoves
    <3> QED BY <1>0, <2>1, <3>1 DEF TypeOK
  <2> QED BY <2>2, <2>3
<1> QED BY <1>1, <1>2 DEF DeliveriesOK

LEMMA DeliveriesDeliver ==
    ASSUME IncBase, DeliveriesOK, NEW h \in Handlers, NEW a \in Alerts, Deliver(h, a)
    PROVE  DeliveriesOK'
<1> DEFINE k == AlertTransitionKey(a)
<1>0. /\ handler[h].pc = "idle" /\ \A g \in Handlers \ {h} : handler'[g] = handler[g]
      /\ overlapped \subseteq overlapped'
      /\ (\E g \in Handlers : Key(g) = k) => k \in overlapped'
      /\ \/ UNCHANGED <<handler, deliveries>>
         \/ /\ handler'[h].alert = a
            /\ \/ deliveries' = [deliveries EXCEPT ![k] = "received"]
               \/ UNCHANGED deliveries /\ deliveries[k] # "processed"
  BY DeliverMoves DEF IncBase
<1>1. k \in Keys /\ \A g \in Handlers : handler[g].pc # "idle" => Key(g) \in Keys
  BY MyIncident DEF IncBase, Keys
<1>2. CASE UNCHANGED <<handler, deliveries>>
  BY <1>0, <1>2 DEF DeliveriesOK, OneHandlerPerKey, OpenUntilHandled, Key
<1>3. CASE /\ handler'[h].alert = a
           /\ \/ deliveries' = [deliveries EXCEPT ![k] = "received"]
              \/ UNCHANGED deliveries /\ deliveries[k] # "processed"
  <2>1. Key(h)' = k /\ \A g \in Handlers \ {h} : Key(g)' = Key(g)
    BY <1>0, <1>3 DEF Key
  <2>2. deliveries'[k] # "processed"
        /\ \A l \in Keys : deliveries[l] # "processed" => deliveries'[l] # "processed"
    BY <1>1, <1>3 DEF IncBase, TypeOK
  <2> HIDE DEF k
  <2>3. OneHandlerPerKey'
    <3> SUFFICES ASSUME NEW f \in Handlers, NEW g \in Handlers, handler'[f].pc # "idle",
                        handler'[g].pc # "idle", Key(f)' = Key(g)', f # g
                 PROVE  Key(g)' \in overlapped'
      BY DEF OneHandlerPerKey
    <3>1. CASE f = h
      BY <1>0, <2>1, <3>1
    <3>2. CASE g = h
      BY <1>0, <2>1, <3>2
    <3>3. CASE f # h /\ g # h
      BY <1>0, <2>1, <3>3 DEF DeliveriesOK, OneHandlerPerKey
    <3> QED BY <3>1, <3>2, <3>3
  <2>4. OpenUntilHandled'
    <3> SUFFICES ASSUME NEW g \in Handlers, handler'[g].pc # "idle", Key(g)' \notin overlapped'
                 PROVE  deliveries'[Key(g)'] # "processed"
      BY DEF OpenUntilHandled
    <3>1. CASE g = h
      BY <2>1, <2>2, <3>1
    <3>2. CASE g # h
      BY <1>0, <1>1, <2>1, <2>2, <3>2 DEF DeliveriesOK, OpenUntilHandled
    <3> QED BY <3>1, <3>2
  <2> QED BY <2>3, <2>4 DEF DeliveriesOK
<1> QED BY <1>0, <1>2, <1>3

-----------------------------------------------------------------------------
(* The investigation that starts by itself.                                *)

AutoStartOK == AutoStartNotLost /\ JobsFollow

LEMMA AutoStartStep ==
    ASSUME IncBase, OneActive, DeliveriesOK, AutoStartOK, NEW h \in Handlers, Step(h)
    PROVE  AutoStartNotLost'
<1> SUFFICES ASSUME NEW i \in ActiveIncidents', incidents'[i].auto, i \notin jobs',
                    incidents'[i].key \notin overlapped
             PROVE  deliveries'[incidents'[i].key] # "processed"
  BY StepMoves DEF AutoStartNotLost, IncBase
<1>0. TypeOK /\ HandlerOK(h) /\ jobs \subseteq jobs' /\ handler[h].pc # "idle" /\ Key(h) \in Keys
  BY StepMoves, IncidentsLonger, MyIncident DEF IncBase
<1>1. CASE /\ i \in ActiveIncidents /\ incidents'[i].auto = incidents[i].auto
           /\ incidents'[i].key = incidents[i].key
  <2>1. deliveries[incidents[i].key] # "processed"
    BY <1>0, <1>1 DEF AutoStartOK, AutoStartNotLost
  <2>2. ~ (handler[h].pc = "mark" /\ Key(h) = incidents[i].key)
    BY <1>0, <1>1 DEF AutoStartOK, JobsFollow
  <2>3. \/ UNCHANGED deliveries
        \/ deliveries' = [deliveries EXCEPT ![Key(h)] = "received"]
        \/ deliveries' = [deliveries EXCEPT ![Key(h)] = "failed"]
        \/ handler[h].pc = "mark" /\ deliveries' = [deliveries EXCEPT ![Key(h)] = "processed"]
    BY <1>0, TableMoves
  <2>4. incidents[i].key \in Keys
    BY <1>0, <1>1, TableTypes DEF ActiveIncidents, Incident
  <2> QED BY <1>0, <1>1, <2>1, <2>2, <2>3, <2>4 DEF TypeOK
<1>2. CASE FoldsInto(h, i, incidents'[i])
  BY <1>0, <1>2 DEF FoldsInto, DeliveriesOK, OpenUntilHandled
<1>3. CASE Opens(h) /\ incidents'[i] = NewIncident(h)
  <2>1. incidents'[i].key = Key(h)
    BY <1>0, <1>3, NewIncidentType DEF Opens
  <2> QED BY <1>0, <1>3, <2>1 DEF Opens, DeliveriesOK, OpenUntilHandled
<1> QED BY <1>1, <1>2, <1>3, ActiveMoves

Late == {"evidence", "record", "enqueue", "link", "mark"}

LEMMA JobsFollowStep ==
    ASSUME IncBase, OneActive, DeliveriesOK, AutoStartOK, NEW h \in Handlers, Step(h)
    PROVE  JobsFollow'
<1> SUFFICES ASSUME NEW g \in Handlers, NEW i \in ActiveIncidents', handler'[g].pc \in Late,
                    Key(g)' = incidents'[i].key, Key(g)' \notin overlapped,
                    incidents'[i].auto, i \notin jobs'
             PROVE  handler'[g].pc \in {"evidence", "record", "enqueue"} /\ handler'[g].inc = i
  BY StepMoves DEF JobsFollow, IncBase, Late
<1>0. TypeOK /\ HandlerOK(h) /\ jobs \subseteq jobs' /\ handler[h].pc # "idle" /\ Key(h) \in Keys
      /\ handler[h] \in HandlerState
  BY StepMoves, IncidentsLonger, MyIncident DEF IncBase
<1>1. handler[g].pc # "idle" /\ Key(g)' = Key(g)
  BY KeyMoves DEF Late
<1>2. g # h => Key(g) # Key(h) /\ handler'[g] = handler[g]
  BY <1>0, <1>1, StepMoves DEF DeliveriesOK, OneHandlerPerKey
<1>3. CASE FoldsInto(h, i, incidents'[i])
  BY <1>1, <1>2, <1>3 DEF FoldsInto
<1>4. CASE Opens(h) /\ i = Len(incidents) + 1 /\ incidents'[i] = NewIncident(h)
  <2>1. incidents'[i].key = Key(h)
    BY <1>0, <1>4, NewIncidentType DEF Opens
  <2>2. handler'[h].pc = "evidence" /\ handler'[h].inc = i
    BY <1>0, <1>4 DEF Opens, HandlerState
  <2> QED BY <1>1, <1>2, <2>1, <2>2
<1>5. CASE /\ i \in ActiveIncidents /\ incidents'[i].auto = incidents[i].auto
           /\ incidents'[i].key = incidents[i].key
  <2>0. i \notin jobs /\ incidents[i].auto /\ Key(g) = incidents[i].key
        /\ incidents[i].key[1] # "recovered" /\ incidents[i].state = "active"
    BY <1>0, <1>1, <1>5 DEF IncBase, IncidentsOK, ActiveIncidents
  <2>1. handler[g].pc \in Late
           => handler[g].pc \in {"evidence", "record", "enqueue"} /\ handler[g].inc = i
    BY <1>1, <1>5, <2>0 DEF AutoStartOK, JobsFollow, Late
  <2>2. CASE g # h
    BY <1>2, <2>1, <2>2
  <2>3. CASE g = h
    <3>1. Firing(h)
      BY <2>0, <2>3 DEF Firing, AlertState, Key, AlertTransitionKey
    <3>2. handler'[h] # Idle
      BY <2>3 DEF Idle, Late
    <3>3. CASE Proceeds(h, handler'[h].pc)
      <4> DEFINE pc == handler'[h].pc
      <4>1. handler'[h].inc = handler[h].inc
        BY <1>0, <3>3 DEF Proceeds, HandlerState
      <4>2. handler[h].pc \in {"evidence", "record"} => AfterEvidence(h) = "enqueue"
        <5>1. handler[h].pc \in {"evidence", "record"} =>
                 /\ handler[h].inc = i /\ handler[h].seen.auto = incidents[i].auto
                 /\ handler[h].seen.job => i \in jobs
          BY <1>0, <2>1, <2>3 DEF HandlerOK, Late
        <5> QED BY <2>0, <3>1, <5>1 DEF AfterEvidence, WantsJob, Firing
      <4>3. handler[h].pc \in {"update", "reupdate"} /\ incidents[handler[h].inc].state = "active"
               => handler[h].inc = i
        <5>1. handler[h].pc \in {"update", "reupdate"} => handler[h].inc \in DOMAIN incidents
          BY <1>0 DEF HandlerOK
        <5> QED BY <1>5, <5>1 DEF OneActive, ActiveIncidents
      <4>4. handler[h].pc # "resolve"
        BY <1>0, <3>1 DEF HandlerOK, Firing
      <4>5. handler[h].pc # "enqueue" \/ jobs' # jobs \cup {handler[h].inc}
        BY <2>1, <2>3 DEF Late
      <4>6. handler[h].pc # "link"
        BY <2>1, <2>3 DEF Late
      <4>7. handler[h].pc \in Late => handler[h].inc = i
        BY <2>1, <2>3
      <4> HIDE DEF pc
      <4> QED BY <2>3, <3>1, <3>3, <4>1, <4>2, <4>3, <4>4, <4>5, <4>6, <4>7 DEF Proceeds, Late
    <3>4. ASSUME NEW j \in ActiveIncidents, Finds(h, j)
          PROVE  handler'[h].pc \in {"evidence", "record", "enqueue"} /\ handler'[h].inc = i
      BY <1>5, <2>3, <3>4 DEF OneActive, Finds, Late
    <3>5. ~ Opens(h)
      BY <1>5 DEF Opens
    <3> QED BY <1>0, <2>3, <3>2, <3>3, <3>4, <3>5, StepGoes
  <2> QED BY <2>2, <2>3
<1> QED BY <1>3, <1>4, <1>5, ActiveMoves

-----------------------------------------------------------------------------
(* The evidence.                                                           *)

EvidenceOK == NoDuplicateEvidence /\ AcknowledgedLeavesEvidence /\ EvidenceFollows

LEMMA MovesOn ==
    ASSUME TypeOK, NEW h \in Handlers, handler'[h].pc \in {"record", "enqueue", "link", "mark"}
    PROVE  handler'[h] # Idle /\ ~ Opens(h) /\ \A i \in ActiveIncidents : ~ Finds(h, i)
<1>0. handler[h] \in HandlerState
  BY TableTypes
<1>1. handler'[h] # Idle
  <2>1. Idle.pc = "idle"
    BY DEF Idle
  <2> QED BY <2>1
<1>2. ~ Opens(h)
  <2>1. [handler[h] EXCEPT !.pc = "evidence", !.inc = Len(incidents) + 1,
                           !.seen = NewIncident(h)].pc = "evidence"
    BY <1>0 DEF HandlerState
  <2> QED BY <2>1 DEF Opens
<1>3. \A i \in ActiveIncidents : ~ Finds(h, i)
  <2> SUFFICES ASSUME NEW i \in ActiveIncidents, Finds(h, i) PROVE FALSE
    OBVIOUS
  <2>1. handler'[h].pc \in {"evidence", "update", "reupdate", "resolve"}
    BY DEF Finds
  <2> QED BY <2>1
<1> QED BY <1>1, <1>2, <1>3

LEMMA EvidenceStep ==
    ASSUME IncBase, DeliveriesOK, EvidenceOK, NEW h \in Handlers, Step(h)
    PROVE  EvidenceOK'
<1> DEFINE mine == <<handler[h].inc, Key(h)>>
<1>0. /\ TypeOK /\ HandlerOK(h) /\ overlapped' = overlapped /\ handler[h].pc # "idle"
      /\ Key(h) \in Keys /\ handler[h] \in HandlerState
  BY StepMoves, MyIncident DEF IncBase
<1>1. handler[h].pc \in Located => handler[h].inc \in Rows
  BY <1>0, MyIncident
<1>2. \A i \in Rows, k \in Keys :
         /\ evidence[<<i, k>>] \in Nat
         /\ \/ evidence'[<<i, k>>] = evidence[<<i, k>>]
            \/ /\ handler[h].pc = "record" /\ i = handler[h].inc /\ k = Key(h)
               /\ evidence'[<<i, k>>] = evidence[<<i, k>>] + 1
  <2> SUFFICES ASSUME NEW i \in Rows, NEW k \in Keys
               PROVE  /\ evidence[<<i, k>>] \in Nat
                      /\ \/ evidence'[<<i, k>>] = evidence[<<i, k>>]
                         \/ /\ handler[h].pc = "record" /\ i = handler[h].inc /\ k = Key(h)
                            /\ evidence'[<<i, k>>] = evidence[<<i, k>>] + 1
    OBVIOUS
  <2>1. <<i, k>> \in Rows \X Keys
    OBVIOUS
  <2>2. evidence' = evidence
        \/ (handler[h].pc = "record" /\ evidence' = [evidence EXCEPT ![mine] = @ + 1])
    BY <1>0, TableMoves
  <2>3. <<i, k>> = mine => i = handler[h].inc /\ k = Key(h)
    OBVIOUS
  <2> HIDE DEF mine
  <2>4. evidence \in [Rows \X Keys -> Nat]
    BY <1>0 DEF TypeOK
  <2> QED BY <2>1, <2>2, <2>3, <2>4
<1>3. \A i \in Rows, k \in Keys : evidence[<<i, k>>] > 0 => evidence'[<<i, k>>] > 0
  BY <1>2
<1>4. NoDuplicateEvidence'
  <2> SUFFICES ASSUME NEW i \in Rows, NEW k \in Keys, k \notin overlapped
               PROVE  evidence'[<<i, k>>] <= 1
    BY <1>0 DEF NoDuplicateEvidence
  <2>1. evidence[<<i, k>>] <= 1
    BY DEF EvidenceOK, NoDuplicateEvidence
  <2>2. handler[h].pc = "record" /\ k = Key(h) /\ i = handler[h].inc => evidence[<<i, k>>] = 0
    BY DEF EvidenceOK, EvidenceFollows
  <2> QED BY <1>2, <2>1, <2>2
<1>5. AcknowledgedLeavesEvidence'
  <2> SUFFICES ASSUME NEW a \in Alerts, AlertState(a) = "firing",
                      deliveries'[AlertTransitionKey(a)] = "processed"
               PROVE  \E i \in Rows : evidence'[<<i, AlertTransitionKey(a)>>] > 0
    BY DEF AcknowledgedLeavesEvidence
  <2> DEFINE k == AlertTransitionKey(a)
  <2>1. k \in Keys
    BY DEF Keys
  <2>2. CASE deliveries[k] = "processed"
    BY <1>3, <2>1, <2>2 DEF EvidenceOK, AcknowledgedLeavesEvidence
  <2>3. CASE handler[h].pc = "mark" /\ Key(h) = k
    <3>1. Firing(h)
      BY <2>3 DEF Firing, AlertState, Key, AlertTransitionKey
    <3>2. \E i \in Rows : evidence[<<i, k>>] > 0
      BY <2>3, <3>1 DEF EvidenceOK, EvidenceFollows, Firing
    <3> QED BY <1>3, <2>1, <3>2
  <2>4. deliveries[k] = "processed" \/ (handler[h].pc = "mark" /\ Key(h) = k)
    <3> HIDE DEF k
    <3>1. \/ UNCHANGED deliveries
          \/ deliveries' = [deliveries EXCEPT ![Key(h)] = "received"]
          \/ deliveries' = [deliveries EXCEPT ![Key(h)] = "failed"]
          \/ handler[h].pc = "mark" /\ deliveries' = [deliveries EXCEPT ![Key(h)] = "processed"]
      BY <1>0, TableMoves
    <3>2. deliveries'[k] = "processed"
      BY DEF k
    <3> QED BY <1>0, <2>1, <3>1, <3>2 DEF TypeOK
  <2> QED BY <2>2, <2>3, <2>4
<1>6. ASSUME NEW g \in Handlers, handler'[g].pc \in {"enqueue", "link", "mark"},
             AlertState(handler'[g].alert) = "firing"
      PROVE  \E i \in Rows : evidence'[<<i, Key(g)'>>] > 0
  <2>1. handler[g].pc # "idle" /\ Key(g)' = Key(g) /\ Key(g) \in Keys /\ Firing(g)
    BY <1>6, KeyMoves DEF Firing
  <2> SUFFICES \E i \in Rows : evidence'[<<i, Key(g)>>] > 0
    BY <2>1
  <2>2. CASE handler[g].pc \in {"enqueue", "link", "mark"}
    <3>1. \E i \in Rows : evidence[<<i, Key(g)>>] > 0
      BY <2>1, <2>2 DEF EvidenceOK, EvidenceFollows, Firing
    <3> QED BY <1>3, <2>1, <3>1
  <2>3. CASE handler[g].pc \notin {"enqueue", "link", "mark"}
    <3>1. g = h
      BY <1>0, <1>6, <2>3, StepMoves
    <3>2. handler'[h] # Idle /\ ~ Opens(h) /\ \A i \in ActiveIncidents : ~ Finds(h, i)
      BY <1>0, <1>6, <3>1, MovesOn
    <3>3. Proceeds(h, handler'[h].pc)
      BY <1>0, <3>2, StepGoes
    <3>4. handler[h].pc \in {"evidence", "record"}
          /\ (handler[h].pc = "evidence" => evidence[mine] > 0)
          /\ (handler[h].pc = "record" => evidence' = [evidence EXCEPT ![mine] = @ + 1])
      BY <1>6, <2>1, <2>3, <3>1, <3>3 DEF Proceeds, AfterEvidence
    <3>5. handler[h].inc \in Rows
      BY <1>1, <3>4 DEF Located
    <3>6. evidence'[mine] > 0
      <4>1. CASE handler[h].pc = "evidence"
        BY <1>0, <1>3, <3>4, <3>5, <4>1
      <4>2. CASE handler[h].pc = "record"
        <5>1. mine \in Rows \X Keys
          BY <1>0, <3>5
        <5>2. evidence' = [evidence EXCEPT ![mine] = @ + 1]
          BY <3>4, <4>2
        <5> HIDE DEF mine
        <5>3. evidence[mine] \in Nat /\ evidence'[mine] = evidence[mine] + 1
          BY <1>0, <5>1, <5>2 DEF TypeOK
        <5> QED BY <5>3
      <4> QED BY <3>4, <4>1, <4>2
    <3> QED BY <3>1, <3>5, <3>6
  <2> QED BY <2>2, <2>3
<1>7. ASSUME NEW g \in Handlers, handler'[g].pc = "record", Key(g)' \notin overlapped
      PROVE  evidence'[<<handler'[g].inc, Key(g)'>>] = 0
  <2>1. handler[g].pc # "idle" /\ Key(g)' = Key(g) /\ Key(g) \in Keys
    BY <1>7, KeyMoves
  <2>2. CASE g # h
    <3>1. handler'[g] = handler[g] /\ Key(g) # Key(h)
      BY <1>0, <1>7, <2>1, <2>2, StepMoves DEF DeliveriesOK, OneHandlerPerKey
    <3>2. evidence[<<handler[g].inc, Key(g)>>] = 0
      BY <1>7, <2>1, <3>1 DEF EvidenceOK, EvidenceFollows
    <3>3. handler[g].inc \in Rows
      BY <1>7, <3>1, MyIncident DEF IncBase, Located
    <3> QED BY <1>2, <2>1, <3>1, <3>2, <3>3
  <2>3. CASE g = h
    <3>1. handler'[h] # Idle /\ ~ Opens(h) /\ \A i \in ActiveIncidents : ~ Finds(h, i)
      BY <1>0, <1>7, <2>3, MovesOn
    <3>2. Proceeds(h, handler'[h].pc)
      BY <1>0, <3>1, StepGoes
    <3>3. handler[h].pc = "evidence" /\ ~ evidence[mine] > 0 /\ handler'[h].inc = handler[h].inc
      BY <1>0, <1>7, <2>3, <3>2 DEF Proceeds, AfterEvidence, HandlerState
    <3>4. handler[h].inc \in Rows
      BY <1>1, <3>3 DEF Located
    <3>5. evidence[mine] = 0
      BY <1>0, <1>2, <3>3, <3>4
    <3> QED BY <1>0, <1>2, <2>1, <2>3, <3>3, <3>4, <3>5
  <2> QED BY <2>2, <2>3
<1>8. EvidenceFollows'
  BY <1>0, <1>6, <1>7 DEF EvidenceFollows
<1> QED BY <1>4, <1>5, <1>8 DEF EvidenceOK

-----------------------------------------------------------------------------
(* Arrivals, the console, and the invariant.                               *)

LEMMA RestDeliver ==
    ASSUME IncBase, OneActive, DeliveriesOK, AutoStartOK, EvidenceOK,
           NEW h \in Handlers, NEW a \in Alerts, Deliver(h, a)
    PROVE  OneActive' /\ AutoStartOK' /\ EvidenceOK'
<1> DEFINE k == AlertTransitionKey(a)
<1>1. /\ UNCHANGED <<incidents, evidence, jobs>> /\ overlapped \subseteq overlapped'
      /\ handler[h].pc = "idle" /\ \A g \in Handlers \ {h} : handler'[g] = handler[g]
      /\ \/ UNCHANGED <<handler, deliveries>>
         \/ /\ handler'[h].pc \in {"find", "refresh"}
            /\ UNCHANGED deliveries \/ deliveries' = [deliveries EXCEPT ![k] = "received"]
  BY DeliverMoves DEF IncBase
<1>2. \A l \in Keys : deliveries'[l] = "processed" => deliveries[l] = "processed"
  BY <1>1 DEF IncBase, TypeOK
<1>3. \A g \in Handlers : \/ handler'[g] = handler[g]
                          \/ handler'[g].pc \in {"find", "refresh"}
  BY <1>1
<1>4. \A i \in ActiveIncidents : incidents[i].key \in Keys
  BY TableTypes DEF IncBase, ActiveIncidents, Incident
<1>5. OneActive'
  BY <1>1 DEF OneActive, ActiveIncidents
<1>6. AutoStartNotLost'
  BY <1>1, <1>2, <1>4 DEF AutoStartOK, AutoStartNotLost, ActiveIncidents
<1>7. JobsFollow'
  BY <1>1, <1>3 DEF AutoStartOK, JobsFollow, ActiveIncidents, Key
<1>8. EvidenceOK'
  <2>1. \A b \in Alerts : AlertTransitionKey(b) \in Keys
    BY DEF Keys
  <2>2. AcknowledgedLeavesEvidence'
    BY <1>1, <1>2, <2>1 DEF EvidenceOK, AcknowledgedLeavesEvidence
  <2>3. NoDuplicateEvidence'
    BY <1>1 DEF EvidenceOK, NoDuplicateEvidence
  <2>4. EvidenceFollows'
    BY <1>1, <1>3 DEF EvidenceOK, EvidenceFollows, Key
  <2> QED BY <2>2, <2>3, <2>4 DEF EvidenceOK
<1> QED BY <1>5, <1>6, <1>7, <1>8 DEF AutoStartOK

LEMMA RestStart ==
    ASSUME IncBase, OneActive, DeliveriesOK, AutoStartOK, EvidenceOK,
           NEW i \in DOMAIN incidents, StartInvestigation(i)
    PROVE  OneActive' /\ DeliveriesOK' /\ AutoStartOK' /\ EvidenceOK'
<1>1. /\ jobs' = jobs \cup {i} /\ UNCHANGED <<deliveries, evidence, handler, overlapped>>
      /\ DOMAIN incidents' = DOMAIN incidents
      /\ \A j \in DOMAIN incidents :
            /\ incidents'[j].state = incidents[j].state /\ incidents'[j].key = incidents[j].key
            /\ incidents'[j].auto = incidents[j].auto
  BY StartMoves DEF IncBase
<1>2. ActiveIncidents' = ActiveIncidents
  BY <1>1 DEF ActiveIncidents
<1>3. \A j \in ActiveIncidents : incidents'[j].key = incidents[j].key
                                 /\ incidents'[j].auto = incidents[j].auto
  BY <1>1 DEF ActiveIncidents
<1>4. AutoStartOK'
  BY <1>1, <1>2, <1>3 DEF AutoStartOK, AutoStartNotLost, JobsFollow, Key
<1>5. DeliveriesOK' /\ EvidenceOK'
  BY <1>1 DEF DeliveriesOK, OneHandlerPerKey, OpenUntilHandled, EvidenceOK, NoDuplicateEvidence,
     AcknowledgedLeavesEvidence, EvidenceFollows, Key
<1> QED BY <1>2, <1>4, <1>5 DEF OneActive

LEMMA IncidentsInvParts ==
    IncidentsInv <=> IncBase /\ OneActive /\ DeliveriesOK /\ AutoStartOK /\ EvidenceOK
BY OneActiveIsOne DEF IncidentsInv, IncBase, DeliveriesOK, AutoStartOK, EvidenceOK

LEMMA IncidentsInit == Init => IncidentsInv
<1> SUFFICES ASSUME Init PROVE IncidentsInv
  OBVIOUS
<1>1. /\ incidents = <<>> /\ jobs = {} /\ handler = [h \in Handlers |-> Idle] /\ sent = 0
      /\ overlapped = {} /\ faults = 0 /\ deliveries = [k \in Keys |-> "absent"]
      /\ evidence = [ik \in Rows \X Keys |-> 0]
  BY DEF Init
<1>2. incidents \in Seq(Incident) /\ Len(incidents) = 0 /\ DOMAIN incidents = {}
  <2>1. incidents \in Seq(Incident) /\ Len(incidents) = 0
    BY <1>1, EmptySeq
  <2>2. DOMAIN incidents = 1 .. 0
    BY <2>1, LenProperties
  <2> QED BY <2>1, <2>2
<1>3. MaxSends \in Nat /\ MaxFaults \in Nat
  BY DatadogAssumption DEF DatadogAssumption
<1>4. handler \in [Handlers -> [pc : Pcs, alert : Alerts \cup {NoAlert}, auto : BOOLEAN,
                                inc : 0 .. Len(incidents), seen : Incident \cup {NoIncident}]]
  <2>1. 0 \in 0 .. Len(incidents)
    BY <1>2
  <2> QED BY <1>1, <2>1 DEF Idle, Pcs
<1>5. TypeOK
  BY <1>1, <1>2, <1>3, <1>4 DEF TypeOK
<1>6. \A h \in Handlers : handler[h].pc = "idle"
  BY <1>1 DEF Idle
<1>7. OpenersDelivered
  <2>1. Openers = {}
    BY <1>6 DEF Openers
  <2> QED BY <1>1, <1>2, <2>1, FS_EmptySet DEF OpenersDelivered
<1>8. ActiveIncidents = {}
  BY <1>2 DEF ActiveIncidents
<1>9. IncBase
  BY <1>2, <1>5, <1>6, <1>7 DEF IncBase, IncidentsOK, HandlerOK
<1>10. OneActive /\ DeliveriesOK /\ AutoStartOK
  BY <1>6, <1>8 DEF OneActive, DeliveriesOK, OneHandlerPerKey, OpenUntilHandled, AutoStartOK,
     AutoStartNotLost, JobsFollow
<1>11. EvidenceOK
  <2>1. NoDuplicateEvidence
    <3> SUFFICES ASSUME NEW i \in Rows, NEW k \in Keys \ overlapped PROVE evidence[<<i, k>>] <= 1
      BY DEF NoDuplicateEvidence
    <3> DEFINE ik == <<i, k>>
    <3>1. ik \in Rows \X Keys
      OBVIOUS
    <3> HIDE DEF ik
    <3>2. evidence[ik] = 0
      BY <1>1, <3>1
    <3>3. evidence[ik] <= 1
      BY <3>2
    <3> QED BY <3>3 DEF ik
  <2>2. AcknowledgedLeavesEvidence
    BY <1>1 DEF AcknowledgedLeavesEvidence, Keys
  <2> QED BY <1>6, <2>1, <2>2 DEF EvidenceOK, EvidenceFollows
<1> QED BY <1>9, <1>10, <1>11, IncidentsInvParts

LEMMA IncidentsStep == IncidentsInv /\ [Next]_vars => IncidentsInv'
<1> SUFFICES ASSUME IncidentsInv, [Next]_vars
             PROVE  IncBase' /\ OneActive' /\ DeliveriesOK' /\ AutoStartOK' /\ EvidenceOK'
  <2>1. TypeOK' => (OneActiveIncident' <=> OneActive')
    BY OneActiveIsOne, PTL
  <2> QED BY <2>1 DEF IncidentsInv, IncBase, DeliveriesOK, AutoStartOK, EvidenceOK
<1>0. IncBase /\ OneActive /\ DeliveriesOK /\ AutoStartOK /\ EvidenceOK
  BY IncidentsInvParts
<1>1. ASSUME NEW h \in Handlers, Step(h)
      PROVE  IncBase' /\ OneActive' /\ DeliveriesOK' /\ AutoStartOK' /\ EvidenceOK'
  <2>1. IncBase' /\ OneActive' /\ DeliveriesOK'
    BY <1>0, <1>1, BaseStep, OneActiveStep, DeliveriesStep
  <2>2. AutoStartOK'
    BY <1>0, <1>1, AutoStartStep, JobsFollowStep DEF AutoStartOK
  <2>3. EvidenceOK'
    BY <1>0, <1>1, EvidenceStep
  <2> QED BY <2>1, <2>2, <2>3
<1>2. ASSUME NEW h \in Handlers, NEW a \in Alerts, Deliver(h, a)
      PROVE  IncBase' /\ OneActive' /\ DeliveriesOK' /\ AutoStartOK' /\ EvidenceOK'
  BY <1>0, <1>2, BaseDeliver, DeliveriesDeliver, RestDeliver
<1>3. ASSUME NEW i \in DOMAIN incidents, StartInvestigation(i)
      PROVE  IncBase' /\ OneActive' /\ DeliveriesOK' /\ AutoStartOK' /\ EvidenceOK'
  BY <1>0, <1>3, BaseStart, RestStart
<1>4. CASE UNCHANGED vars
  <2>1. UNCHANGED <<deliveries, incidents, evidence, jobs, handler, sent, overlapped, faults>>
    BY <1>4 DEF vars
  <2>2. TypeOK' /\ OpenersDelivered' /\ IncidentsOK'
    BY <1>0, <2>1 DEF IncBase, TypeOK, OpenersDelivered, Openers, IncidentsOK
  <2>3. \A h \in Handlers : HandlerOK(h)'
    BY <1>0, <2>1 DEF IncBase, HandlerOK
  <2>4. ActiveIncidents' = ActiveIncidents
    BY <2>1 DEF ActiveIncidents
  <2>5. OneActive' /\ DeliveriesOK'
    BY <1>0, <2>1, <2>4 DEF OneActive, DeliveriesOK, OneHandlerPerKey, OpenUntilHandled, Key
  <2>6. AutoStartOK'
    BY <1>0, <2>1, <2>4 DEF AutoStartOK, AutoStartNotLost, JobsFollow, Key
  <2>7. EvidenceOK'
    BY <1>0, <2>1 DEF EvidenceOK, NoDuplicateEvidence, AcknowledgedLeavesEvidence,
       EvidenceFollows, Key
  <2> QED BY <2>2, <2>3, <2>5, <2>6, <2>7 DEF IncBase
<1> QED BY <1>1, <1>2, <1>3, <1>4 DEF Next, Handle, Step

LEMMA IncidentsInvariant == Spec => []IncidentsInv
BY IncidentsInit, IncidentsStep, PTL DEF Spec

\* Tables and requests stay well-formed; the incidents never outnumber the deliveries.
THEOREM IncidentsTypeCorrect == Spec => []TypeOK
<1>1. IncidentsInv => TypeOK
  BY DEF IncidentsInv
<1> QED BY <1>1, IncidentsInvariant, PTL

\* Whatever races, replays and crashes, one incident of a cycle is open at a time.
THEOREM NeverTwoOpen == Spec => []OneActiveIncident
<1>1. IncidentsInv => OneActiveIncident
  BY DEF IncidentsInv
<1> QED BY <1>1, IncidentsInvariant, PTL

\* An acknowledged delivery has started the investigation that was to start by itself.
THEOREM AutoStartNeverLost == Spec => []AutoStartNotLost
<1>1. IncidentsInv => AutoStartNotLost
  BY DEF IncidentsInv
<1> QED BY <1>1, IncidentsInvariant, PTL

\* A delivery that is taken up again records its evidence once ...
THEOREM EvidenceRecordedOnce == Spec => []NoDuplicateEvidence
<1>1. IncidentsInv => NoDuplicateEvidence
  BY DEF IncidentsInv
<1> QED BY <1>1, IncidentsInvariant, PTL

\* ... and a firing alert is not acknowledged before it is there.
THEOREM EvidenceBeforeAcknowledgement == Spec => []AcknowledgedLeavesEvidence
<1>1. IncidentsInv => AcknowledgedLeavesEvidence
  BY DEF IncidentsInv
<1> QED BY <1>1, IncidentsInvariant, PTL

-----------------------------------------------------------------------------
(* The incidents are an alert cycle.                                       *)

CycleRows == [state : {"active", "resolved"}, key : Keys, auto : BOOLEAN]

IsCycleMap ==
    /\ CycleMap \in Seq(CycleRows) /\ Len(CycleMap) = Len(incidents)
    /\ DOMAIN CycleMap = DOMAIN incidents
    /\ \A i \in DOMAIN incidents :
          CycleMap[i] = CycleRow(incidents[i]) /\ CycleRow(incidents[i]) \in CycleRows

LEMMA MapIsCycle == TypeOK => IsCycleMap
<1> SUFFICES ASSUME TypeOK PROVE IsCycleMap
  OBVIOUS
<1>1. DOMAIN incidents = 1 .. Len(incidents) /\ Len(incidents) \in Nat
  BY TableTypes
<1>2. \A i \in DOMAIN incidents : CycleRow(incidents[i]) \in CycleRows
  BY TableTypes DEF CycleRow, CycleRows, Incident
<1>3. CycleMap \in [1 .. Len(incidents) -> CycleRows]
  BY <1>1, <1>2 DEF CycleMap
<1>4. CycleMap \in Seq(CycleRows) /\ Len(CycleMap) = Len(incidents)
  BY <1>1, <1>3
<1> QED BY <1>2, <1>4 DEF CycleMap, IsCycleMap

LEMMA MapIsCycleNext == TypeOK' => IsCycleMap'
BY MapIsCycle, PTL

\* A step that leaves what the cycle knows of every incident.
LEMMA CycleSame ==
    ASSUME TypeOK, TypeOK', DOMAIN incidents' = DOMAIN incidents,
           \A i \in DOMAIN incidents : CycleRow(incidents'[i]) = CycleRow(incidents[i])
    PROVE  UNCHANGED CycleMap
BY MapIsCycle, MapIsCycleNext DEF CycleMap, IsCycleMap

LEMMA CycleOpens ==
    ASSUME IncBase, IncBase', NEW h \in Handlers, Step(h), Opens(h)
    PROVE  Cycle!Fire
<1> DEFINE new == CycleRow(NewIncident(h))
<1>0. TypeOK /\ TypeOK' /\ HandlerOK(h) /\ incidents \in Seq(Incident)
  BY DEF IncBase, TypeOK
<1>1. NewIncident(h) \in Incident
  BY <1>0, NewIncidentType DEF Opens
<1>2. new \in CycleRows
      /\ new = [state |-> "active", key |-> Key(h), auto |-> handler[h].auto]
  BY <1>1 DEF NewIncident, CycleRow, CycleRows, Incident
<1>3. /\ Len(incidents') = Len(incidents) + 1 /\ Len(incidents) \in Nat
      /\ \A i \in 1 .. Len(incidents) : incidents'[i] = incidents[i]
      /\ incidents'[Len(incidents) + 1] = NewIncident(h)
      /\ DOMAIN incidents' = 1 .. Len(incidents')
      /\ DOMAIN incidents = 1 .. Len(incidents)
  <2>1. DOMAIN incidents = 1 .. Len(incidents) /\ Len(incidents) \in Nat
    BY <1>0, TableTypes
  <2>2. DOMAIN incidents' = 1 .. Len(incidents')
    BY <1>0, IncidentsGrow
  <2>3. /\ Len(incidents') = Len(incidents) + 1
        /\ \A i \in 1 .. Len(incidents) : incidents'[i] = incidents[i]
        /\ incidents'[Len(incidents) + 1] = NewIncident(h)
    BY <1>0, <1>1, AppendProperties DEF Opens
  <2> QED BY <2>1, <2>2, <2>3
<1>4. CycleMap' = Append(CycleMap, new)
  <2> HIDE DEF new
  <2>1. CycleMap \in Seq(CycleRows) /\ Len(CycleMap) = Len(incidents)
        /\ \A i \in 1 .. Len(incidents) : CycleMap[i] = CycleRow(incidents[i])
    BY <1>0, <1>3, MapIsCycle DEF IsCycleMap
  <2>2. CycleMap' \in Seq(CycleRows) /\ Len(CycleMap') = Len(incidents')
        /\ \A i \in 1 .. Len(incidents') : CycleMap'[i] = CycleRow(incidents'[i])
    BY <1>0, <1>3, MapIsCycleNext DEF IsCycleMap
  <2>3. /\ Append(CycleMap, new) \in Seq(CycleRows)
        /\ Len(Append(CycleMap, new)) = Len(incidents) + 1
        /\ \A i \in 1 .. Len(incidents) : Append(CycleMap, new)[i] = CycleMap[i]
        /\ Append(CycleMap, new)[Len(incidents) + 1] = new
    BY <1>2, <2>1, AppendProperties
  <2>4. CycleMap'[Len(incidents) + 1] = new
    BY <1>3, <2>2 DEF new
  <2>5. \A i \in 1 .. Len(incidents) : CycleMap'[i] = CycleMap[i]
    BY <1>3, <2>1, <2>2
  <2>6. \A i \in 1 .. Len(CycleMap') : CycleMap'[i] = Append(CycleMap, new)[i]
    <3> SUFFICES ASSUME NEW i \in 1 .. Len(CycleMap') PROVE CycleMap'[i] = Append(CycleMap, new)[i]
      OBVIOUS
    <3>1. i \in 1 .. Len(incidents) \/ i = Len(incidents) + 1
      BY <1>3, <2>2
    <3> QED BY <2>3, <2>4, <2>5, <3>1
  <2> QED BY <1>3, <2>2, <2>3, <2>6, SeqEqual
<1>5. \A i \in DOMAIN CycleMap : ~ Cycle!Open(i)
  <2>1. \A i \in DOMAIN incidents : incidents[i].state # "active"
    BY DEF Opens, ActiveIncidents
  <2>2. \A i \in DOMAIN incidents : CycleMap[i].state = incidents[i].state
    <3> SUFFICES ASSUME NEW i \in DOMAIN incidents PROVE CycleMap[i].state = incidents[i].state
      OBVIOUS
    <3>1. CycleMap[i] = CycleRow(incidents[i])
      BY <1>0, MapIsCycle DEF IsCycleMap
    <3> QED BY <3>1 DEF CycleRow
  <2>3. DOMAIN CycleMap = DOMAIN incidents
    BY <1>0, MapIsCycle DEF IsCycleMap
  <2> QED BY <2>1, <2>2, <2>3 DEF Cycle!Open
<1>6. Key(h) \in Keys /\ handler[h].auto \in BOOLEAN
  BY <1>2 DEF CycleRows
<1>7. UNCHANGED jobs
  BY DEF Opens
<1> HIDE DEF new
<1> QED BY <1>2, <1>4, <1>5, <1>6, <1>7 DEF Cycle!Fire

LEMMA RowEdit ==
    ASSUME NEW row \in CycleRows, NEW s \in {"active", "resolved"}, NEW k \in Keys
    PROVE  [row EXCEPT !.state = s, !.key = k] = [state |-> s, key |-> k, auto |-> row.auto]
<1> DEFINE mid == [row EXCEPT !.state = s]
<1>1. mid \in CycleRows /\ mid.state = s /\ mid.key = row.key /\ mid.auto = row.auto
  BY DEF CycleRows
<1>2. [row EXCEPT !.state = s, !.key = k] = [mid EXCEPT !.key = k]
  OBVIOUS
<1> HIDE DEF mid
<1>3. [mid EXCEPT !.key = k] = [state |-> s, key |-> k, auto |-> row.auto]
  BY <1>1 DEF CycleRows
<1> QED BY <1>2, <1>3

LEMMA CycleFolds ==
    ASSUME IncBase, IncBase', NEW h \in Handlers, Step(h), ~ Opens(h),
           NEW i \in DOMAIN incidents, FoldsInto(h, i, incidents'[i])
    PROVE  Cycle!Fold(i) /\ i \in DOMAIN CycleMap
<1> DEFINE s == incidents'[i].state
           new == [CycleMap[i] EXCEPT !.state = s, !.key = Key(h)]
<1>0. TypeOK /\ TypeOK' /\ HandlerOK(h)
  BY DEF IncBase
<1>1. \A j \in DOMAIN incidents : j \in DOMAIN incidents' /\ incidents'[j].auto = incidents[j].auto
  BY <1>0, IncidentsGrow
<1>2. \A j \in DOMAIN incidents' :
         /\ j \in DOMAIN incidents
         /\ \/ incidents'[j] = incidents[j]
            \/ FoldsInto(h, j, incidents'[j])
            \/ Links(j, incidents'[j])
  BY RowMoves
<1>3. DOMAIN incidents' = DOMAIN incidents
  BY <1>1, <1>2
<1>4. \A j \in DOMAIN incidents : j # i => CycleRow(incidents'[j]) = CycleRow(incidents[j])
  BY <1>1, <1>2, <1>3 DEF FoldsInto, Links, CycleRow
<1>5. /\ incidents[i].state = "active" /\ incidents'[i].key = Key(h) /\ UNCHANGED jobs
      /\ s \in {"active", "resolved"} /\ Key(h) \in Keys
  <2>1. incidents'[i] \in Incident
    <3>1. incidents' \in Seq(Incident)
      BY <1>0 DEF TypeOK
    <3> QED BY <1>3, <3>1
  <2> QED BY <2>1 DEF FoldsInto, Incident
<1>6. CycleMap[i] = CycleRow(incidents[i]) /\ CycleMap[i] \in CycleRows
  BY <1>0, MapIsCycle DEF IsCycleMap
<1>7. CycleRow(incidents'[i]) = new
  <2>1. new = [state |-> s, key |-> Key(h), auto |-> CycleMap[i].auto]
    BY <1>5, <1>6, RowEdit
  <2>2. CycleMap[i].auto = incidents[i].auto
    BY <1>6 DEF CycleRow
  <2> QED BY <1>1, <1>5, <2>1, <2>2 DEF CycleRow
<1>8. CycleMap' = [CycleMap EXCEPT ![i] = new]
  <2> HIDE DEF new
  <2>1. DOMAIN CycleMap' = DOMAIN CycleMap /\ DOMAIN CycleMap = DOMAIN incidents
    BY <1>0, <1>3, MapIsCycle, MapIsCycleNext DEF IsCycleMap
  <2>2. \A j \in DOMAIN incidents : CycleMap'[j] = IF j = i THEN new ELSE CycleMap[j]
    BY <1>0, <1>3, <1>4, <1>7, MapIsCycle, MapIsCycleNext DEF IsCycleMap
  <2>3. CycleMap = [j \in DOMAIN incidents |-> CycleMap[j]]
        /\ CycleMap' = [j \in DOMAIN incidents |-> CycleMap'[j]]
    BY <1>3, <2>1 DEF CycleMap
  <2> QED BY <2>1, <2>2, <2>3
<1>9. Cycle!Open(i) /\ i \in DOMAIN CycleMap
  BY <1>0, <1>5, <1>6, MapIsCycle DEF Cycle!Open, CycleRow, IsCycleMap
<1>10. Cycle!Fold(i)
  <2> SUFFICES \E k \in Keys, t \in {"active", "resolved"} :
                  CycleMap' = [CycleMap EXCEPT ![i] = [@ EXCEPT !.state = t, !.key = k]]
    BY <1>5, <1>9 DEF Cycle!Fold
  <2> HIDE DEF s
  <2> QED BY <1>5, <1>8
<1> QED BY <1>9, <1>10

LEMMA CycleStep ==
    ASSUME IncBase, IncBase', NEW h \in Handlers, Step(h)
    PROVE  [Cycle!AcNext]_Cycle!acVars
<1>0. TypeOK /\ TypeOK' /\ HandlerOK(h)
  BY DEF IncBase
<1>1. CASE Opens(h)
  BY <1>1, CycleOpens DEF Cycle!AcNext
<1>2. CASE ~ Opens(h) /\ \E i \in DOMAIN incidents : FoldsInto(h, i, incidents'[i])
  BY <1>2, CycleFolds DEF Cycle!AcNext
<1>3. CASE ~ Opens(h) /\ \A i \in DOMAIN incidents : ~ FoldsInto(h, i, incidents'[i])
  <2>1. \A j \in DOMAIN incidents : j \in DOMAIN incidents' /\ incidents'[j].auto = incidents[j].auto
    BY <1>0, IncidentsGrow
  <2>2. \A j \in DOMAIN incidents' :
           /\ j \in DOMAIN incidents
           /\ incidents'[j] = incidents[j] \/ Links(j, incidents'[j])
    BY <1>3, RowMoves
  <2>3. UNCHANGED CycleMap
    <3>1. DOMAIN incidents' = DOMAIN incidents
      BY <2>1, <2>2
    <3>2. \A j \in DOMAIN incidents : CycleRow(incidents'[j]) = CycleRow(incidents[j])
      BY <2>1, <2>2 DEF Links, CycleRow
    <3> QED BY <1>0, <3>1, <3>2, CycleSame
  <2>4. CASE UNCHANGED jobs
    BY <2>3, <2>4 DEF Cycle!acVars
  <2>5. CASE handler[h].pc = "enqueue" /\ jobs' = jobs \cup {handler[h].inc}
    <3>1. handler[h].inc \in DOMAIN CycleMap
      BY <1>0, <2>5, MapIsCycle DEF HandlerOK, IsCycleMap
    <3>2. CASE handler[h].inc \in jobs
      BY <2>3, <2>5, <3>2 DEF Cycle!acVars
    <3>3. CASE handler[h].inc \notin jobs
      BY <2>3, <2>5, <3>1, <3>3 DEF Cycle!Investigate, Cycle!AcNext
    <3> QED BY <3>2, <3>3
  <2> QED BY <1>0, <2>4, <2>5, TableMoves
<1> QED BY <1>1, <1>2, <1>3

LEMMA CycleInit == Init => Cycle!AcInit
<1> SUFFICES ASSUME Init PROVE CycleMap = <<>> /\ jobs = {}
  BY DEF Cycle!AcInit
<1>1. incidents = <<>> /\ jobs = {}
  BY DEF Init
<1>2. CycleMap \in Seq(CycleRows) /\ Len(CycleMap) = 0
  <2>1. TypeOK
    BY IncidentsInit DEF IncidentsInv
  <2>2. Len(incidents) = 0
    BY <1>1, EmptySeq
  <2> QED BY <2>1, <2>2, MapIsCycle DEF IsCycleMap
<1> QED BY <1>1, <1>2, EmptySeq

LEMMA CycleKeeps ==
    IncidentsInv /\ IncidentsInv' /\ [Next]_vars => [Cycle!AcNext]_Cycle!acVars
<1> SUFFICES ASSUME IncidentsInv, IncidentsInv', [Next]_vars
             PROVE  [Cycle!AcNext]_Cycle!acVars
  OBVIOUS
<1>0. IncBase /\ IncBase' /\ TypeOK /\ TypeOK'
  BY DEF IncidentsInv, IncBase
<1>1. ASSUME NEW h \in Handlers, Step(h) PROVE [Cycle!AcNext]_Cycle!acVars
  BY <1>0, <1>1, CycleStep
<1>2. ASSUME NEW h \in Handlers, NEW a \in Alerts, Deliver(h, a)
      PROVE  [Cycle!AcNext]_Cycle!acVars
  BY <1>2 DEF Deliver, Cycle!acVars, CycleMap
<1>3. ASSUME NEW i \in DOMAIN incidents, StartInvestigation(i)
      PROVE  [Cycle!AcNext]_Cycle!acVars
  <2>1. /\ jobs' = jobs \cup {i} /\ DOMAIN incidents' = DOMAIN incidents
        /\ \A j \in DOMAIN incidents : CycleRow(incidents'[j]) = CycleRow(incidents[j])
    BY <1>0, <1>3, StartMoves DEF CycleRow
  <2>2. UNCHANGED CycleMap
    BY <1>0, <2>1, CycleSame
  <2>3. i \in DOMAIN CycleMap
    BY <1>0, MapIsCycle DEF IsCycleMap
  <2>4. CASE i \in jobs
    BY <2>1, <2>2, <2>4 DEF Cycle!acVars
  <2>5. CASE i \notin jobs
    BY <2>1, <2>2, <2>3, <2>5 DEF Cycle!Investigate, Cycle!AcNext
  <2> QED BY <2>4, <2>5
<1>4. CASE UNCHANGED vars
  BY <1>4 DEF vars, Cycle!acVars, CycleMap
<1> QED BY <1>1, <1>2, <1>3, <1>4 DEF Next, Handle, Step

\* Whatever requests race, are repeated or die, the incidents of an alert cycle are opened
\* one at a time, never change once resolved, and are investigated at most once.
THEOREM IncidentsImplementAlertCycle == Spec => ImplementsAlertCycle
BY CycleInit, CycleKeeps, IncidentsInvariant, PTL DEF Spec, ImplementsAlertCycle, Cycle!AcSpec

-----------------------------------------------------------------------------
(* Investigations leave the incidents as the webhook keeps them.           *)

\* What an executor may do to the webhook's tables: write a timeline, and fail.
Aside ==
    /\ UNCHANGED webhookVars /\ faults' \in 0 .. MaxFaults
    /\ \/ UNCHANGED incidents
       \/ \E i \in DOMAIN incidents, entries \in SUBSET Entries :
             incidents' = [incidents EXCEPT ![i].timeline = entries]

LEMMA AsideMoves ==
    ASSUME TypeOK, Aside
    PROVE  /\ incidents' \in Seq(Incident) /\ Len(incidents') = Len(incidents)
           /\ DOMAIN incidents' = DOMAIN incidents
           /\ \A i \in DOMAIN incidents :
                 /\ incidents'[i].state = incidents[i].state /\ incidents'[i].key = incidents[i].key
                 /\ incidents'[i].auto = incidents[i].auto /\ incidents'[i].job = incidents[i].job
<1>0. /\ incidents \in Seq(Incident) /\ DOMAIN incidents = 1 .. Len(incidents)
      /\ \A i \in DOMAIN incidents : incidents[i] \in Incident
  BY TableTypes DEF TypeOK
<1>1. CASE UNCHANGED incidents
  BY <1>0, <1>1
<1>2. ASSUME NEW i \in DOMAIN incidents, NEW entries \in SUBSET Entries,
             incidents' = [incidents EXCEPT ![i].timeline = entries]
      PROVE  /\ incidents' \in Seq(Incident) /\ Len(incidents') = Len(incidents)
             /\ \A j \in DOMAIN incidents :
                   incidents'[j] = IF j = i THEN [incidents[i] EXCEPT !.timeline = entries]
                                   ELSE incidents[j]
  <2> DEFINE row == [incidents[i] EXCEPT !.timeline = entries]
  <2>1. row \in Incident
    BY <1>0 DEF Incident
  <2>2. incidents' = [incidents EXCEPT ![i] = row]
    BY <1>2
  <2> HIDE DEF row
  <2>3. /\ [incidents EXCEPT ![i] = row] \in Seq(Incident)
        /\ Len([incidents EXCEPT ![i] = row]) = Len(incidents)
        /\ \A j \in 1 .. Len(incidents) :
              [incidents EXCEPT ![i] = row][j] = IF j = i THEN row ELSE incidents[j]
    BY <1>0, <2>1, ExceptSeq
  <2> QED BY <1>0, <2>2, <2>3 DEF row
<1>3. CASE ~ UNCHANGED incidents
  <2>1. PICK i \in DOMAIN incidents, entries \in SUBSET Entries :
               incidents' = [incidents EXCEPT ![i].timeline = entries]
    BY <1>3 DEF Aside
  <2>2. /\ incidents' \in Seq(Incident) /\ Len(incidents') = Len(incidents)
        /\ \A j \in DOMAIN incidents :
              incidents'[j] = IF j = i THEN [incidents[i] EXCEPT !.timeline = entries]
                              ELSE incidents[j]
    BY <1>2, <2>1
  <2>3. DOMAIN incidents' = 1 .. Len(incidents')
    BY <2>2, LenProperties
  <2>4. incidents[i] \in Incident
    BY <1>0
  <2> QED BY <1>0, <2>2, <2>3, <2>4 DEF Incident
<1> QED BY <1>1, <1>3

LEMMA AsideKeepsIncidents ==
    ASSUME IncidentsInv, Aside
    PROVE  IncidentsInv' /\ UNCHANGED <<CycleMap, jobs>>
<1>0. TypeOK /\ IncBase /\ OneActive /\ DeliveriesOK /\ AutoStartOK /\ EvidenceOK
  BY IncidentsInvParts DEF IncBase
<1>1. UNCHANGED <<deliveries, handler, sent, overlapped, evidence, jobs>> /\ faults' \in 0 .. MaxFaults
  BY DEF Aside, webhookVars
<1>2. /\ incidents' \in Seq(Incident) /\ Len(incidents') = Len(incidents)
      /\ DOMAIN incidents' = DOMAIN incidents
      /\ \A i \in DOMAIN incidents :
            /\ incidents'[i].state = incidents[i].state /\ incidents'[i].key = incidents[i].key
            /\ incidents'[i].auto = incidents[i].auto /\ incidents'[i].job = incidents[i].job
  BY <1>0, AsideMoves
<1>3. ActiveIncidents' = ActiveIncidents
  BY <1>2 DEF ActiveIncidents
<1>4. TypeOK'
  BY <1>0, <1>1, <1>2 DEF TypeOK
<1>5. OpenersDelivered' /\ IncidentsOK'
  BY <1>0, <1>1, <1>2 DEF IncBase, OpenersDelivered, Openers, IncidentsOK
<1>6. \A h \in Handlers : HandlerOK(h)'
  BY <1>0, <1>1, <1>2 DEF IncBase, HandlerOK
<1>7. OneActiveIncident'
  BY <1>3 DEF IncidentsInv, OneActiveIncident
<1>8. OneHandlerPerKey' /\ OpenUntilHandled'
  BY <1>0, <1>1 DEF DeliveriesOK, OneHandlerPerKey, OpenUntilHandled, Key
<1>9. ActiveIncidents \subseteq DOMAIN incidents
  BY DEF ActiveIncidents
<1>10. AutoStartNotLost'
  BY <1>0, <1>1, <1>2, <1>3, <1>9 DEF AutoStartOK, AutoStartNotLost
<1>11. JobsFollow'
  BY <1>0, <1>1, <1>2, <1>3, <1>9 DEF AutoStartOK, JobsFollow, Key
<1>12. NoDuplicateEvidence' /\ AcknowledgedLeavesEvidence' /\ EvidenceFollows'
  BY <1>0, <1>1 DEF EvidenceOK, NoDuplicateEvidence, AcknowledgedLeavesEvidence,
     EvidenceFollows, Key
<1>13. UNCHANGED CycleMap
  <2>1. \A j \in DOMAIN incidents : CycleRow(incidents'[j]) = CycleRow(incidents[j])
    BY <1>2 DEF CycleRow
  <2> QED BY <1>0, <1>2, <1>4, <2>1, CycleSame
<1> QED BY <1>1, <1>4, <1>5, <1>6, <1>7, <1>8, <1>10, <1>11, <1>12, <1>13 DEF IncidentsInv

-----------------------------------------------------------------------------
(* The facts of an investigation.                                          *)

\* What the webhook does to an investigation's tables: more alerts, more jobs.
EvidenceStays == \A i \in Rows, k \in Keys : evidence[i, k] > 0 => evidence'[i, k] > 0

Grown ==
    /\ jobs \subseteq jobs' /\ EvidenceStays
    /\ faults \in 0 .. MaxFaults /\ faults' \in 0 .. MaxFaults /\ faults <= faults'

LEMMA WebhookGrows ==
    ASSUME IncidentsInv, IncidentsInv', [Next]_vars
    PROVE  Grown
<1>0. /\ evidence \in [Rows \X Keys -> Nat] /\ faults \in 0 .. MaxFaults
      /\ faults' \in 0 .. MaxFaults /\ MaxFaults \in Nat
  BY DatadogAssumption DEF DatadogAssumption, IncidentsInv, TypeOK
<1>1. UNCHANGED evidence => EvidenceStays
  BY DEF EvidenceStays
<1>6. UNCHANGED faults \/ faults' = faults + 1 => faults <= faults'
  BY <1>0
<1>2. ASSUME NEW h \in Handlers, Step(h) PROVE Grown
  <2>1. UNCHANGED jobs \/ jobs' = jobs \cup {handler[h].inc}
    BY <1>2 DEF Step, RefreshDelivery, FindIncident, UpdateIncident, InsertIncident, RefindIncident,
       ResolveIncident, LookForEvidence, RecordEvidence, EnqueueInvestigation, LinkInvestigation,
       MarkProcessed, MarkFailed, StatementFails, Crash
  <2>2. UNCHANGED faults \/ faults' = faults + 1
    BY <1>2 DEF Step, RefreshDelivery, FindIncident, UpdateIncident, InsertIncident, RefindIncident,
       ResolveIncident, LookForEvidence, RecordEvidence, EnqueueInvestigation, LinkInvestigation,
       MarkProcessed, MarkFailed, StatementFails, Crash
  <2>3. UNCHANGED evidence
        \/ evidence' = [evidence EXCEPT ![<<handler[h].inc, Key(h)>>] = @ + 1]
    BY <1>2 DEF Step, RefreshDelivery, FindIncident, UpdateIncident, InsertIncident, RefindIncident,
       ResolveIncident, LookForEvidence, RecordEvidence, EnqueueInvestigation, LinkInvestigation,
       MarkProcessed, MarkFailed, StatementFails, Crash
  <2>4. \A ik \in Rows \X Keys : evidence[ik] > 0 => evidence'[ik] > 0
    BY <1>0, <2>3
  <2>5. EvidenceStays
    BY <2>4 DEF EvidenceStays
  <2> QED BY <1>0, <1>6, <2>1, <2>2, <2>5 DEF Grown
<1>3. ASSUME NEW h \in Handlers, NEW a \in Alerts, Deliver(h, a) PROVE Grown
  <2>1. UNCHANGED <<evidence, jobs, faults>>
    BY <1>3 DEF Deliver
  <2> QED BY <1>0, <1>1, <1>6, <2>1 DEF Grown
<1>4. ASSUME NEW i \in DOMAIN incidents, StartInvestigation(i) PROVE Grown
  <2>1. jobs' = jobs \cup {i} /\ UNCHANGED evidence /\ (UNCHANGED faults \/ faults' = faults + 1)
    BY <1>4 DEF StartInvestigation
  <2> QED BY <1>0, <1>1, <1>6, <2>1 DEF Grown
<1>5. CASE UNCHANGED vars
  <2>1. UNCHANGED <<evidence, jobs, faults>>
    BY <1>5 DEF vars
  <2> QED BY <1>0, <1>1, <1>6, <2>1 DEF Grown
<1> QED BY <1>2, <1>3, <1>4, <1>5 DEF Next, Handle, Step

LEMMA NamesOfRows ==
    /\ Commit # Signal /\ Commit # Telemetry /\ Signal # Telemetry
    /\ Unavailable \notin {Commit, Signal, Telemetry}
BY DEF Commit, Signal, Telemetry, Unavailable

LEMMA KeysFinite == IsFiniteSet(Keys)
<1> DEFINE f == [a \in Alerts |-> AlertTransitionKey(a)]
<1>1. f \in Surjection(Alerts, Keys)
  BY DEF Surjection, Keys
<1> QED BY <1>1, FS_Surjection, DatadogAssumption DEF DatadogAssumption

\* The rows of an incident that can be cited are finitely many.
LEMMA VerifiedFinite ==
    ASSUME InvTypeOK, NEW i \in Rows
    PROVE  /\ IsFiniteSet(Verified(i)) /\ Cardinality(Verified(i)) \in Nat
           /\ Verified(i) \subseteq Facts
<1>1. gathered[i] \subseteq {Commit, Signal, Telemetry, Unavailable}
  BY DEF InvTypeOK
<1>2. Verified(i) \subseteq Facts
  BY <1>1 DEF Verified, Facts
<1>3. IsFiniteSet(Facts)
  <2>1. IsFiniteSet(Keys \cup {Commit})
    BY KeysFinite, FS_AddElement
  <2>2. IsFiniteSet((Keys \cup {Commit}) \cup {Signal})
    BY <2>1, FS_AddElement
  <2>3. IsFiniteSet(((Keys \cup {Commit}) \cup {Signal}) \cup {Telemetry})
    BY <2>2, FS_AddElement
  <2>4. Facts = ((Keys \cup {Commit}) \cup {Signal}) \cup {Telemetry}
    BY DEF Facts
  <2> QED BY <2>3, <2>4
<1>4. IsFiniteSet(Verified(i))
  BY <1>2, <1>3, FS_Subset
<1> QED BY <1>2, <1>4, FS_CardinalityType

\* A list of all of them lists each once, and misses none.
LEMMA ListingIsAll ==
    ASSUME NEW S, IsFiniteSet(S), NEW s \in SetToSeqs(S)
    PROVE  /\ s \in Seq(S) /\ Len(s) = Cardinality(S)
           /\ \A m, n \in 1 .. Len(s) : s[m] = s[n] => m = n
           /\ \A e \in S : \E n \in 1 .. Len(s) : s[n] = e
<1> DEFINE N == Cardinality(S)
<1>0. N \in Nat
  BY FS_CardinalityType
<1>1. s \in [1 .. N -> S] /\ \A m, n \in 1 .. N : m # n => s[m] # s[n]
  BY DEF SetToSeqs
<1>2. s \in Seq(S) /\ Len(s) = N
  BY <1>0, <1>1
<1>3. s \in Injection(1 .. N, S)
  BY <1>1 DEF Injection, IsInjective
<1>4. IsFiniteSet(1 .. N) /\ Cardinality(1 .. N) = N
  BY <1>0, FS_Interval
<1>5. s \in Surjection(1 .. N, S)
  <2> HIDE DEF N
  <2>1. Cardinality(1 .. N) = Cardinality(S)
    BY <1>4 DEF N
  <2> QED BY <1>3, <2>1, FS_Injection
<1>6. \A e \in S : \E n \in 1 .. N : s[n] = e
  BY <1>5 DEF Surjection
<1> QED BY <1>1, <1>2, <1>6

\* The facts a prompt is made from.
LEMMA LoadedAreShown ==
    ASSUME InvTypeOK, NEW i \in Rows, NEW facts \in LoadFacts(i)
    PROVE  facts \in Seq(Facts) /\ ShownOK(facts, i)
<1>1. PICK s \in SetToSeqs(Verified(i)) :
             facts = SubSeq(s, 1, IF Len(s) < MaxFacts THEN Len(s) ELSE MaxFacts)
  BY DEF LoadFacts, OldestFirst
<1> DEFINE V == Verified(i)
           n == IF Len(s) < MaxFacts THEN Len(s) ELSE MaxFacts
<1>2. /\ s \in Seq(V) /\ \A m, l \in 1 .. Len(s) : s[m] = s[l] => m = l
      /\ \A e \in V : \E m \in 1 .. Len(s) : s[m] = e
  BY ListingIsAll, VerifiedFinite
<1>3. V \subseteq Facts
  BY VerifiedFinite
<1>4. Len(s) \in Nat /\ MaxFacts \in Nat \ {0} /\ n \in 0 .. Len(s)
  BY <1>2, LenProperties, InvestigationAssumption DEF InvestigationAssumption
<1>5. \A m \in 1 .. n : s[m] \in V
  BY <1>2, <1>4, ElementOfSeq
<1>6. /\ facts \in Seq(V) /\ Len(facts) = n /\ \A m \in 1 .. n : facts[m] = s[m]
  <2> HIDE DEF V, n
  <2>1. facts = SubSeq(s, 1, n)
    BY <1>1 DEF n
  <2>2. 1 \in Int /\ n \in Int
    BY <1>4
  <2>3. /\ SubSeq(s, 1, n) \in Seq(V) /\ Len(SubSeq(s, 1, n)) = IF 1 <= n THEN n - 1 + 1 ELSE 0
        /\ \A m \in 1 .. n - 1 + 1 : SubSeq(s, 1, n)[m] = s[1 + m - 1]
    BY <1>5, <2>2, SubSeqProperties
  <2>4. n - 1 + 1 = n /\ \A m \in 1 .. n : 1 + m - 1 = m
    BY <2>2
  <2>5. \A m \in 1 .. n : SubSeq(s, 1, n)[m] = s[m]
    BY <2>3, <2>4
  <2> QED BY <1>4, <2>1, <2>3, <2>4, <2>5
<1>7. DOMAIN facts = 1 .. n
  BY <1>6, LenProperties
<1>8. facts \in Seq(Facts)
  BY <1>3, <1>6
<1>9. Telemetry \in gathered[i] => TfAvailable(facts) \/ Len(facts) = MaxFacts
  <2> SUFFICES ASSUME Telemetry \in gathered[i], Len(facts) # MaxFacts PROVE TfAvailable(facts)
    OBVIOUS
  <2>1. n = Len(s)
    BY <1>4, <1>6
  <2>2. Telemetry \in V
    BY NamesOfRows DEF Verified
  <2> QED BY <1>2, <1>6, <1>7, <2>1, <2>2 DEF TfAvailable
<1>10. /\ \A m \in 1 .. n : facts[m] \in V
       /\ \A m, l \in 1 .. n : facts[m] = facts[l] => m = l
  <2>1. 1 .. n \subseteq 1 .. Len(s)
    BY <1>4
  <2> HIDE DEF V, n
  <2>2. \A m \in 1 .. n : facts[m] \in V
    BY <1>5, <1>6
  <2>3. ASSUME NEW m \in 1 .. n, NEW l \in 1 .. n, facts[m] = facts[l] PROVE m = l
    <3>1. s[m] = s[l] /\ m \in 1 .. Len(s) /\ l \in 1 .. Len(s)
      BY <1>6, <2>1, <2>3
    <3> QED BY <1>2, <3>1
  <2> QED BY <2>2, <2>3
<1> QED BY <1>7, <1>8, <1>9, <1>10 DEF ShownOK

-----------------------------------------------------------------------------
(* What a step leaves of the other jobs.                                   *)

AuditOK(i) ==
    output[i] # <<>> =>
        /\ call[i].status = "succeeded"
        /\ output[i][1] = [answer |-> Validated(call[i].answer[1].answer, Other("empty")),
                           facts  |-> call[i].answer[1].shown]

ExecInv ==
    /\ jobs \subseteq Rows /\ InvTypeOK /\ OneTickPerJob /\ AttemptsOK
    /\ \A t \in Ticks : Mine(t) = 0 \/ PlaceOK(t)
    /\ \A i \in Rows : ResultsOK(i)
    /\ \A i \in Rows : AuditOK(i)

LEMMA JobsAreRows == IncidentsInv => jobs \subseteq Rows
BY TableTypes DEF IncidentsInv, TypeOK

LEMMA InvestigationInvParts == InvestigationInv <=> IncidentsInv /\ ExecInv
BY JobsAreRows DEF InvestigationInv, ExecInv, AuditOK, AuditMatchesOutput

TickRows ==
    [pc : TickPcs, inc : {0} \cup jobs, facts : Seq(Facts), answer : Seq(Answers),
     seen : SUBSET Entries]

JobRows ==
    [state : {"runnable", "succeeded", "failed"}, phase : DOMAIN Phases,
     attempt : 0 .. MaxAttempts + MaxFaults]

LEMMA ExecTypes ==
    ASSUME ExecInv
    PROVE  /\ \A t \in Ticks : tick[t] \in TickRows /\ (Mine(t) # 0 => Mine(t) \in Rows)
           /\ \A i \in Rows : job[i] \in JobRows /\ i # 0 /\ i \in Nat
           /\ DOMAIN Phases = 1 .. 5 /\ Len(Phases) = 5
           /\ MaxAttempts \in Nat \ {0} /\ MaxFaults \in Nat
<1>1. MaxSends \in Nat /\ MaxFaults \in Nat /\ MaxAttempts \in Nat \ {0}
  BY DatadogAssumption, InvestigationAssumption DEF DatadogAssumption, InvestigationAssumption
<1>2. Rows = 1 .. MaxSends
  BY DEF Rows
<1>3. DOMAIN Phases = 1 .. 5 /\ Len(Phases) = 5
  BY DEF Phases
<1>4. \A t \in Ticks : tick[t] \in TickRows
  BY DEF ExecInv, InvTypeOK, TickRows
<1>5. \A t \in Ticks : Mine(t) # 0 => Mine(t) \in Rows
  BY <1>4 DEF ExecInv, TickRows, Mine
<1>6. \A i \in Rows : job[i] \in JobRows
  BY DEF ExecInv, InvTypeOK, JobRows
<1> QED BY <1>1, <1>2, <1>3, <1>4, <1>5, <1>6

LEMMA ShownStays ==
    ASSUME EvidenceStays, NEW i \in Rows, gathered'[i] = gathered[i], NEW facts, ShownOK(facts, i)
    PROVE  ShownOK(facts, i)'
<1>1. \A f : f \in Verified(i) => f \in Verified(i)'
  BY DEF EvidenceStays, Verified
<1> QED BY <1>1 DEF ShownOK, TfAvailable

\* The tables of a job that nothing happens to, but for new alerts.
Untouched(j) ==
    /\ job'[j] = job[j] /\ gathered'[j] = gathered[j] /\ call'[j] = call[j]
    /\ output'[j] = output[j] /\ hypotheses'[j] = hypotheses[j]

LEMMA JobStays ==
    ASSUME EvidenceStays, NEW j \in Rows, Untouched(j)
    PROVE  /\ ResultsOK(j) => ResultsOK(j)'
           /\ AuditOK(j) => AuditOK(j)'
           /\ \A u \in Ticks : tick'[u] = tick[u] /\ Mine(u) = j /\ PlaceOK(u) => PlaceOK(u)'
<1>1. ASSUME ResultsOK(j) PROVE ResultsOK(j)'
  <2>1. output[j] # <<>> => ShownOK(output[j][1].facts, j)'
    BY <1>1, ShownStays DEF ResultsOK, Untouched
  <2>2. output[j] # <<>> => ShownOK(output[j][1].facts, j)' /\ output'[j] = output[j]
    BY <2>1 DEF Untouched
  <2> QED BY <1>1, <2>2 DEF ResultsOK, Untouched
<1>2. AuditOK(j) => AuditOK(j)'
  BY DEF AuditOK, Untouched
<1>3. ASSUME NEW u \in Ticks, tick'[u] = tick[u], Mine(u) = j, PlaceOK(u) PROVE PlaceOK(u)'
  <2>1. PICK row : row = tick[u]
    OBVIOUS
  <2>2. tick'[u] = row /\ Mine(u)' = j /\ row.inc = j
    BY <1>3, <2>1 DEF Mine
  <2>3. row.pc \in {"invoke", "save_call", "save_output"} => ShownOK(row.facts, j)'
    BY <1>3, <2>1, ShownStays DEF PlaceOK, Untouched
  <2> QED BY <1>3, <2>1, <2>2, <2>3 DEF PlaceOK, Untouched, Mine
<1> QED BY <1>1, <1>2, <1>3

\* Alerts and members disturb no investigation.
LEMMA WebhookKeepsExec ==
    ASSUME ExecInv, Grown, jobs' \subseteq Rows, UNCHANGED invVars
    PROVE  ExecInv'
<1>0. /\ UNCHANGED <<job, gathered, correlated, call, output, hypotheses, tick>>
      /\ jobs \subseteq jobs' /\ EvidenceStays
  BY DEF invVars, Grown
<1>1. InvTypeOK'
  <2>1. \A t \in Ticks : tick[t] \in TickRows'
    BY <1>0, ExecTypes DEF TickRows
  <2>2. tick \in [Ticks -> TickRows]
    BY DEF ExecInv, InvTypeOK, TickRows
  <2>3. tick' \in [Ticks -> TickRows']
    BY <1>0, <2>1, <2>2
  <2> QED BY <1>0, <2>3 DEF ExecInv, InvTypeOK, TickRows
<1>2. OneTickPerJob'
  BY <1>0 DEF ExecInv, OneTickPerJob, Mine
<1>3. AttemptsOK'
  <2>1. faults \in Nat /\ faults' \in Nat /\ faults <= faults'
    BY ExecTypes DEF Grown
  <2>2. ASSUME NEW i \in Rows
        PROVE  /\ job[i].attempt <= MaxAttempts + faults'
               /\ job[i].state = "runnable" /\ (\A t \in Ticks : Mine(t) # i) =>
                     job[i].attempt < MaxAttempts + faults'
    <3>1. job[i].attempt \in Nat /\ MaxAttempts \in Nat
      BY ExecTypes DEF JobRows
    <3> QED BY <2>1, <3>1 DEF ExecInv, AttemptsOK
  <2> QED BY <1>0, <2>2 DEF AttemptsOK, Mine
<1>4. \A i \in Rows : Untouched(i)
  BY <1>0 DEF Untouched
<1>5. \A t \in Ticks : Mine(t)' = 0 \/ PlaceOK(t)'
  <2> SUFFICES ASSUME NEW t \in Ticks, Mine(t) # 0 PROVE PlaceOK(t)'
    BY <1>0 DEF Mine
  <2>1. Mine(t) \in Rows /\ PlaceOK(t) /\ tick'[t] = tick[t]
    BY <1>0, ExecTypes DEF ExecInv
  <2> QED BY <1>0, <1>4, <2>1, JobStays
<1>6. \A i \in Rows : ResultsOK(i)' /\ AuditOK(i)'
  BY <1>0, <1>4, JobStays DEF ExecInv
<1>7. Rows' = Rows
  BY DEF Rows
<1> QED BY <1>1, <1>2, <1>3, <1>5, <1>6, <1>7 DEF ExecInv

\* A tick works on job i: only its own state and that job change.
Works(t, i) ==
    /\ Mine(t) \in {0, i} /\ tick'[t].inc \in {0, i}
    /\ \A u \in Ticks \ {t} : tick'[u] = tick[u] /\ Mine(u) # i
    /\ \A j \in Rows \ {i} : Untouched(j)
    /\ UNCHANGED <<evidence, jobs>> /\ faults' \in Nat /\ faults <= faults'

\* What it has to see to for that job and itself.
LeavesJob(t, i) ==
    /\ job'[i].attempt <= MaxAttempts + faults'
    /\ tick'[t].inc = 0 /\ job'[i].state = "runnable" => job'[i].attempt < MaxAttempts + faults'
    /\ tick'[t].pc = "idle" => tick'[t].inc = 0
    /\ tick'[t].pc # "idle" =>
          tick'[t].inc = i /\ job'[i].state = "runnable" /\ PlaceOK(t)'
    /\ ResultsOK(i)' /\ AuditOK(i)'

LEMMA WorksKeep ==
    ASSUME ExecInv, NEW t \in Ticks, NEW i \in Rows, faults \in Nat,
           Works(t, i), LeavesJob(t, i), InvTypeOK'
    PROVE  ExecInv'
<1>0. /\ \A u \in Ticks \ {t} : Mine(u)' = Mine(u) /\ Mine(u) # i
      /\ \A j \in Rows \ {i} : Untouched(j)
      /\ EvidenceStays /\ UNCHANGED jobs /\ i # 0
  BY ExecTypes DEF Works, Mine, EvidenceStays
<1>1. OneTickPerJob'
  <2>1. \A u \in Ticks \ {t} :
           /\ \A v \in Ticks \ {t} : Mine(u)' = Mine(v)' /\ Mine(u)' # 0 => u = v
           /\ Mine(u)' # i
           /\ IF tick'[u].pc = "idle" THEN Mine(u)' = 0
              ELSE Mine(u)' # 0 /\ job[Mine(u)].state = "runnable"
    BY <1>0 DEF ExecInv, OneTickPerJob, Works
  <2>2. \A u \in Ticks \ {t} : Mine(u)' # 0 => job'[Mine(u)] = job[Mine(u)]
    BY <1>0, ExecTypes DEF Untouched
  <2>3. Mine(t)' \in {0, i}
        /\ IF tick'[t].pc = "idle" THEN Mine(t)' = 0
           ELSE Mine(t)' # 0 /\ job'[Mine(t)'].state = "runnable"
    BY <1>0 DEF Works, LeavesJob, Mine
  <2> QED BY <1>0, <2>1, <2>2, <2>3 DEF OneTickPerJob
<1>2. AttemptsOK'
  <2> SUFFICES ASSUME NEW j \in Rows
               PROVE  /\ job'[j].attempt <= MaxAttempts + faults'
                      /\ job'[j].state = "runnable" /\ (\A u \in Ticks : Mine(u)' # j) =>
                            job'[j].attempt < MaxAttempts + faults'
    BY DEF AttemptsOK, Rows
  <2>1. CASE j = i
    BY <1>0, <2>1 DEF LeavesJob, Works, Mine
  <2>2. CASE j # i
    <3>1. job'[j] = job[j] /\ job[j].attempt \in Nat /\ MaxAttempts \in Nat
      BY <1>0, <2>2, ExecTypes DEF Untouched, JobRows
    <3>2. (\A u \in Ticks : Mine(u)' # j) => \A u \in Ticks : Mine(u) # j
      BY <1>0, <2>2, ExecTypes DEF Works
    <3>3. /\ job[j].attempt <= MaxAttempts + faults
          /\ job[j].state = "runnable" /\ (\A u \in Ticks : Mine(u) # j) =>
                job[j].attempt < MaxAttempts + faults
      BY DEF ExecInv, AttemptsOK
    <3>4. faults' \in Nat /\ faults <= faults'
      BY DEF Works
    <3> QED BY <3>1, <3>2, <3>3, <3>4
  <2> QED BY <2>1, <2>2
<1>3. \A u \in Ticks : Mine(u)' = 0 \/ PlaceOK(u)'
  <2>1. Mine(t)' = 0 \/ PlaceOK(t)'
    BY DEF LeavesJob, Mine
  <2>2. ASSUME NEW u \in Ticks \ {t}, Mine(u)' # 0 PROVE PlaceOK(u)'
    <3>1. Mine(u) \in Rows \ {i} /\ PlaceOK(u) /\ tick'[u] = tick[u]
      BY <1>0, <2>2, ExecTypes DEF ExecInv, Works
    <3>2. EvidenceStays /\ Untouched(Mine(u))
      BY <1>0, <3>1
    <3>3. PICK j \in Rows : j = Mine(u)
      BY <3>1
    <3> QED BY <3>1, <3>2, <3>3, JobStays
  <2> QED BY <2>1, <2>2
<1>4. \A j \in Rows : ResultsOK(j)' /\ AuditOK(j)'
  <2>1. \A j \in Rows \ {i} : ResultsOK(j)' /\ AuditOK(j)'
    BY <1>0, JobStays DEF ExecInv
  <2> QED BY <2>1 DEF LeavesJob
<1>5. Rows' = Rows
  BY DEF Rows
<1> QED BY <1>0, <1>1, <1>2, <1>3, <1>4, <1>5 DEF ExecInv

-----------------------------------------------------------------------------
(* A tick at work.                                                         *)

LEMMA StatementsAre ==
    /\ Statements[1] = {"triage"}
    /\ Statements[2] = {"gather_signals", "gather_datadog", "gather_telemetry"}
    /\ Statements[3] = {"correlate"}
    /\ Statements[4] = {"hypotheses", "invoke", "save_call", "save_output"}
    /\ Statements[5] = {"summarize", "write_back"}
    /\ \A n \in 1 .. 5 : Phases[n] \in Statements[n]
    /\ TickPcs = {"idle", "done", "triage", "gather_signals", "gather_datadog",
                  "gather_telemetry", "correlate", "hypotheses", "invoke", "save_call",
                  "save_output", "summarize", "write_back"}
<1>1. DOMAIN Phases = 1 .. 5
  BY DEF Phases
<1>2. /\ Statements[1] = {"triage"}
      /\ Statements[2] = {"gather_signals", "gather_datadog", "gather_telemetry"}
      /\ Statements[3] = {"correlate"}
      /\ Statements[4] = {"hypotheses", "invoke", "save_call", "save_output"}
      /\ Statements[5] = {"summarize", "write_back"}
  BY DEF Statements
<1>3. 1 .. 5 = {1, 2, 3, 4, 5}
  OBVIOUS
<1>4. \A n \in {1, 2, 3, 4, 5} : Phases[n] \in Statements[n]
  BY <1>2 DEF Phases
<1>5. UNION {Statements[n] : n \in {1, 2, 3, 4, 5}} =
        Statements[1] \cup Statements[2] \cup Statements[3] \cup Statements[4] \cup Statements[5]
  OBVIOUS
<1>6. TickPcs = {"idle", "done", "triage", "gather_signals", "gather_datadog",
                 "gather_telemetry", "correlate", "hypotheses", "invoke", "save_call",
                 "save_output", "summarize", "write_back"}
  BY <1>1, <1>2, <1>3, <1>5 DEF TickPcs
<1> QED BY <1>2, <1>3, <1>4, <1>6

LEMMA AtWork ==
    ASSUME ExecInv, NEW t \in Ticks, tick[t].pc # "idle"
    PROVE  /\ Mine(t) \in Rows /\ Mine(t) # 0 /\ tick[t] \in TickRows /\ tick[t].inc = Mine(t)
           /\ PlaceOK(t) /\ ResultsOK(Mine(t)) /\ AuditOK(Mine(t))
           /\ job[Mine(t)] \in JobRows /\ job[Mine(t)].state = "runnable"
           /\ job[Mine(t)].attempt <= MaxAttempts + faults
           /\ \A u \in Ticks \ {t} : Mine(u) # Mine(t)
           /\ tick[t].pc = "triage" => job[Mine(t)].phase = 1
           /\ tick[t].pc \in {"gather_signals", "gather_datadog", "gather_telemetry"} =>
                 job[Mine(t)].phase = 2
           /\ tick[t].pc = "correlate" => job[Mine(t)].phase = 3
           /\ tick[t].pc \in {"hypotheses", "invoke", "save_call", "save_output"} =>
                 job[Mine(t)].phase = 4
           /\ tick[t].pc \in {"summarize", "write_back"} => job[Mine(t)].phase = 5
<1>1. /\ Mine(t) \in Rows /\ Mine(t) # 0 /\ tick[t] \in TickRows /\ tick[t].inc = Mine(t)
      /\ job[Mine(t)].state = "runnable" /\ job[Mine(t)] \in JobRows
      /\ \A u \in Ticks \ {t} : Mine(u) # Mine(t)
  BY ExecTypes DEF ExecInv, OneTickPerJob, Mine
<1>2. /\ PlaceOK(t) /\ ResultsOK(Mine(t)) /\ AuditOK(Mine(t))
      /\ job[Mine(t)].attempt <= MaxAttempts + faults
  BY <1>1 DEF ExecInv, AttemptsOK
<1>3. job[Mine(t)].phase \in {1, 2, 3, 4, 5}
  BY <1>1, ExecTypes DEF JobRows
<1>4. tick[t].pc \in Statements[job[Mine(t)].phase] \cup {"done"}
  BY <1>2 DEF PlaceOK
<1> QED BY <1>1, <1>2, <1>3, <1>4, StatementsAre

LEMMA TickEdit ==
    ASSUME ExecInv, NEW t \in Ticks, NEW row, tick' = [tick EXCEPT ![t] = row]
    PROVE  /\ tick'[t] = row
           /\ \A u \in Ticks \ {t} : tick'[u] = tick[u]
           /\ row \in TickRows => tick' \in [Ticks -> TickRows]
<1>1. tick \in [Ticks -> TickRows]
  BY DEF ExecInv, InvTypeOK, TickRows
<1> QED BY <1>1

\* A step of a tick at work that leaves its job's tables.
LEMMA Moves ==
    ASSUME ExecInv, faults \in Nat, NEW t \in Ticks, tick[t].pc # "idle",
           NEW i \in Rows, Mine(t) = i,
           NEW row \in TickRows, row.inc = i, row.pc # "idle",
           tick' = [tick EXCEPT ![t] = row],
           UNCHANGED <<vars, job, gathered, call, output, hypotheses>>,
           correlated' \in [Rows -> SUBSET {Commit}],
           PlaceOK(t)'
    PROVE  ExecInv'
<1>0. /\ tick'[t] = row /\ \A u \in Ticks \ {t} : tick'[u] = tick[u]
      /\ tick' \in [Ticks -> TickRows]
  BY TickEdit
<1>1. /\ UNCHANGED <<job, gathered, call, output, hypotheses, evidence, jobs, faults>>
      /\ EvidenceStays
  BY DEF vars, EvidenceStays
<1>2. /\ i # 0 /\ ResultsOK(i) /\ AuditOK(i) /\ job[i].state = "runnable"
      /\ job[i].attempt <= MaxAttempts + faults /\ \A u \in Ticks \ {t} : Mine(u) # i
  BY AtWork
<1>3. \A j \in Rows : Untouched(j)
  BY <1>1 DEF Untouched
<1>4. ResultsOK(i)' /\ AuditOK(i)'
  BY <1>1, <1>2, <1>3, JobStays
<1>5. InvTypeOK'
  BY <1>0, <1>1 DEF ExecInv, InvTypeOK, TickRows
<1>6. Works(t, i)
  BY <1>0, <1>1, <1>2, <1>3 DEF Works
<1>7. LeavesJob(t, i)
  BY <1>0, <1>1, <1>2, <1>4 DEF LeavesJob
<1> QED BY <1>5, <1>6, <1>7, WorksKeep

\* Gathering adds to the rows of a job that has asked nothing yet.
LEMMA Gathers ==
    ASSUME ExecInv, faults \in Nat, NEW t \in Ticks, NEW i \in Rows, Mine(t) = i,
           tick[t].pc \in {"gather_signals", "gather_datadog", "gather_telemetry"},
           NEW pc \in {"gather_datadog", "gather_telemetry", "done"}, Resume(t, pc),
           NEW found \in SUBSET {Commit, Signal, Telemetry, Unavailable},
           InsertEvidence(t, found),
           UNCHANGED <<vars, job, correlated, call, output, hypotheses>>
    PROVE  ExecInv'
<1> DEFINE row == [tick[t] EXCEPT !.pc = pc]
<1>1. /\ i # 0 /\ PlaceOK(t) /\ ResultsOK(i) /\ AuditOK(i) /\ job[i].state = "runnable"
      /\ job[i].attempt <= MaxAttempts + faults /\ \A u \in Ticks \ {t} : Mine(u) # i
      /\ job[i].phase = 2 /\ tick[t] \in TickRows /\ tick[t].inc = i
  BY AtWork
<1>2. /\ row \in TickRows /\ row.inc = i /\ row.pc = pc /\ pc # "idle"
  BY <1>1, StatementsAre DEF TickRows
<1>3. tick' = [tick EXCEPT ![t] = row]
  BY DEF Resume
<1> HIDE DEF row
<1>4. /\ tick'[t] = row /\ \A u \in Ticks \ {t} : tick'[u] = tick[u]
      /\ tick' \in [Ticks -> TickRows]
  BY <1>2, <1>3, TickEdit
<1>5. /\ UNCHANGED <<job, correlated, call, output, hypotheses, evidence, jobs, faults>>
      /\ EvidenceStays
  BY DEF vars, EvidenceStays
<1>6. gathered' = [gathered EXCEPT ![i] = @ \cup found]
      /\ gathered \in [Rows -> SUBSET {Commit, Signal, Telemetry, Unavailable}]
  BY DEF InsertEvidence, ExecInv, InvTypeOK
<1>7. gathered' \in [Rows -> SUBSET {Commit, Signal, Telemetry, Unavailable}]
  BY <1>6
<1>8. InvTypeOK'
  BY <1>4, <1>5, <1>7 DEF ExecInv, InvTypeOK, TickRows
<1>9. \A j \in Rows \ {i} : Untouched(j)
  BY <1>5, <1>6 DEF Untouched
<1>10. output[i] = <<>> /\ hypotheses[i] = {}
  BY <1>1 DEF ResultsOK
<1>11. ResultsOK(i)' /\ AuditOK(i)'
  BY <1>1, <1>5, <1>10 DEF ResultsOK, AuditOK
<1>12. PlaceOK(t)'
  <2>1. /\ tick'[t].inc = i /\ tick'[t].pc = pc /\ job'[i].phase = 2
    BY <1>1, <1>2, <1>4, <1>5
  <2> QED BY <2>1, StatementsAre DEF PlaceOK, Mine
<1>13. Works(t, i)
  BY <1>1, <1>2, <1>4, <1>5, <1>9 DEF Works
<1>14. LeavesJob(t, i)
  BY <1>1, <1>2, <1>4, <1>5, <1>11, <1>12 DEF LeavesJob
<1> QED BY <1>8, <1>13, <1>14, WorksKeep

-----------------------------------------------------------------------------
(* The statements of the phases.                                           *)

\* A tick goes on within its phase, or is done with it.
LEMMA ResumeKeeps ==
    ASSUME ExecInv, faults \in Nat, NEW t \in Ticks, tick[t].pc \in {"triage", "correlate"},
           Resume(t, "done"),
           UNCHANGED <<vars, job, gathered, call, output, hypotheses>>,
           correlated' \in [Rows -> SUBSET {Commit}]
    PROVE  ExecInv'
<1>1. PICK i \in Rows : i = Mine(t)
  BY AtWork
<1> DEFINE row == [tick[t] EXCEPT !.pc = "done"]
<1>2. /\ tick[t] \in TickRows /\ tick[t].inc = i /\ job[i].phase \in {1, 3}
  BY <1>1, AtWork
<1>3. /\ row \in TickRows /\ row.inc = i /\ row.pc = "done"
  BY <1>2, StatementsAre DEF TickRows
<1>4. tick' = [tick EXCEPT ![t] = row]
  BY DEF Resume
<1> HIDE DEF row
<1>5. tick'[t] = row /\ UNCHANGED job
  BY <1>3, <1>4, TickEdit
<1>6. PlaceOK(t)'
  BY <1>2, <1>3, <1>5 DEF PlaceOK, Mine
<1> QED BY <1>1, <1>3, <1>4, <1>6, Moves

LEMMA TriageStep ==
    ASSUME ExecInv, faults \in Nat, NEW t \in Ticks, Triage(t)
    PROVE  ExecInv'
<1>1. correlated' \in [Rows -> SUBSET {Commit}]
  BY DEF Triage, ExecInv, InvTypeOK
<1> QED BY <1>1, ResumeKeeps DEF Triage

LEMMA CorrelateStep ==
    ASSUME ExecInv, faults \in Nat, NEW t \in Ticks, Correlate(t)
    PROVE  ExecInv'
<1>1. correlated' \in [Rows -> SUBSET {Commit}]
  BY DEF Correlate, WriteCorrelatedChanges, LoadCommitEvidence, ExecInv, InvTypeOK
<1> QED BY <1>1, ResumeKeeps DEF Correlate

LEMMA GatherSteps ==
    ASSUME ExecInv, faults \in Nat, NEW t \in Ticks,
           GatherCommits(t) \/ GatherSignals(t) \/ GatherTelemetry(t)
    PROVE  ExecInv'
<1>0. tick[t].pc \in {"gather_signals", "gather_datadog", "gather_telemetry"}
  BY DEF GatherCommits, GatherSignals, GatherTelemetry
<1>1. PICK i \in Rows : i = Mine(t)
  BY <1>0, AtWork
<1>2. CASE GatherCommits(t)
  <2>1. PICK found \in SUBSET {Commit} : InsertEvidence(t, found)
    BY <1>2 DEF GatherCommits, RecentCommits, Safe, ParsedCommits
  <2> QED BY <1>0, <1>1, <1>2, <2>1, Gathers DEF GatherCommits
<1>3. CASE GatherSignals(t)
  <2>1. PICK found \in SUBSET {Signal} : InsertEvidence(t, found)
    BY <1>3 DEF GatherSignals, DatadogFacts, Safe, ParsedLogs
  <2> QED BY <1>0, <1>1, <1>3, <2>1, Gathers DEF GatherSignals
<1>4. CASE GatherTelemetry(t)
  <2>1. PICK found \in TruefoundryFacts :
               InsertEvidence(t, IF found = {} THEN {Unavailable} ELSE found)
    BY <1>4 DEF GatherTelemetry
  <2>2. found \subseteq {Telemetry}
    BY DEF TruefoundryFacts, TelemetryFact
  <2>3. PICK rows \in SUBSET {Telemetry, Unavailable} : InsertEvidence(t, rows)
    BY <2>1, <2>2
  <2> QED BY <1>0, <1>1, <1>4, <2>3, Gathers DEF GatherTelemetry
<1> QED BY <1>2, <1>3, <1>4

LEMMA AskStep ==
    ASSUME ExecInv, faults \in Nat, NEW t \in Ticks, Ask(t)
    PROVE  ExecInv'
<1>0. /\ tick[t].pc = "hypotheses"
      /\ UNCHANGED <<vars, job, gathered, correlated, call, output, hypotheses>>
      /\ correlated \in [Rows -> SUBSET {Commit}]
  BY DEF Ask, ExecInv, InvTypeOK
<1>1. PICK i \in Rows : i = Mine(t)
  BY <1>0, AtWork
<1>2. tick[t] \in TickRows /\ tick[t].inc = i /\ job[i].phase = 4
  BY <1>0, <1>1, AtWork
<1>3. CASE HasOutput(t) /\ Resume(t, "done")
  <2> DEFINE row == [tick[t] EXCEPT !.pc = "done"]
  <2>1. /\ row \in TickRows /\ row.inc = i /\ row.pc = "done"
    BY <1>2, StatementsAre DEF TickRows
  <2>2. tick' = [tick EXCEPT ![t] = row]
    BY <1>3 DEF Resume
  <2> HIDE DEF row
  <2>3. tick'[t] = row /\ output'[i] # <<>>
    BY <1>0, <1>1, <1>3, <2>1, <2>2, TickEdit DEF HasOutput
  <2>4. PlaceOK(t)'
    BY <1>0, <1>2, <2>1, <2>3 DEF PlaceOK, Mine
  <2> QED BY <1>0, <1>1, <2>1, <2>2, <2>4, Moves
<1>4. ASSUME ~ HasOutput(t), NEW facts \in LoadFacts(Mine(t)),
             tick' = [tick EXCEPT ![t].pc = "invoke", ![t].facts = facts]
      PROVE  ExecInv'
  <2> DEFINE row == [tick[t] EXCEPT !.pc = "invoke", !.facts = facts]
  <2>0. facts \in LoadFacts(i)
    BY <1>1, <1>4
  <2>1. facts \in Seq(Facts) /\ ShownOK(facts, i) /\ output[i] = <<>>
    BY <1>1, <1>4, <2>0, LoadedAreShown DEF ExecInv, HasOutput
  <2>2. /\ row \in TickRows /\ row.inc = i /\ row.pc = "invoke" /\ row.facts = facts
    BY <1>2, <2>1, StatementsAre DEF TickRows
  <2>3. tick' = [tick EXCEPT ![t] = row]
    BY <1>4
  <2> HIDE DEF row
  <2>4. tick'[t] = row
    BY <2>2, <2>3, TickEdit
  <2>5. EvidenceStays
    BY <1>0 DEF vars, EvidenceStays
  <2>6. ShownOK(facts, i)'
    BY <1>0, <2>1, <2>5, ShownStays
  <2>7. PlaceOK(t)'
    BY <1>0, <1>2, <2>1, <2>2, <2>4, <2>6, StatementsAre DEF PlaceOK, Mine
  <2> QED BY <1>0, <1>1, <2>2, <2>3, <2>7, Moves
<1> QED BY <1>3, <1>4 DEF Ask

LEMMA InvokeStep ==
    ASSUME ExecInv, faults \in Nat, NEW t \in Ticks, Invoke(t)
    PROVE  ExecInv'
<1>0. /\ tick[t].pc = "invoke"
      /\ UNCHANGED <<vars, job, gathered, correlated, call, output, hypotheses>>
      /\ correlated \in [Rows -> SUBSET {Commit}]
  BY DEF Invoke, ExecInv, InvTypeOK
<1>1. PICK i \in Rows : i = Mine(t)
  BY <1>0, AtWork
<1>2. PICK answer \in Answers :
             tick' = [tick EXCEPT ![t].pc = "save_call", ![t].answer = <<answer>>]
  BY DEF Invoke
<1> DEFINE row == [tick[t] EXCEPT !.pc = "save_call", !.answer = <<answer>>]
<1>3. /\ tick[t] \in TickRows /\ tick[t].inc = i /\ job[i].phase = 4 /\ PlaceOK(t)
  BY <1>0, <1>1, AtWork
<1>4. <<answer>> \in Seq(Answers) /\ <<answer>> # <<>>
  OBVIOUS
<1>5. /\ row \in TickRows /\ row.inc = i /\ row.pc = "save_call" /\ row.facts = tick[t].facts
      /\ row.answer = <<answer>>
  BY <1>3, <1>4, StatementsAre DEF TickRows
<1>6. tick' = [tick EXCEPT ![t] = row]
  BY <1>2
<1> HIDE DEF row
<1>7. tick'[t] = row
  BY <1>5, <1>6, TickEdit
<1>8. PICK facts : facts = tick[t].facts
  OBVIOUS
<1>9. output[i] = <<>> /\ ShownOK(facts, i)
  BY <1>0, <1>1, <1>3, <1>8 DEF PlaceOK
<1>10. EvidenceStays
  BY <1>0 DEF vars, EvidenceStays
<1>11. ShownOK(facts, i)'
  BY <1>0, <1>9, <1>10, ShownStays
<1>12. PlaceOK(t)'
  BY <1>0, <1>3, <1>4, <1>5, <1>7, <1>8, <1>9, <1>11, StatementsAre DEF PlaceOK, Mine
<1> QED BY <1>0, <1>1, <1>5, <1>6, <1>12, Moves

LEMMA CallAndOutputTypes ==
    ASSUME ExecInv, NEW t \in Ticks, NEW i \in Rows, i = Mine(t), tick[t].answer # <<>>
    PROVE  /\ tick[t].answer[1] \in Answers /\ tick[t].facts \in Seq(Facts)
           /\ Succeeded([answer |-> tick[t].answer[1], shown |-> tick[t].facts]) \in
                 [status : {"absent", "failed", "succeeded"}, answer : Seq(Calls)]
           /\ OutputOf(t) \in Outputs /\ <<OutputOf(t)>> \in Seq(Outputs)
<1>1. tick[t] \in TickRows
  BY ExecTypes
<1>2. tick[t].answer \in Seq(Answers) /\ tick[t].facts \in Seq(Facts)
  BY <1>1 DEF TickRows
<1>3. Len(tick[t].answer) \in Nat \ {0}
  BY <1>2, EmptySeq
<1>4. tick[t].answer[1] \in Answers
  BY <1>2, <1>3, ElementOfSeq
<1>5. [answer |-> tick[t].answer[1], shown |-> tick[t].facts] \in Calls
  BY <1>2, <1>4 DEF Calls
<1>6. <<[answer |-> tick[t].answer[1], shown |-> tick[t].facts]>> \in Seq(Calls)
  BY <1>5
<1>7. Succeeded([answer |-> tick[t].answer[1], shown |-> tick[t].facts]) \in
         [status : {"absent", "failed", "succeeded"}, answer : Seq(Calls)]
  BY <1>6 DEF Succeeded
<1>8. Validated(tick[t].answer[1], Other("empty")) \in Answers
  BY <1>4 DEF Validated, Answers
<1>9. OutputOf(t) \in Outputs
  BY <1>2, <1>8 DEF OutputOf, Outputs
<1> QED BY <1>2, <1>4, <1>7, <1>9

LEMMA SaveCallStep ==
    ASSUME ExecInv, faults \in Nat, NEW t \in Ticks, SaveCall(t)
    PROVE  ExecInv'
<1>0. /\ tick[t].pc = "save_call" /\ Resume(t, "save_output")
      /\ UNCHANGED <<vars, job, gathered, correlated, output, hypotheses>>
  BY DEF SaveCall
<1>1. PICK i \in Rows : i = Mine(t)
  BY <1>0, AtWork
<1>2. /\ tick[t] \in TickRows /\ tick[t].inc = i /\ job[i].phase = 4 /\ PlaceOK(t) /\ i # 0
      /\ ResultsOK(i) /\ job[i].state = "runnable" /\ job[i].attempt <= MaxAttempts + faults
      /\ \A u \in Ticks \ {t} : Mine(u) # i
  BY <1>0, <1>1, AtWork
<1> DEFINE c == Succeeded([answer |-> tick[t].answer[1], shown |-> tick[t].facts])
           row == [tick[t] EXCEPT !.pc = "save_output"]
<1>3. tick[t].answer # <<>> /\ output[i] = <<>>
  BY <1>0, <1>1, <1>2 DEF PlaceOK
<1>4. c \in [status : {"absent", "failed", "succeeded"}, answer : Seq(Calls)]
  BY <1>1, <1>3, CallAndOutputTypes
<1>5. call' = [call EXCEPT ![i] = c]
  <2>1. SavedCall(call[i], c) = c
    BY DEF SavedCall, Succeeded
  <2> QED BY <1>1, <2>1 DEF SaveCall
<1>6. /\ row \in TickRows /\ row.inc = i /\ row.pc = "save_output" /\ row.facts = tick[t].facts
      /\ row.answer = tick[t].answer
  BY <1>2, StatementsAre DEF TickRows
<1>7. tick' = [tick EXCEPT ![t] = row]
  BY <1>0 DEF Resume
<1> HIDE DEF row
<1>8. /\ tick'[t] = row /\ \A u \in Ticks \ {t} : tick'[u] = tick[u]
      /\ tick' \in [Ticks -> TickRows]
  BY <1>6, <1>7, TickEdit
<1>9. /\ UNCHANGED <<job, gathered, correlated, output, hypotheses, evidence, jobs, faults>>
      /\ EvidenceStays
  BY <1>0 DEF vars, EvidenceStays
<1>10. /\ call' \in [Rows -> [status : {"absent", "failed", "succeeded"}, answer : Seq(Calls)]]
       /\ call'[i] = c /\ \A j \in Rows \ {i} : call'[j] = call[j]
  <2>1. call \in [Rows -> [status : {"absent", "failed", "succeeded"}, answer : Seq(Calls)]]
    BY DEF ExecInv, InvTypeOK
  <2> HIDE DEF c
  <2> QED BY <1>4, <1>5, <2>1
<1>11. InvTypeOK'
  BY <1>8, <1>9, <1>10 DEF ExecInv, InvTypeOK, TickRows
<1>12. PICK facts : facts = tick[t].facts
  OBVIOUS
<1>13. ShownOK(facts, i)'
  <2>1. ShownOK(facts, i)
    BY <1>0, <1>1, <1>2, <1>12 DEF PlaceOK
  <2> QED BY <1>9, <2>1, ShownStays
<1>14. PlaceOK(t)'
  BY <1>2, <1>3, <1>6, <1>8, <1>9, <1>10, <1>12, <1>13, StatementsAre DEF PlaceOK, Mine
<1>15. ResultsOK(i)' /\ AuditOK(i)'
  BY <1>2, <1>3, <1>9 DEF ResultsOK, AuditOK
<1>16. Works(t, i)
  BY <1>1, <1>2, <1>6, <1>8, <1>9, <1>10 DEF Works, Untouched
<1>17. LeavesJob(t, i)
  BY <1>2, <1>6, <1>8, <1>9, <1>14, <1>15 DEF LeavesJob
<1> QED BY <1>11, <1>16, <1>17, WorksKeep

LEMMA SaveOutputStep ==
    ASSUME ExecInv, faults \in Nat, NEW t \in Ticks, SaveOutput(t)
    PROVE  ExecInv'
<1>0. /\ tick[t].pc = "save_output" /\ Resume(t, "done")
      /\ UNCHANGED <<vars, job, gathered, correlated, call, hypotheses>>
  BY DEF SaveOutput
<1>1. PICK i \in Rows : i = Mine(t)
  BY <1>0, AtWork
<1>2. /\ tick[t] \in TickRows /\ tick[t].inc = i /\ job[i].phase = 4 /\ PlaceOK(t) /\ i # 0
      /\ ResultsOK(i) /\ job[i].state = "runnable" /\ job[i].attempt <= MaxAttempts + faults
      /\ \A u \in Ticks \ {t} : Mine(u) # i
  BY <1>0, <1>1, AtWork
<1> DEFINE out == OutputOf(t)
           row == [tick[t] EXCEPT !.pc = "done"]
<1>3. /\ tick[t].answer # <<>> /\ output[i] = <<>> /\ hypotheses[i] = {}
      /\ call[i] = Succeeded([answer |-> tick[t].answer[1], shown |-> tick[t].facts])
  BY <1>0, <1>1, <1>2 DEF PlaceOK, ResultsOK
<1>4. out \in Outputs /\ <<out>> \in Seq(Outputs)
  BY <1>1, <1>3, CallAndOutputTypes
<1>5. output' = [output EXCEPT ![i] = <<out>>]
  BY <1>1, <1>3 DEF SaveOutput
<1>6. /\ row \in TickRows /\ row.inc = i /\ row.pc = "done"
  BY <1>2, StatementsAre DEF TickRows
<1>7. tick' = [tick EXCEPT ![t] = row]
  BY <1>0 DEF Resume
<1> HIDE DEF row
<1>8. /\ tick'[t] = row /\ \A u \in Ticks \ {t} : tick'[u] = tick[u]
      /\ tick' \in [Ticks -> TickRows]
  BY <1>6, <1>7, TickEdit
<1>9. /\ UNCHANGED <<job, gathered, correlated, call, hypotheses, evidence, jobs, faults>>
      /\ EvidenceStays
  BY <1>0 DEF vars, EvidenceStays
<1>10. /\ output' \in [Rows -> Seq(Outputs)] /\ output'[i] = <<out>> /\ <<out>>[1] = out
       /\ <<out>> # <<>> /\ \A j \in Rows \ {i} : output'[j] = output[j]
  <2>1. output \in [Rows -> Seq(Outputs)]
    BY DEF ExecInv, InvTypeOK
  <2> HIDE DEF out
  <2> QED BY <1>4, <1>5, <2>1
<1>11. InvTypeOK'
  BY <1>8, <1>9, <1>10 DEF ExecInv, InvTypeOK, TickRows
<1>12. PICK facts : facts = tick[t].facts
  OBVIOUS
<1>13. ShownOK(facts, i)'
  <2>1. ShownOK(facts, i)
    BY <1>0, <1>1, <1>2, <1>12 DEF PlaceOK
  <2> QED BY <1>9, <2>1, ShownStays
<1>14. out.facts = facts /\ out.answer = Validated(tick[t].answer[1], Other("empty"))
  BY <1>12 DEF OutputOf
<1> HIDE DEF out
<1>15. PlaceOK(t)'
  <2>1. tick'[t].pc = "done" /\ tick'[t].inc = i /\ job'[i].phase = 4 /\ output'[i] # <<>>
    BY <1>2, <1>6, <1>8, <1>9, <1>10
  <2> QED BY <2>1 DEF PlaceOK, Mine
<1>16. ResultsOK(i)'
  <2>1. output'[i][1].facts = facts
    BY <1>10, <1>14
  <2> QED BY <1>2, <1>3, <1>9, <1>10, <1>13, <2>1 DEF ResultsOK
<1>17. AuditOK(i)'
  <2>1. /\ call'[i].status = "succeeded" /\ call'[i].answer[1].answer = tick[t].answer[1]
        /\ call'[i].answer[1].shown = facts
    BY <1>3, <1>9, <1>12 DEF Succeeded
  <2>2. out = [answer |-> Validated(tick[t].answer[1], Other("empty")), facts |-> facts]
    BY <1>12 DEF out, OutputOf
  <2> QED BY <1>10, <2>1, <2>2 DEF AuditOK
<1>18. Works(t, i)
  BY <1>1, <1>2, <1>6, <1>8, <1>9, <1>10 DEF Works, Untouched
<1>19. LeavesJob(t, i)
  BY <1>2, <1>6, <1>8, <1>9, <1>15, <1>16, <1>17 DEF LeavesJob
<1> QED BY <1>11, <1>18, <1>19, WorksKeep

LEMMA ReadIncidentStep ==
    ASSUME ExecInv, IncidentsInv, faults \in Nat, NEW t \in Ticks, ReadIncident(t)
    PROVE  ExecInv'
<1>0. /\ tick[t].pc = "summarize"
      /\ UNCHANGED <<vars, gathered, correlated, call, output, hypotheses>>
      /\ correlated \in [Rows -> SUBSET {Commit}]
  BY DEF ReadIncident, ExecInv, InvTypeOK
<1>1. PICK i \in Rows : i = Mine(t)
  BY <1>0, AtWork
<1>2. /\ tick[t] \in TickRows /\ tick[t].inc = i /\ job[i].phase = 5 /\ output[i] # <<>>
  BY <1>0, <1>1, AtWork DEF ResultsOK
<1>3. /\ tick' = [tick EXCEPT ![t].pc = "write_back", ![t].seen = incidents[i].timeline]
      /\ UNCHANGED job
  BY <1>1, <1>2 DEF ReadIncident, HasOutput
<1> DEFINE row == [tick[t] EXCEPT !.pc = "write_back", !.seen = incidents[i].timeline]
<1>4. incidents[i].timeline \in SUBSET Entries
  <2>1. i \in DOMAIN incidents
    BY <1>2, <1>1, ExecTypes DEF TickRows, IncidentsInv, TypeOK
  <2> QED BY <2>1, TableTypes DEF IncidentsInv, Incident
<1>5. /\ row \in TickRows /\ row.inc = i /\ row.pc = "write_back"
  BY <1>2, <1>4, StatementsAre DEF TickRows
<1>6. tick' = [tick EXCEPT ![t] = row]
  BY <1>3
<1> HIDE DEF row
<1>7. tick'[t] = row
  BY <1>5, <1>6, TickEdit
<1>8. PlaceOK(t)'
  BY <1>0, <1>2, <1>3, <1>5, <1>7, StatementsAre DEF PlaceOK, Mine
<1> QED BY <1>0, <1>1, <1>3, <1>5, <1>6, <1>8, Moves

LEMMA SelectType ==
    ASSUME NEW out \in Outputs
    PROVE  Select(out.answer, out.facts) \in
              [cites : SUBSET Facts, confidence : {"high", "likely", "low"}, telemetry : BOOLEAN]
<1>1. out.answer \in Answers /\ out.facts \in Seq(Facts)
  BY DEF Outputs
<1>2. \A n \in DOMAIN out.facts : out.facts[n] \in Facts
  BY <1>1, LenProperties, ElementOfSeq
<1>3. Cited(out.answer, out.facts) \subseteq Facts
  BY <1>2 DEF Cited
<1>4. out.answer.confidence \in {"high", "low"}
  BY <1>1 DEF Answers, Other
<1>5. TfAvailable(out.facts) \in BOOLEAN
  BY DEF TfAvailable
<1> QED BY <1>3, <1>4, <1>5 DEF Select

LEMMA WriteBackStep ==
    ASSUME ExecInv, faults \in Nat, NEW t \in Ticks, WriteHypotheses(t)
    PROVE  ExecInv'
<1>0. /\ tick[t].pc = "write_back" /\ Resume(t, "done")
      /\ UNCHANGED <<webhookVars, faults, job, gathered, correlated, call, output>>
  BY DEF WriteHypotheses
<1>1. PICK i \in Rows : i = Mine(t)
  BY <1>0, AtWork
<1>2. /\ tick[t] \in TickRows /\ tick[t].inc = i /\ job[i].phase = 5 /\ i # 0
      /\ ResultsOK(i) /\ AuditOK(i) /\ job[i].state = "runnable"
      /\ job[i].attempt <= MaxAttempts + faults /\ \A u \in Ticks \ {t} : Mine(u) # i
  BY <1>0, <1>1, AtWork
<1> DEFINE out == output[i][1]
           hyp == Select(out.answer, out.facts)
           row == [tick[t] EXCEPT !.pc = "done"]
<1>3. output[i] # <<>> /\ ShownOK(out.facts, i)
  BY <1>2 DEF ResultsOK
<1>4. out \in Outputs
  <2>1. output[i] \in Seq(Outputs)
    BY DEF ExecInv, InvTypeOK
  <2>2. Len(output[i]) \in Nat \ {0}
    BY <1>3, <2>1, EmptySeq
  <2> QED BY <2>1, <2>2, ElementOfSeq
<1>5. hypotheses' = [hypotheses EXCEPT ![i] = {hyp}]
  BY <1>1 DEF WriteHypotheses, LoadOutput
<1>6. hyp \in [cites : SUBSET Facts, confidence : {"high", "likely", "low"}, telemetry : BOOLEAN]
  BY <1>4, SelectType
<1>7. /\ row \in TickRows /\ row.inc = i /\ row.pc = "done"
  BY <1>2, StatementsAre DEF TickRows
<1>8. tick' = [tick EXCEPT ![t] = row]
  BY <1>0 DEF Resume
<1> HIDE DEF row
<1>9. /\ tick'[t] = row /\ \A u \in Ticks \ {t} : tick'[u] = tick[u]
      /\ tick' \in [Ticks -> TickRows]
  BY <1>7, <1>8, TickEdit
<1>10. /\ UNCHANGED <<job, gathered, correlated, call, output, evidence, jobs, faults>>
       /\ EvidenceStays
  BY <1>0 DEF webhookVars, EvidenceStays
<1>11. /\ hypotheses' \in [Rows -> SUBSET [cites : SUBSET Facts, confidence : {"high", "likely", "low"},
                                           telemetry : BOOLEAN]]
       /\ hypotheses'[i] = {hyp} /\ \A j \in Rows \ {i} : hypotheses'[j] = hypotheses[j]
  <2>1. hypotheses \in [Rows -> SUBSET [cites : SUBSET Facts,
                                        confidence : {"high", "likely", "low"}, telemetry : BOOLEAN]]
    BY DEF ExecInv, InvTypeOK
  <2> HIDE DEF hyp
  <2> QED BY <1>5, <1>6, <2>1
<1>12. InvTypeOK'
  BY <1>9, <1>10, <1>11 DEF ExecInv, InvTypeOK, TickRows
<1>13. PlaceOK(t)'
  <2>1. tick'[t].pc = "done" /\ tick'[t].inc = i /\ job'[i].phase = 5 /\ hypotheses'[i] # {}
    BY <1>2, <1>7, <1>9, <1>10, <1>11
  <2> QED BY <2>1 DEF PlaceOK, Mine
<1>14. ResultsOK(i)'
  <2>1. PICK facts : facts = out.facts
    OBVIOUS
  <2>2. ShownOK(facts, i)'
    BY <1>3, <1>10, <2>1, ShownStays
  <2>3. output'[i] # <<>> /\ output'[i][1] = out /\ job'[i].phase = 5 /\ hypotheses'[i] = {hyp}
    BY <1>2, <1>3, <1>10, <1>11
  <2> QED BY <2>1, <2>2, <2>3 DEF ResultsOK
<1>15. AuditOK(i)'
  BY <1>2, <1>10 DEF AuditOK
<1>16. Works(t, i)
  BY <1>1, <1>2, <1>7, <1>9, <1>10, <1>11 DEF Works, Untouched
<1>17. LeavesJob(t, i)
  BY <1>2, <1>7, <1>9, <1>10, <1>13, <1>14, <1>15 DEF LeavesJob
<1> QED BY <1>12, <1>16, <1>17, WorksKeep

-----------------------------------------------------------------------------
(* Claims and ends.                                                        *)

LEMMA IdleRow ==
    /\ IdleTick \in TickRows /\ IdleTick.pc = "idle" /\ IdleTick.inc = 0
    /\ \A i \in jobs, n \in 1 .. 5 :
          /\ Enter(i, n) \in TickRows /\ Enter(i, n).inc = i /\ Enter(i, n).pc = Phases[n]
          /\ Enter(i, n).pc # "idle"
<1>1. <<>> \in Seq(Facts) /\ <<>> \in Seq(Answers)
  BY EmptySeq
<1>2. IdleTick \in TickRows /\ IdleTick.pc = "idle" /\ IdleTick.inc = 0
  BY <1>1, StatementsAre DEF IdleTick, TickRows
<1>3. \A n \in {1, 2, 3, 4, 5} :
         Phases[n] \in {"triage", "gather_signals", "correlate", "hypotheses", "summarize"}
  BY DEF Phases
<1>4. \A n \in 1 .. 5 : Phases[n] \in TickPcs /\ Phases[n] # "idle"
  <2>1. 1 .. 5 = {1, 2, 3, 4, 5}
    OBVIOUS
  <2> QED BY <1>3, <2>1, StatementsAre
<1>5. ASSUME NEW i \in jobs, NEW n \in 1 .. 5
      PROVE  /\ Enter(i, n) \in TickRows /\ Enter(i, n).inc = i /\ Enter(i, n).pc = Phases[n]
             /\ Enter(i, n).pc # "idle"
  <2>1. Phases[n] \in TickPcs /\ Phases[n] # "idle"
    BY <1>4
  <2> QED BY <1>1, <2>1 DEF Enter, IdleTick, TickRows
<1> QED BY <1>2, <1>5

\* A phase that has just been entered promises nothing yet.
LEMMA EnteredOK ==
    ASSUME NEW t \in Ticks, NEW i \in Rows, NEW n \in 1 .. 5, tick'[t].pc = Phases[n],
           tick'[t].inc = i, job'[i].phase = n
    PROVE  PlaceOK(t)'
<1>1. n \in {1, 2, 3, 4, 5}
  OBVIOUS
<1>2. Phases[n] \in {"triage", "gather_signals", "correlate", "hypotheses", "summarize"}
  BY <1>1 DEF Phases
<1>3. Phases[n] \in Statements[n]
  BY StatementsAre
<1> QED BY <1>2, <1>3 DEF PlaceOK, Mine

LEMMA ClaimStep ==
    ASSUME ExecInv, faults \in 0 .. MaxFaults, NEW t \in Ticks, NEW i \in Rows, Claim(t, i)
    PROVE  ExecInv'
<1>0. /\ tick[t].pc = "idle" /\ i \in jobs /\ job[i].state = "runnable"
      /\ \A u \in Ticks : Mine(u) # i
      /\ job' = [job EXCEPT ![i].attempt = @ + 1]
      /\ tick' = [tick EXCEPT ![t] = Enter(i, job[i].phase)]
      /\ UNCHANGED <<vars, gathered, correlated, call, output, hypotheses>>
  BY DEF Claim
<1> DEFINE n == job[i].phase
           row == Enter(i, n)
<1>1. /\ job[i] \in JobRows /\ n \in 1 .. 5 /\ i # 0 /\ MaxAttempts \in Nat /\ MaxFaults \in Nat
      /\ Mine(t) = 0
  BY <1>0, ExecTypes DEF JobRows, ExecInv, OneTickPerJob
<1>2. job[i].attempt < MaxAttempts + faults /\ job[i].attempt \in Nat
  BY <1>0, <1>1 DEF ExecInv, AttemptsOK, JobRows
<1>3. row \in TickRows /\ row.inc = i /\ row.pc = Phases[n] /\ row.pc # "idle"
  BY <1>0, <1>1, IdleRow
<1>4. /\ tick'[t] = row /\ \A u \in Ticks \ {t} : tick'[u] = tick[u]
      /\ tick' \in [Ticks -> TickRows]
  BY <1>0, <1>3, TickEdit
<1> HIDE DEF row
<1>5. /\ UNCHANGED <<gathered, correlated, call, output, hypotheses, evidence, jobs, faults>>
      /\ EvidenceStays
  BY <1>0 DEF vars, EvidenceStays
<1>6. /\ job' \in [Rows -> JobRows] /\ job'[i].state = "runnable" /\ job'[i].phase = n
      /\ job'[i].attempt = job[i].attempt + 1
      /\ \A j \in Rows \ {i} : job'[j] = job[j]
  <2>1. job \in [Rows -> JobRows]
    BY DEF ExecInv, InvTypeOK, JobRows
  <2>2. job[i].attempt + 1 \in 0 .. MaxAttempts + MaxFaults
    BY <1>1, <1>2
  <2>3. [job[i] EXCEPT !.attempt = @ + 1] \in JobRows
    BY <1>1, <2>2 DEF JobRows
  <2> QED BY <1>0, <1>1, <2>1, <2>3 DEF JobRows
<1>7. InvTypeOK'
  BY <1>4, <1>5, <1>6 DEF ExecInv, InvTypeOK, TickRows, JobRows
<1>8. PlaceOK(t)'
  BY <1>1, <1>3, <1>4, <1>6, EnteredOK
<1>9. ResultsOK(i)' /\ AuditOK(i)'
  <2>1. ResultsOK(i) /\ AuditOK(i)
    BY DEF ExecInv
  <2>2. AuditOK(i)'
    BY <1>5, <2>1 DEF AuditOK
  <2>3. PICK facts : facts = output[i][1].facts
    OBVIOUS
  <2>4. output[i] # <<>> => ShownOK(facts, i)'
    BY <1>5, <2>1, <2>3, ShownStays DEF ResultsOK
  <2> QED BY <1>0, <1>5, <1>6, <2>1, <2>2, <2>3, <2>4 DEF ResultsOK
<1>10. Works(t, i)
  BY <1>0, <1>1, <1>3, <1>4, <1>5, <1>6 DEF Works, Untouched
<1>11. LeavesJob(t, i)
  <2>1. job'[i].attempt <= MaxAttempts + faults'
    BY <1>1, <1>2, <1>5, <1>6
  <2> QED BY <1>1, <1>3, <1>4, <1>6, <1>8, <1>9, <2>1 DEF LeavesJob
<1> QED BY <1>7, <1>10, <1>11, WorksKeep

LEMMA PhaseDoneStep ==
    ASSUME ExecInv, faults \in Nat, NEW t \in Ticks, PhaseDone(t)
    PROVE  ExecInv'
<1>0. /\ tick[t].pc = "done"
      /\ UNCHANGED <<vars, gathered, correlated, call, output, hypotheses>>
  BY DEF PhaseDone
<1>1. PICK i \in Rows : i = Mine(t)
  BY <1>0, AtWork
<1> DEFINE n == job[i].phase
<1>2. /\ tick[t] \in TickRows /\ tick[t].inc = i /\ i # 0 /\ PlaceOK(t)
      /\ ResultsOK(i) /\ AuditOK(i) /\ job[i] \in JobRows /\ job[i].state = "runnable"
      /\ job[i].attempt <= MaxAttempts + faults /\ \A u \in Ticks \ {t} : Mine(u) # i
  BY <1>0, <1>1, AtWork
<1>3. n \in 1 .. 5 /\ Len(Phases) = 5 /\ MaxAttempts \in Nat
  BY <1>2, ExecTypes DEF JobRows
<1>4. /\ UNCHANGED <<gathered, correlated, call, output, hypotheses, evidence, jobs, faults>>
      /\ EvidenceStays /\ AuditOK(i)'
  BY <1>0, <1>2 DEF vars, EvidenceStays, AuditOK
<1>5. /\ n = 4 => output[i] # <<>>
      /\ n = 5 => hypotheses[i] # {}
  BY <1>0, <1>1, <1>2 DEF PlaceOK
<1>6. PICK facts : facts = output[i][1].facts
  OBVIOUS
<1>7. output[i] # <<>> => ShownOK(facts, i)'
  BY <1>2, <1>4, <1>6, ShownStays DEF ResultsOK
<1>8. job \in [Rows -> JobRows]
  BY DEF ExecInv, InvTypeOK, JobRows
<1>9. CASE n = 5
  <2>1. /\ job' = [job EXCEPT ![i].state = "succeeded"]
        /\ tick' = [tick EXCEPT ![t] = IdleTick]
    BY <1>1, <1>3, <1>9 DEF PhaseDone
  <2>2. /\ job' \in [Rows -> JobRows] /\ job'[i].state = "succeeded" /\ job'[i].phase = n
        /\ job'[i].attempt = job[i].attempt /\ \A j \in Rows \ {i} : job'[j] = job[j]
    BY <1>2, <1>8, <2>1 DEF JobRows
  <2>3. /\ tick'[t] = IdleTick /\ \A u \in Ticks \ {t} : tick'[u] = tick[u]
        /\ tick' \in [Ticks -> TickRows] /\ tick'[t].pc = "idle" /\ tick'[t].inc = 0
    BY <2>1, IdleRow, TickEdit
  <2>4. InvTypeOK'
    BY <1>4, <2>2, <2>3 DEF ExecInv, InvTypeOK, TickRows, JobRows
  <2>5. ResultsOK(i)'
    BY <1>2, <1>4, <1>5, <1>6, <1>7, <1>9, <2>2 DEF ResultsOK
  <2>6. Works(t, i)
    BY <1>1, <1>2, <1>4, <2>2, <2>3 DEF Works, Untouched
  <2>7. LeavesJob(t, i)
    BY <1>2, <1>4, <2>2, <2>3, <2>5 DEF LeavesJob
  <2> QED BY <2>4, <2>6, <2>7, WorksKeep
<1>10. CASE n # 5
  <2> DEFINE row == Enter(i, n + 1)
  <2>1. /\ job' = [job EXCEPT ![i].phase = @ + 1]
        /\ tick' = [tick EXCEPT ![t] = row]
    BY <1>1, <1>3, <1>10 DEF PhaseDone
  <2>2. n + 1 \in 1 .. 5 /\ DOMAIN Phases = 1 .. 5
    BY <1>3, <1>10, ExecTypes
  <2>3. /\ job' \in [Rows -> JobRows] /\ job'[i].state = "runnable" /\ job'[i].phase = n + 1
        /\ job'[i].attempt = job[i].attempt /\ \A j \in Rows \ {i} : job'[j] = job[j]
    BY <1>2, <1>8, <2>1, <2>2 DEF JobRows
  <2>4. i \in jobs
    BY <1>2 DEF TickRows
  <2>5. row \in TickRows /\ row.inc = i /\ row.pc = Phases[n + 1] /\ row.pc # "idle"
    BY <2>2, <2>4, IdleRow
  <2> HIDE DEF row
  <2>6. /\ tick'[t] = row /\ \A u \in Ticks \ {t} : tick'[u] = tick[u]
        /\ tick' \in [Ticks -> TickRows]
    BY <2>1, <2>5, TickEdit
  <2>7. InvTypeOK'
    BY <1>4, <2>3, <2>6 DEF ExecInv, InvTypeOK, TickRows, JobRows
  <2>8. PlaceOK(t)'
    BY <2>2, <2>3, <2>5, <2>6, EnteredOK
  <2>9. ResultsOK(i)'
    <3>1. n + 1 = 5 => output[i] # <<>>
      BY <1>3, <1>5
    <3>2. output[i] # <<>> => n + 1 >= 4
      BY <1>2, <1>3 DEF ResultsOK
    <3> QED BY <1>2, <1>4, <1>6, <1>7, <2>3, <3>1, <3>2 DEF ResultsOK
  <2>10. Works(t, i)
    BY <1>1, <1>2, <1>4, <2>3, <2>5, <2>6 DEF Works, Untouched
  <2>11. LeavesJob(t, i)
    BY <1>2, <1>4, <2>3, <2>5, <2>6, <2>8, <2>9 DEF LeavesJob
  <2> QED BY <2>7, <2>10, <2>11, WorksKeep
<1> QED BY <1>9, <1>10

\* A phase that throws, is refused or is killed leaves its job as it was, or failed; a failed
\* call may be recorded while there is no output.
LEMMA Ends ==
    ASSUME ExecInv, faults \in Nat, faults' = faults + 1, NEW t \in Ticks, tick[t].pc # "idle",
           NEW i \in Rows, Mine(t) = i, tick' = [tick EXCEPT ![t] = IdleTick],
           NEW s \in {"runnable", "failed"},
           UNCHANGED job \/ job' = [job EXCEPT ![i].state = s],
           UNCHANGED call \/ (output[i] = <<>> /\ \A j \in Rows \ {i} : call'[j] = call[j]),
           call' \in [Rows -> [status : {"absent", "failed", "succeeded"}, answer : Seq(Calls)]],
           UNCHANGED <<webhookVars, gathered, correlated, output, hypotheses>>
    PROVE  ExecInv'
<1>1. /\ i # 0 /\ tick[t].inc = i /\ ResultsOK(i) /\ AuditOK(i)
      /\ job[i] \in JobRows /\ job[i].state = "runnable"
      /\ job[i].attempt <= MaxAttempts + faults /\ \A u \in Ticks \ {t} : Mine(u) # i
  BY AtWork
<1>2. /\ UNCHANGED <<gathered, correlated, output, hypotheses, evidence, jobs>> /\ EvidenceStays
  BY DEF webhookVars, EvidenceStays
<1>3. /\ tick'[t] = IdleTick /\ \A u \in Ticks \ {t} : tick'[u] = tick[u]
      /\ tick' \in [Ticks -> TickRows] /\ tick'[t].pc = "idle" /\ tick'[t].inc = 0
  BY IdleRow, TickEdit
<1>4. /\ job' \in [Rows -> JobRows] /\ job'[i].state # "succeeded"
      /\ job'[i].phase = job[i].phase /\ job'[i].attempt = job[i].attempt
      /\ \A j \in Rows \ {i} : job'[j] = job[j]
  <2>1. job \in [Rows -> JobRows]
    BY DEF ExecInv, InvTypeOK, JobRows
  <2>2. CASE UNCHANGED job
    BY <1>1, <2>1, <2>2
  <2>3. CASE job' = [job EXCEPT ![i].state = s]
    <3>1. [job[i] EXCEPT !.state = s] \in JobRows
      BY <1>1 DEF JobRows
    <3>2. job' = [job EXCEPT ![i] = [job[i] EXCEPT !.state = s]]
      BY <2>3
    <3> QED BY <1>1, <2>1, <3>1, <3>2 DEF JobRows
  <2> QED BY <2>2, <2>3
<1>5. InvTypeOK'
  BY <1>2, <1>3, <1>4 DEF ExecInv, InvTypeOK, TickRows, JobRows
<1>6. ResultsOK(i)'
  <2>1. PICK facts : facts = output[i][1].facts
    OBVIOUS
  <2>2. output[i] # <<>> => ShownOK(facts, i)'
    BY <1>1, <1>2, <2>1, ShownStays DEF ResultsOK
  <2> QED BY <1>1, <1>2, <1>4, <2>1, <2>2 DEF ResultsOK
<1>7. AuditOK(i)'
  BY <1>1, <1>2 DEF AuditOK
<1>8. \A j \in Rows \ {i} : Untouched(j)
  BY <1>2, <1>4 DEF Untouched
<1>9. faults' \in Nat /\ faults <= faults'
  OBVIOUS
<1>10. Works(t, i)
  BY <1>1, <1>2, <1>3, <1>8, <1>9 DEF Works
<1>11. LeavesJob(t, i)
  <2>1. job[i].attempt \in Nat /\ MaxAttempts \in Nat
    BY <1>1, ExecTypes DEF JobRows
  <2>2. job'[i].attempt < MaxAttempts + faults'
    BY <1>1, <1>4, <2>1
  <2> QED BY <1>3, <1>4, <1>6, <1>7, <2>1, <2>2 DEF LeavesJob
<1> QED BY <1>5, <1>10, <1>11, WorksKeep

LEMMA PhaseFailsStep ==
    ASSUME ExecInv, faults \in Nat, NEW t \in Ticks, PhaseFails(t)
    PROVE  ExecInv'
<1>0. /\ tick[t].pc # "idle" /\ faults' = faults + 1
      /\ UNCHANGED <<webhookVars, incidents, gathered, correlated, call, output, hypotheses>>
  BY DEF PhaseFails
<1>1. PICK i \in Rows : i = Mine(t)
  BY <1>0, AtWork
<1>2. call' \in [Rows -> [status : {"absent", "failed", "succeeded"}, answer : Seq(Calls)]]
  BY <1>0 DEF ExecInv, InvTypeOK
<1>3. /\ tick' = [tick EXCEPT ![t] = IdleTick]
      /\ \E s \in {"runnable", "failed"} : UNCHANGED job \/ job' = [job EXCEPT ![i].state = s]
  BY <1>1 DEF PhaseFails, Throw
<1> QED BY <1>0, <1>1, <1>2, <1>3, Ends

LEMMA InvokeFailsStep ==
    ASSUME ExecInv, faults \in Nat, NEW t \in Ticks, InvokeFails(t)
    PROVE  ExecInv'
<1>0. /\ tick[t].pc = "invoke" /\ faults' = faults + 1
      /\ UNCHANGED <<webhookVars, incidents, gathered, correlated, output, hypotheses>>
  BY DEF InvokeFails
<1>1. PICK i \in Rows : i = Mine(t)
  BY <1>0, AtWork
<1>2. output[i] = <<>>
  BY <1>0, <1>1, AtWork DEF PlaceOK
<1> DEFINE CallRows == [status : {"absent", "failed", "succeeded"}, answer : Seq(Calls)]
<1>3. call \in [Rows -> CallRows]
  BY DEF ExecInv, InvTypeOK
<1>4. SavedCall(call[i], Failed) \in CallRows
  BY <1>3, EmptySeq DEF SavedCall, Failed
<1>5. call' = call \/ call' = [call EXCEPT ![i] = SavedCall(call[i], Failed)]
  BY <1>1 DEF InvokeFails
<1>6. call' \in [Rows -> CallRows] /\ \A j \in Rows \ {i} : call'[j] = call[j]
  <2> HIDE DEF CallRows
  <2> QED BY <1>3, <1>4, <1>5
<1>7. /\ tick' = [tick EXCEPT ![t] = IdleTick]
      /\ \E s \in {"runnable", "failed"} : UNCHANGED job \/ job' = [job EXCEPT ![i].state = s]
  BY <1>1 DEF InvokeFails, Throw, Refuse
<1> QED BY <1>0, <1>1, <1>2, <1>6, <1>7, Ends

\* Whatever an executor does, the investigations stay as they should.
LEMMA ExecuteKeepsExec ==
    ASSUME ExecInv, IncidentsInv, NEW t \in Ticks, Execute(t)
    PROVE  ExecInv'
<1>1. faults \in 0 .. MaxFaults /\ faults \in Nat
  BY DEF IncidentsInv, TypeOK
<1> QED BY <1>1, ClaimStep, PhaseDoneStep, TriageStep, CorrelateStep, GatherSteps, AskStep,
     InvokeStep, InvokeFailsStep, SaveCallStep, SaveOutputStep, ReadIncidentStep, WriteBackStep,
     PhaseFailsStep DEF Execute

\* ... and the webhook's tables get a new timeline at most.
LEMMA ExecuteIsAside ==
    ASSUME ExecInv, IncidentsInv, NEW t \in Ticks, Execute(t)
    PROVE  Aside
<1>0. faults \in 0 .. MaxFaults /\ MaxFaults \in Nat /\ jobs \subseteq DOMAIN incidents
  BY ExecTypes DEF IncidentsInv, TypeOK
<1>1. CASE WriteHypotheses(t)
  <2>1. PICK i \in Rows : i = Mine(t)
    BY <1>1, AtWork DEF WriteHypotheses
  <2>2. i \in DOMAIN incidents /\ tick[t].seen \in SUBSET Entries
    BY <1>0, <1>1, <2>1, AtWork DEF WriteHypotheses, TickRows
  <2>3. AppendFinding(tick[t].seen) \in SUBSET Entries
    BY <2>2 DEF AppendFinding, Entries
  <2>4. /\ incidents' = [incidents EXCEPT ![i].timeline = AppendFinding(tick[t].seen)]
        /\ UNCHANGED <<webhookVars, faults>>
    BY <1>1, <2>1 DEF WriteHypotheses
  <2> QED BY <1>0, <2>2, <2>3, <2>4 DEF Aside
<1>2. CASE InvokeFails(t) \/ PhaseFails(t)
  <2>1. faults < MaxFaults /\ faults' = faults + 1 /\ UNCHANGED <<webhookVars, incidents>>
    BY <1>2 DEF InvokeFails, PhaseFails
  <2> QED BY <1>0, <2>1 DEF Aside
<1>3. CASE UNCHANGED vars
  <2>1. UNCHANGED <<webhookVars, incidents, faults>>
    BY <1>3 DEF vars, webhookVars
  <2> QED BY <1>0, <2>1 DEF Aside
<1>4. UNCHANGED vars \/ WriteHypotheses(t) \/ InvokeFails(t) \/ PhaseFails(t)
  BY DEF Execute, Claim, PhaseDone, Triage, Correlate, GatherCommits, GatherSignals,
     GatherTelemetry, Ask, Invoke, SaveCall, SaveOutput, ReadIncident
<1> QED BY <1>1, <1>2, <1>3, <1>4

-----------------------------------------------------------------------------
(* The investigations.                                                     *)

LEMMA InvestigationInit == InvInit => InvestigationInv
<1> SUFFICES ASSUME InvInit PROVE IncidentsInv /\ ExecInv
  BY InvestigationInvParts
<1>1. /\ Init /\ job = [i \in Rows |-> [state |-> "runnable", phase |-> 1, attempt |-> 0]]
      /\ gathered = [i \in Rows |-> {}] /\ correlated = [i \in Rows |-> {}]
      /\ call = [i \in Rows |-> NoCall] /\ output = [i \in Rows |-> <<>>]
      /\ hypotheses = [i \in Rows |-> {}] /\ tick = [t \in Ticks |-> IdleTick]
      /\ jobs = {} /\ faults = 0
  BY DEF InvInit, Init
<1>2. IncidentsInv
  BY <1>1, IncidentsInit
<1>3. /\ MaxAttempts \in Nat \ {0} /\ MaxFaults \in Nat /\ DOMAIN Phases = 1 .. 5
  BY DatadogAssumption, InvestigationAssumption
     DEF DatadogAssumption, InvestigationAssumption, Phases
<1>4. /\ \A t \in Ticks : tick[t].pc = "idle" /\ Mine(t) = 0
      /\ tick \in [Ticks -> TickRows]
  BY <1>1, IdleRow DEF Mine
<1>5. job \in [Rows -> JobRows]
  BY <1>1, <1>3 DEF JobRows
<1>6. InvTypeOK
  <2>1. <<>> \in Seq(Calls) /\ <<>> \in Seq(Outputs)
    BY EmptySeq
  <2>2. call \in [Rows -> [status : {"absent", "failed", "succeeded"}, answer : Seq(Calls)]]
    BY <1>1, <2>1 DEF NoCall
  <2>3. output \in [Rows -> Seq(Outputs)]
    BY <1>1, <2>1
  <2> QED BY <1>1, <1>4, <1>5, <2>2, <2>3 DEF InvTypeOK, TickRows, JobRows
<1>7. OneTickPerJob
  BY <1>4 DEF OneTickPerJob
<1>8. AttemptsOK
  BY <1>1, <1>3 DEF AttemptsOK
<1>9. \A i \in Rows : ResultsOK(i) /\ AuditOK(i)
  BY <1>1 DEF ResultsOK, AuditOK
<1> QED BY <1>1, <1>2, <1>4, <1>6, <1>7, <1>8, <1>9 DEF ExecInv

\* Each step is the webhook's, which leaves the investigations alone, or an executor's, which
\* leaves the webhook's tables a timeline at most.
LEMMA InvestigationStep ==
    InvestigationInv /\ [InvNext]_allVars => InvestigationInv'
<1> SUFFICES ASSUME InvestigationInv, [InvNext]_allVars PROVE IncidentsInv' /\ ExecInv'
  <2>1. InvestigationInv' <=> IncidentsInv' /\ ExecInv'
    BY InvestigationInvParts, PTL
  <2> QED BY <2>1
<1>1. IncidentsInv /\ ExecInv
  BY InvestigationInvParts
<1>2. CASE [Next]_vars /\ UNCHANGED invVars
  <2>1. IncidentsInv'
    BY <1>1, <1>2, IncidentsStep
  <2>2. Grown
    BY <1>1, <1>2, <2>1, WebhookGrows
  <2>3. jobs' \subseteq Rows
    <3>1. (jobs \subseteq Rows)'
      BY <2>1, JobsAreRows, PTL
    <3> QED BY <3>1 DEF Rows
  <2> QED BY <1>1, <1>2, <2>1, <2>2, <2>3, WebhookKeepsExec
<1>3. ASSUME NEW t \in Ticks, Execute(t) PROVE IncidentsInv' /\ ExecInv'
  BY <1>1, <1>3, ExecuteKeepsExec, ExecuteIsAside, AsideKeepsIncidents
<1>4. CASE UNCHANGED allVars
  BY <1>2, <1>4 DEF allVars
<1> QED BY <1>2, <1>3, <1>4 DEF InvNext

LEMMA InvestigationInvariant == InvSpec => []InvestigationInv
BY InvestigationInit, InvestigationStep, PTL DEF InvSpec

\* The row that the console shows for a model call is the call whose output was kept, with
\* the facts it was shown.
THEOREM AuditIsOfTheOutput == InvSpec => []AuditMatchesOutput
<1>1. InvestigationInv => AuditMatchesOutput
  BY DEF InvestigationInv
<1> QED BY <1>1, InvestigationInvariant, PTL

\* What an answer cites, of the facts it was given.
LEMMA OutputCites ==
    ASSUME ExecInv, NEW i \in Rows, NEW hyp \in hypotheses[i]
    PROVE  /\ output[i] # <<>> /\ AuditOK(i) /\ ShownOK(output[i][1].facts, i)
           /\ hyp = Select(output[i][1].answer, output[i][1].facts)
           /\ hyp.cites = Cited(output[i][1].answer, output[i][1].facts)
           /\ hyp.telemetry = TfAvailable(output[i][1].facts)
<1>1. /\ output[i] # <<>> /\ hyp = Select(output[i][1].answer, output[i][1].facts)
      /\ ShownOK(output[i][1].facts, i) /\ AuditOK(i)
  BY DEF ExecInv, ResultsOK
<1> QED BY <1>1 DEF Select

\* Every hypothesis cites verified rows, those that the recorded answer named.
THEOREM CitationsStayTrue == InvSpec => []CitationsAreTrue
<1>1. InvestigationInv => CitationsAreTrue
  <2> SUFFICES ASSUME ExecInv, NEW i \in Rows, NEW hyp \in hypotheses[i]
               PROVE  /\ hyp.cites \subseteq Verified(i)
                      /\ LET shown == call[i].answer[1].shown
                         IN hyp.cites \subseteq
                              {shown[n] : n \in call[i].answer[1].answer.keys \cap DOMAIN shown}
    BY InvestigationInvParts DEF CitationsAreTrue, Verified
  <2>1. PICK out : out = output[i][1]
    OBVIOUS
  <2>2. PICK asked : asked = call[i].answer[1]
    OBVIOUS
  <2>3. /\ hyp.cites = Cited(out.answer, out.facts) /\ ShownOK(out.facts, i)
        /\ out = [answer |-> Validated(asked.answer, Other("empty")), facts |-> asked.shown]
    BY <2>1, <2>2, OutputCites DEF AuditOK
  <2>4. hyp.cites \subseteq Verified(i)
    BY <2>3 DEF Cited, ShownOK
  <2>5. out.facts = asked.shown /\ out.answer.keys \subseteq asked.answer.keys
    BY <2>3 DEF Validated, Other
  <2>6. hyp.cites \subseteq {asked.shown[n] : n \in asked.answer.keys \cap DOMAIN asked.shown}
    BY <2>3, <2>5 DEF Cited
  <2> QED BY <2>2, <2>4, <2>6
<1> QED BY <1>1, InvestigationInvariant, PTL

\* A full prompt without telemetry leaves out a row that could be cited.
LEMMA FullPrompt ==
    ASSUME ExecInv, NEW i \in Rows, NEW facts \in Seq(Facts), ShownOK(facts, i),
           Telemetry \in gathered[i], Cardinality(Verified(i)) <= MaxFacts
    PROVE  TfAvailable(facts)
<1> SUFFICES ASSUME ~ TfAvailable(facts) PROVE FALSE
  OBVIOUS
<1> DEFINE V == Verified(i)
           rest == V \ {Telemetry}
<1>1. IsFiniteSet(V) /\ Cardinality(V) \in Nat /\ MaxFacts \in Nat \ {0}
  BY VerifiedFinite, InvestigationAssumption DEF ExecInv, InvestigationAssumption
<1>2. Telemetry \in V
  BY NamesOfRows DEF Verified
<1>3. IsFiniteSet(rest) /\ Cardinality(rest) = Cardinality(V) - 1
  BY <1>1, <1>2, FS_RemoveElement
<1>4. Len(facts) = MaxFacts /\ DOMAIN facts = 1 .. MaxFacts
  BY LenProperties DEF ShownOK
<1>5. \A n \in 1 .. MaxFacts : facts[n] \in rest
  BY <1>4 DEF ShownOK, TfAvailable
<1>6. facts \in [1 .. MaxFacts -> rest]
  <2>1. facts = [n \in DOMAIN facts |-> facts[n]]
    OBVIOUS
  <2> QED BY <1>4, <1>5, <2>1
<1>7. facts \in Injection(1 .. MaxFacts, rest)
  BY <1>4, <1>6 DEF ShownOK, Injection, IsInjective
<1>8. Cardinality(1 .. MaxFacts) = MaxFacts
  <2>1. 1 \in Int /\ MaxFacts \in Int /\ ~ 1 > MaxFacts /\ MaxFacts - 1 + 1 = MaxFacts
    BY <1>1
  <2> HIDE DEF rest, V
  <2>2. Cardinality(1 .. MaxFacts) = IF 1 > MaxFacts THEN 0 ELSE MaxFacts - 1 + 1
    BY <2>1, FS_Interval
  <2> QED BY <2>1, <2>2
<1>9. Cardinality(1 .. MaxFacts) <= Cardinality(rest)
  <2> HIDE DEF rest
  <2> QED BY <1>3, <1>7, FS_Injection
<1> QED BY <1>1, <1>3, <1>8, <1>9

\* A completed investigation has its hypothesis, is sure only where it cites a row, and finds
\* the telemetry it gathered.
THEOREM CompletedExplains == InvSpec => []CompletedIsExplained
<1>1. InvestigationInv => CompletedIsExplained
  <2> SUFFICES ASSUME ExecInv, NEW i \in Rows
               PROVE  /\ job[i].state = "succeeded" => hypotheses[i] # {}
                      /\ \A hyp \in hypotheses[i] :
                            /\ hyp.confidence = "high" => hyp.cites # {}
                            /\ Cardinality(Verified(i)) <= MaxFacts /\ Telemetry \in gathered[i] =>
                                  hyp.telemetry
    BY InvestigationInvParts DEF CompletedIsExplained
  <2>1. job[i].state = "succeeded" => hypotheses[i] # {}
    BY DEF ExecInv, ResultsOK
  <2>2. ASSUME NEW hyp \in hypotheses[i]
        PROVE  /\ hyp.confidence = "high" => hyp.cites # {}
               /\ Cardinality(Verified(i)) <= MaxFacts /\ Telemetry \in gathered[i] => hyp.telemetry
    <3>1. PICK out : out = output[i][1]
      OBVIOUS
    <3>2. /\ hyp = Select(out.answer, out.facts) /\ ShownOK(out.facts, i)
          /\ hyp.telemetry = TfAvailable(out.facts) /\ output[i] # <<>>
      BY <3>1, OutputCites
    <3>3. hyp.confidence = "high" => hyp.cites # {}
      BY <3>2 DEF Select
    <3>4. output[i] \in Seq(Outputs)
      BY DEF ExecInv, InvTypeOK
    <3>5. Len(output[i]) \in Nat \ {0}
      BY <3>2, <3>4, EmptySeq
    <3>6. out.facts \in Seq(Facts)
      <4>1. out \in Outputs
        BY <3>1, <3>4, <3>5, ElementOfSeq
      <4> QED BY <4>1 DEF Outputs
    <3> QED BY <3>2, <3>3, <3>6, FullPrompt
  <2> QED BY <2>1, <2>2
<1> QED BY <1>1, InvestigationInvariant, PTL

\* The gateway is asked only for an output that is not there yet.
THEOREM NeverRebilled == InvSpec => NoRebilling
<1>1. InvestigationInv =>
        \A t \in Ticks : tick[t].pc = "invoke" /\ tick'[t].pc # "invoke" => output[Mine(t)] = <<>>
  BY InvestigationInvParts, AtWork DEF PlaceOK
<1> QED BY <1>1, InvestigationInvariant, PTL DEF NoRebilling

\* No failure of a later call takes the place of a recorded success.
THEOREM SuccessIsKept == InvSpec => SuccessKept
<1>1. InvestigationInv /\ [InvNext]_allVars =>
        \A i \in Rows : call[i].status = "succeeded" => call'[i].status = "succeeded"
  <2> SUFFICES ASSUME ExecInv, [InvNext]_allVars, NEW i \in Rows, call[i].status = "succeeded"
               PROVE  call'[i].status = "succeeded"
    BY InvestigationInvParts
  <2>1. call \in [Rows -> [status : {"absent", "failed", "succeeded"}, answer : Seq(Calls)]]
    BY DEF ExecInv, InvTypeOK
  <2>2. ASSUME NEW j, NEW c, c.status = "succeeded" \/ c = Failed,
               call' = [call EXCEPT ![j] = SavedCall(@, c)]
        PROVE  call'[i].status = "succeeded"
    <3>1. CASE i = j
      BY <2>1, <2>2, <3>1 DEF SavedCall, Failed
    <3>2. CASE i # j
      BY <2>1, <2>2, <3>2
    <3> QED BY <3>1, <3>2
  <2>3. CASE UNCHANGED call
    BY <2>3
  <2>4. ASSUME NEW t \in Ticks, SaveCall(t) PROVE call'[i].status = "succeeded"
    BY <2>2, <2>4 DEF SaveCall, Succeeded
  <2>5. ASSUME NEW t \in Ticks, InvokeFails(t) PROVE call'[i].status = "succeeded"
    BY <2>2, <2>3, <2>5 DEF InvokeFails
  <2>6. UNCHANGED call \/ \E t \in Ticks : SaveCall(t) \/ InvokeFails(t)
    BY DEF InvNext, allVars, invVars, Execute, Claim, PhaseDone, Triage, Correlate,
       GatherCommits, GatherSignals, GatherTelemetry, Ask, Invoke, SaveOutput, ReadIncident,
       WriteHypotheses, PhaseFails
  <2> QED BY <2>3, <2>4, <2>5, <2>6
<1>2. InvestigationInv /\ [InvNext]_allVars =>
        [\A i \in Rows : call[i].status = "succeeded" => call'[i].status = "succeeded"]_allVars
  BY <1>1
<1> QED BY <1>2, InvestigationInvariant, PTL DEF InvSpec, SuccessKept

\* Next to investigations, the webhook still keeps its promises, ...
THEOREM WebhookUndisturbed ==
    InvSpec => [](TypeOK /\ OneActiveIncident /\ AutoStartNotLost /\ NoDuplicateEvidence
                    /\ AcknowledgedLeavesEvidence)
<1>1. InvestigationInv =>
        TypeOK /\ OneActiveIncident /\ AutoStartNotLost /\ NoDuplicateEvidence
          /\ AcknowledgedLeavesEvidence
  BY DEF InvestigationInv, IncidentsInv
<1> QED BY <1>1, InvestigationInvariant, PTL

\* ... and its incidents are alert cycles.
THEOREM InvestigationsKeepAlertCycle == InvSpec => ImplementsAlertCycle
<1>1. InvInit => Cycle!AcInit
  BY CycleInit DEF InvInit
<1>2. InvestigationInv /\ InvestigationInv' /\ [InvNext]_allVars => [Cycle!AcNext]_Cycle!acVars
  <2> SUFFICES ASSUME IncidentsInv, IncidentsInv', ExecInv, [InvNext]_allVars
               PROVE  [Cycle!AcNext]_Cycle!acVars
    BY InvestigationInvParts DEF InvestigationInv
  <2>1. ASSUME NEW t \in Ticks, Execute(t) PROVE [Cycle!AcNext]_Cycle!acVars
    BY <2>1, ExecuteIsAside, AsideKeepsIncidents DEF Cycle!acVars
  <2>2. CASE [Next]_vars
    BY <2>2, CycleKeeps
  <2> QED BY <2>1, <2>2 DEF InvNext, allVars
<1> QED BY <1>1, <1>2, InvestigationInvariant, PTL DEF InvSpec, ImplementsAlertCycle, Cycle!AcSpec
=============================================================================
