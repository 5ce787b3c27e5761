------------------------ MODULE PullRequestProofs -------------------------
(***************************************************************************)
(* What an answer to GitHub's delivery promises, for every number of       *)
(* requests, events, redeliveries and failures; and what a review posts    *)
(* and records, for every number of findings, attempts and failures, as    *)
(* far as one tick at a time works on the pull request.                    *)
(***************************************************************************)
EXTENDS PullRequestSync, PrReview, SequenceTheorems, TLAPS

RowState == [state : {"open", "closed", "merged"}, head : Nat]

-----------------------------------------------------------------------------
(* Effects stay.                                                           *)

\* No step takes back what a delivery has done.
Grows ==
    /\ DOMAIN events \subseteq DOMAIN events' /\ \A e \in DOMAIN events : events'[e] = events[e]
    /\ Known => Known'
    /\ reviews \subseteq reviews' /\ unscoped \subseteq unscoped'
    /\ \A n \in DOMAIN comments :
          n \in DOMAIN comments' /\ (comments[n] = "outdated" => comments'[n] = "outdated")

LEMMA EffectsStay ==
    ASSUME TypeOK, Grows, NEW e \in DOMAIN events
    PROVE  /\ Known => Known'
           /\ Reviewed(e) => Reviewed(e)'
           /\ Cleared(e) => Cleared(e)'
           /\ InEffect(e) => InEffect(e)'
<1>1. events'[e] = events[e] /\ events[e].posted \subseteq DOMAIN comments
  BY DEF TypeOK, Grows
<1>2. Known => Known'
  BY DEF Grows
<1>3. Reviewed(e) => Reviewed(e)'
  BY <1>1 DEF Reviewed, Grows
<1>4. Cleared(e) => Cleared(e)'
  BY <1>1 DEF Cleared, Grows
<1> QED BY <1>2, <1>3, <1>4 DEF InEffect

LEMMA HandlerStays ==
    ASSUME TypeOK, Grows, NEW h \in Handlers, EffectsOf(h), handler'[h] = handler[h]
    PROVE  EffectsOf(h)'
<1>1. PICK e \in DOMAIN events : e = handler[h].event
  BY DEF EffectsOf
<1>2. /\ Known => Known'
      /\ Reviewed(e) => Reviewed(e)'
      /\ Cleared(e) => Cleared(e)'
  BY EffectsStay
<1>3. e \in DOMAIN events' /\ (e \in unscoped => e \in unscoped')
  BY DEF Grows
<1>4. handler'[h].event = e
  BY <1>1
<1> QED BY <1>1, <1>2, <1>3, <1>4 DEF EffectsOf

\* A step that keeps the effects and proves those it claims.
LEMMA InvFrom ==
    ASSUME SyncInv, TypeOK', Grows,
           \A h \in Handlers : handler'[h] = handler[h] \/ At(h, "idle")' \/ EffectsOf(h)',
           \A e \in Deliveries :
               \/ delivery'[e] = delivery[e]
               \/ delivery'[e].status \in {"received", "failed"}
               \/ delivery'[e].status = "ignored" /\ ~delivery'[e].valid
               \/ delivery'[e].status = "processed" /\ e \in DOMAIN events' /\ InEffect(e)',
           \A e \in answered' : e \in answered \/ InEffect(e)'
    PROVE  SyncInv'
<1>1. TypeOK /\ \A e \in DOMAIN events : e \in DOMAIN events' /\ (InEffect(e) => InEffect(e)')
  BY EffectsStay DEF SyncInv, Grows
<1>2. \A h \in Handlers : At(h, "idle")' \/ EffectsOf(h)'
  <2> SUFFICES ASSUME NEW h \in Handlers, handler'[h] = handler[h] PROVE At(h, "idle")' \/ EffectsOf(h)'
    OBVIOUS
  <2>1. At(h, "idle") \/ EffectsOf(h)
    BY DEF SyncInv
  <2>2. CASE At(h, "idle")
    BY <2>2 DEF At
  <2>3. CASE EffectsOf(h)
    BY <1>1, <2>3, HandlerStays
  <2> QED BY <2>1, <2>2, <2>3
<1>3. ASSUME NEW e \in Deliveries
      PROVE  /\ delivery'[e].status = "processed" => e \in DOMAIN events' /\ InEffect(e)'
             /\ delivery'[e].status = "ignored" => ~delivery'[e].valid
  <2>1. /\ delivery[e].status = "processed" => e \in DOMAIN events /\ InEffect(e)
        /\ delivery[e].status = "ignored" => ~delivery[e].valid
    BY DEF SyncInv
  <2> QED BY <1>1, <2>1
<1>4. \A e \in answered' : InEffect(e)'
  <2>1. \A e \in answered : e \in DOMAIN events /\ InEffect(e)
    BY <1>1 DEF SyncInv, TypeOK
  <2> QED BY <1>1, <2>1
<1> QED BY <1>2, <1>3, <1>4 DEF SyncInv

-----------------------------------------------------------------------------
(* GitHub, the reviewer and the members.                                   *)

LEMMA SyncTypes ==
    ASSUME TypeOK
    PROVE  /\ MaxEvents \in Nat /\ Len(events) \in Nat /\ DOMAIN events = 1 .. Len(events)
           /\ DOMAIN events \subseteq Deliveries
           /\ \A e \in DOMAIN events : events[e] \in EventState
           /\ handler \in [Handlers -> HandlerState]
           /\ \A h \in Handlers : handler[h] \in HandlerState
           /\ delivery \in [Deliveries -> DeliveryRows]
           /\ Len(comments) \in Nat /\ DOMAIN comments = 1 .. Len(comments)
<1>1. MaxEvents \in Nat
  BY SyncAssumption DEF SyncAssumption
<1>2. Len(events) \in Nat /\ DOMAIN events = 1 .. Len(events) /\ Len(events) <= MaxEvents
  BY LenProperties DEF TypeOK
<1>3. \A e \in DOMAIN events : events[e] \in EventState
  BY ElementOfSeq, <1>2 DEF TypeOK
<1>4. DOMAIN events \subseteq Deliveries
  BY <1>1, <1>2 DEF Deliveries
<1>5. Len(comments) \in Nat /\ DOMAIN comments = 1 .. Len(comments)
  BY LenProperties DEF TypeOK
<1>6. handler \in [Handlers -> HandlerState] /\ delivery \in [Deliveries -> DeliveryRows]
  BY DEF TypeOK
<1> QED BY <1>1, <1>2, <1>3, <1>4, <1>5, <1>6

\* A step that leaves the log, the requests and what was answered alone.
LEMMA InvOutside ==
    ASSUME SyncInv, TypeOK', Grows, UNCHANGED <<delivery, handler, answered>>
    PROVE  SyncInv'
BY InvFrom

LEMMA HappensKeeps ==
    ASSUME SyncInv, NEW action \in AnalysisActions \cup {"closed", "edited"},
           NEW state \in {"open", "closed", "merged"}, NEW head \in Nat,
           Happens(action, state, head)
    PROVE  SyncInv'
<1> DEFINE new == [action |-> action, state |-> state, head |-> head, posted |-> Posted]
<1>1. /\ TypeOK /\ Len(events) < MaxEvents /\ pr' = [state |-> state, head |-> head]
      /\ events' = Append(events, new)
      /\ UNCHANGED <<scope, delivery, handler, row, reviews, rec, comments, answered, unscoped>>
  BY DEF SyncInv, Happens, tables, history
<1>2. /\ events \in Seq(EventState) /\ Len(events) \in Nat /\ DOMAIN events = 1 .. Len(events)
      /\ MaxEvents \in Nat /\ DOMAIN comments = 1 .. Len(comments) /\ Len(comments) \in Nat
  BY <1>1, SyncTypes DEF TypeOK
<1>3. Posted \subseteq DOMAIN comments
  BY DEF Posted
<1>4. new \in EventState /\ new.posted \subseteq DOMAIN comments
  BY <1>2, <1>3 DEF EventState
<1> HIDE DEF new
<1>5. /\ events' \in Seq(EventState) /\ Len(events') = Len(events) + 1
      /\ \A e \in 1 .. Len(events) : events'[e] = events[e]
      /\ events'[Len(events) + 1] = new
  BY <1>1, <1>2, <1>4, AppendProperties
<1>6. DOMAIN events' = 1 .. Len(events) + 1
  BY <1>5, LenProperties
<1>7. Grows
  BY <1>1, <1>2, <1>5, <1>6 DEF Grows, Known
<1>8. TypeOK'
  <2>1. \A e \in DOMAIN events' : events'[e].posted \subseteq DOMAIN comments'
    <3> SUFFICES ASSUME NEW e \in DOMAIN events' PROVE events'[e].posted \subseteq DOMAIN comments
      BY <1>1
    <3>1. e \in 1 .. Len(events) \/ e = Len(events) + 1
      BY <1>2, <1>6
    <3> QED BY <1>1, <1>2, <1>4, <1>5, <3>1 DEF TypeOK
  <2>2. Len(events') <= MaxEvents
    BY <1>1, <1>2, <1>5
  <2>3. answered' \subseteq DOMAIN events' /\ unscoped' \subseteq DOMAIN events'
    BY <1>1, <1>7 DEF TypeOK, Grows
  <2>4. pr' \in [state : {"open", "closed", "merged"}, head : Nat]
    BY <1>1
  <2> QED BY <1>1, <1>5, <2>1, <2>2, <2>3, <2>4 DEF TypeOK
<1> QED BY <1>1, <1>7, <1>8, InvOutside

\* Whatever happens to the pull request.
LEMMA GithubKeeps ==
    ASSUME SyncInv, Opened \/ Synchronize \/ Closed \/ Reopened \/ Edited
    PROVE  SyncInv'
<1>1. pr.head \in Nat
  BY DEF SyncInv, TypeOK
<1>2. CASE Opened
  BY <1>2, HappensKeeps DEF Opened, AnalysisActions
<1>3. CASE Synchronize
  <2>1. pr.head + 1 \in Nat
    BY <1>1
  <2>2. PICK head \in Nat : head = pr.head + 1
    BY <2>1
  <2>3. Happens("synchronize", "open", head)
    BY <1>3, <2>2 DEF Synchronize
  <2> QED BY <2>3, HappensKeeps DEF AnalysisActions
<1>4. CASE Closed
  <2>1. PICK head \in Nat, state \in {"closed", "merged"} :
           head = pr.head /\ Happens("closed", state, head)
    BY <1>1, <1>4 DEF Closed
  <2> QED BY <2>1, HappensKeeps
<1>5. CASE Reopened
  <2>1. PICK head \in Nat : head = pr.head /\ Happens("reopened", "open", head)
    BY <1>1, <1>5 DEF Reopened
  <2> QED BY <2>1, HappensKeeps DEF AnalysisActions
<1>6. CASE Edited
  <2>1. PICK head \in Nat, action \in {"ready_for_review", "edited"} :
           head = pr.head /\ Happens(action, "open", head)
    BY <1>1, <1>6 DEF Edited
  <2> QED BY <2>1, HappensKeeps DEF AnalysisActions
<1> QED BY <1>2, <1>3, <1>4, <1>5, <1>6

\* The effects when the tables stay as they are.
LEMMA GrowsStill ==
    ASSUME UNCHANGED <<events, row, reviews, comments>>, unscoped \subseteq unscoped'
    PROVE  Grows
BY DEF Grows, Known

LEMMA ReviewKeeps ==
    ASSUME SyncInv, Review
    PROVE  SyncInv'
<1>1. /\ TypeOK /\ rec' = "active" /\ comments' = Append(comments, "posted")
      /\ UNCHANGED <<pr, events, scope, delivery, handler, row, reviews, answered, unscoped>>
  BY DEF SyncInv, Review, github, history
<1>2. comments \in Seq({"posted", "outdated"}) /\ "posted" \in {"posted", "outdated"}
  BY <1>1 DEF TypeOK
<1>3. /\ comments' \in Seq({"posted", "outdated"}) /\ Len(comments') = Len(comments) + 1
      /\ \A n \in 1 .. Len(comments) : comments'[n] = comments[n]
  BY <1>1, <1>2, AppendProperties
<1>4. /\ Len(comments) \in Nat /\ DOMAIN comments = 1 .. Len(comments)
      /\ DOMAIN comments' = 1 .. Len(comments')
  BY <1>1, <1>3, SyncTypes, LenProperties
<1>5. DOMAIN comments \subseteq DOMAIN comments'
  BY <1>3, <1>4
<1>6. Grows
  BY <1>1, <1>3, <1>4, <1>5 DEF Grows, Known
<1>7. TypeOK'
  BY <1>1, <1>3, <1>5 DEF TypeOK
<1> QED BY <1>1, <1>6, <1>7, InvOutside

LEMMA MembersKeep ==
    ASSUME SyncInv, DismissOrRestore \/ SetScope
    PROVE  SyncInv'
<1>1. /\ TypeOK /\ rec' \in {"absent", "active", "dismissed", "outdated"} /\ scope' \in BOOLEAN
      /\ UNCHANGED <<pr, events, delivery, handler, row, reviews, comments, answered, unscoped>>
  BY DEF SyncInv, TypeOK, DismissOrRestore, SetScope, github, tables, history
<1>2. Grows
  BY <1>1, GrowsStill
<1>3. TypeOK'
  BY <1>1 DEF TypeOK
<1> QED BY <1>1, <1>2, <1>3, InvOutside

-----------------------------------------------------------------------------
(* Deliveries.                                                             *)

LEMMA LogTypes ==
    ASSUME NEW r \in DeliveryRows
    PROVE  /\ \A status \in {"processed", "failed"} :
                 Marked(r, status) \in DeliveryRows /\ Marked(r, status).status = status
           /\ IsTerminal(r) <=> r.status = "processed" \/ (r.status = "ignored" /\ r.valid)
BY DEF Marked, IsTerminal, DeliveryRows

LEMMA ReceiveKeeps ==
    ASSUME SyncInv, NEW h \in Handlers, NEW e \in DOMAIN events, Receive(h, e)
    PROVE  SyncInv'
<1>1. /\ TypeOK /\ e \in Deliveries /\ delivery \in [Deliveries -> DeliveryRows]
      /\ handler \in [Handlers -> HandlerState] /\ scope \in BOOLEAN
      /\ MaxEvents \in Nat
  BY SyncTypes DEF SyncInv, TypeOK
<1>2. /\ UNCHANGED <<pr, events, scope, row, reviews, rec, comments>>
      /\ delivery' = [delivery EXCEPT ![e] = Recorded(delivery[e], "received", TRUE)]
  BY DEF Receive, github, tables
<1>3. /\ delivery' \in [Deliveries -> DeliveryRows]
      /\ \A d \in Deliveries : delivery'[d] = delivery[d] \/ delivery'[d].status = "received"
  <2> DEFINE new == Recorded(delivery[e], "received", TRUE)
  <2>1. delivery[e] \in DeliveryRows
    BY <1>1
  <2>2. new \in DeliveryRows /\ (new = delivery[e] \/ new.status = "received")
    BY <2>1 DEF Recorded, DeliveryRows
  <2> HIDE DEF new
  <2>3. delivery' = [delivery EXCEPT ![e] = new]
    BY <1>2 DEF new
  <2> QED BY <1>1, <2>2, <2>3
<1>4. CASE IsTerminal(delivery[e])
  <2>1. answered' = answered \cup {e} /\ UNCHANGED <<handler, unscoped>>
    BY <1>4 DEF Receive
  <2>2. Grows
    BY <1>2, <2>1, GrowsStill
  <2>3. InEffect(e)
    <3>1. delivery[e].status = "processed"
      BY <1>1, <1>4, LogTypes DEF SyncInv
    <3> QED BY <1>1, <3>1 DEF SyncInv
  <2>4. InEffect(e)'
    BY <1>1, <2>2, <2>3, EffectsStay
  <2>5. TypeOK'
    BY <1>1, <1>2, <1>3, <2>1 DEF TypeOK
  <2> QED BY <1>3, <2>1, <2>2, <2>4, <2>5, InvFrom
<1>5. CASE ~IsTerminal(delivery[e])
  <2> DEFINE new == [pc |-> "select", event |-> e, scope |-> scope]
  <2>1. /\ handler' = [handler EXCEPT ![h] = new]
        /\ unscoped' = IF scope THEN unscoped ELSE unscoped \cup {e}
        /\ UNCHANGED answered
    BY <1>5 DEF Receive
  <2>2. e \in Nat
    BY <1>1 DEF Deliveries
  <2>3. new \in HandlerState /\ new.pc = "select" /\ new.event = e /\ new.scope = scope
    BY <1>1, <2>2 DEF HandlerState
  <2> HIDE DEF new
  <2>4. /\ handler' \in [Handlers -> HandlerState] /\ handler'[h] = new
        /\ \A g \in Handlers \ {h} : handler'[g] = handler[g]
    BY <1>1, <2>1, <2>3
  <2>5. unscoped \subseteq unscoped' /\ unscoped' \subseteq DOMAIN events /\ (scope \/ e \in unscoped')
    BY <1>1, <2>1 DEF TypeOK
  <2>6. Grows
    BY <1>2, <2>5, GrowsStill
  <2>7. EffectsOf(h)'
    BY <1>2, <2>3, <2>4, <2>5 DEF EffectsOf
  <2>8. TypeOK'
    BY <1>1, <1>2, <1>3, <2>1, <2>4, <2>5 DEF TypeOK
  <2> QED BY <1>3, <2>1, <2>4, <2>6, <2>7, <2>8, InvFrom
<1> QED BY <1>4, <1>5

LEMMA RejectKeeps ==
    ASSUME SyncInv, NEW e \in DOMAIN events, Reject(e)
    PROVE  SyncInv'
<1>1. /\ TypeOK /\ e \in Deliveries /\ delivery \in [Deliveries -> DeliveryRows]
  BY SyncTypes DEF SyncInv
<1>2. /\ UNCHANGED <<pr, events, scope, handler, row, reviews, rec, comments, answered, unscoped>>
      /\ delivery' = [delivery EXCEPT ![e] = Recorded(delivery[e], "ignored", FALSE)]
  BY DEF Reject, github, tables, history
<1>3. /\ delivery' \in [Deliveries -> DeliveryRows]
      /\ \A d \in Deliveries : \/ delivery'[d] = delivery[d]
                               \/ delivery'[d].status = "ignored" /\ ~delivery'[d].valid
  <2> DEFINE new == Recorded(delivery[e], "ignored", FALSE)
  <2>1. delivery[e] \in DeliveryRows
    BY <1>1
  <2>2. new \in DeliveryRows /\ (new = delivery[e] \/ (new.status = "ignored" /\ ~new.valid))
    BY <2>1 DEF Recorded, DeliveryRows
  <2> HIDE DEF new
  <2>3. delivery' = [delivery EXCEPT ![e] = new]
    BY <1>2 DEF new
  <2> QED BY <1>1, <2>2, <2>3
<1>4. Grows
  BY <1>2, GrowsStill
<1>5. TypeOK'
  BY <1>1, <1>2, <1>3 DEF TypeOK
<1> QED BY <1>2, <1>3, <1>4, <1>5, InvFrom

-----------------------------------------------------------------------------
(* Requests.                                                               *)

\* A request goes on, with the effects it has now.
Advances(h) ==
    /\ \E pc \in {"insert", "update", "enqueue", "clear", "find", "archive", "mark"} : Go(h, pc)
    /\ UNCHANGED <<pr, events, scope, delivery, answered, unscoped>>

LEMMA AdvancesTypes ==
    ASSUME SyncInv, NEW h \in Handlers, Advances(h)
    PROVE  /\ handler' \in [Handlers -> HandlerState]
           /\ \A g \in Handlers \ {h} : handler'[g] = handler[g]
           /\ handler'[h].event = handler[h].event /\ handler'[h].scope = handler[h].scope
<1>1. handler \in [Handlers -> HandlerState]
  BY DEF SyncInv, TypeOK
<1> QED BY <1>1 DEF Advances, Go, HandlerState

LEMMA AdvancesKeep ==
    ASSUME SyncInv, NEW h \in Handlers, Advances(h), Grows, EffectsOf(h)',
           row' \in Seq(RowState), Len(row') <= 1, reviews' \subseteq Nat,
           rec' \in {"absent", "active", "dismissed", "outdated"},
           comments' \in Seq({"posted", "outdated"}), DOMAIN comments \subseteq DOMAIN comments'
    PROVE  SyncInv'
<1>1. /\ handler' \in [Handlers -> HandlerState] /\ \A g \in Handlers \ {h} : handler'[g] = handler[g]
      /\ UNCHANGED <<pr, events, scope, delivery, answered, unscoped>>
  BY AdvancesTypes DEF Advances
<1>2. TypeOK'
  <2>1. \A e \in DOMAIN events' : events'[e].posted \subseteq DOMAIN comments'
    BY <1>1 DEF SyncInv, TypeOK
  <2> QED BY <1>1, <2>1 DEF SyncInv, TypeOK, RowState
<1> QED BY <1>1, <1>2, InvFrom

\* What a request that is being handled has done.
LEMMA HandlerTypes ==
    ASSUME SyncInv, NEW h \in Handlers, ~At(h, "idle")
    PROVE  /\ EffectsOf(h) /\ handler[h].event \in DOMAIN events /\ Event(h) \in EventState
           /\ handler[h] \in HandlerState
           /\ row \in Seq(RowState) /\ Len(row) <= 1 /\ reviews \subseteq Nat
           /\ rec \in {"absent", "active", "dismissed", "outdated"}
           /\ comments \in Seq({"posted", "outdated"})
<1>1. EffectsOf(h) /\ handler[h].event \in DOMAIN events
  BY DEF SyncInv, EffectsOf
<1>2. Event(h) \in EventState
  BY <1>1, SyncTypes DEF SyncInv, Event
<1> QED BY <1>1, <1>2, SyncTypes DEF SyncInv, TypeOK, RowState

LEMMA SnapshotTypes ==
    ASSUME SyncInv, NEW h \in Handlers, ~At(h, "idle")
    PROVE  Snapshot(h) \in Seq(RowState) /\ Len(Snapshot(h)) = 1 /\ Snapshot(h) # <<>>
<1> DEFINE r == [state |-> Event(h).state, head |-> Event(h).head]
<1>1. r \in RowState
  BY HandlerTypes DEF EventState, RowState
<1>2. Snapshot(h) = <<r>>
  BY DEF Snapshot
<1> HIDE DEF r
<1>3. <<r>> \in Seq(RowState) /\ Len(<<r>>) = 1 /\ <<r>> # <<>>
  BY <1>1
<1> QED BY <1>2, <1>3

LEMMA SelectRowKeeps ==
    ASSUME SyncInv, NEW h \in Handlers, SelectRow(h)
    PROVE  SyncInv'
<1>1. /\ ~At(h, "idle") /\ handler[h].pc = "select"
      /\ UNCHANGED <<pr, events, scope, delivery, row, reviews, rec, comments, answered, unscoped>>
  BY DEF SelectRow, At, github, tables, history
<1>2. Go(h, "insert") \/ Go(h, "update")
  BY DEF SelectRow
<1>3. Advances(h)
  BY <1>1, <1>2 DEF Advances
<1>4. Grows
  BY <1>1, GrowsStill
<1>5. handler'[h].pc \in {"insert", "update"}
  BY <1>2 DEF Go, SyncInv, TypeOK, HandlerState
<1>6. EffectsOf(h)'
  BY <1>1, <1>3, <1>5, AdvancesTypes, HandlerTypes DEF EffectsOf
<1> QED BY <1>1, <1>3, <1>4, <1>6, AdvancesKeep, HandlerTypes

\* The row is written: the pull request is known.
LEMMA RowKeeps ==
    ASSUME SyncInv, NEW h \in Handlers, InsertRow(h) \/ UpdateRow(h)
    PROVE  SyncInv'
<1>1. /\ ~At(h, "idle") /\ handler[h].pc \in {"insert", "update"}
      /\ UNCHANGED <<pr, events, scope, delivery, reviews, rec, comments, answered, unscoped>>
  BY DEF InsertRow, UpdateRow, At, github, history
<1>2. \/ row' = Snapshot(h) /\ Go(h, "enqueue")
      \/ UNCHANGED row /\ Go(h, "update")
  BY DEF InsertRow, UpdateRow
<1>3. Advances(h)
  BY <1>1, <1>2 DEF Advances
<1>4. row' \in Seq(RowState) /\ Len(row') <= 1 /\ (Known => Known')
  <2>1. Snapshot(h) \in Seq(RowState) /\ Len(Snapshot(h)) = 1 /\ Snapshot(h) # <<>>
    BY <1>1, SnapshotTypes
  <2>2. row \in Seq(RowState) /\ Len(row) <= 1
    BY <1>1, HandlerTypes
  <2>3. CASE row' = Snapshot(h)
    <3>1. Known'
      BY <2>1, <2>3 DEF Known
    <3> HIDE DEF Snapshot
    <3>2. row' \in Seq(RowState) /\ Len(row') = 1
      BY <2>1, <2>3
    <3> QED BY <3>1, <3>2
  <2>4. CASE UNCHANGED row
    BY <2>2, <2>4 DEF Known
  <2> QED BY <1>2, <2>3, <2>4
<1>5. Grows
  BY <1>1, <1>4 DEF Grows
<1>6. handler'[h].pc = "update" \/ (handler'[h].pc = "enqueue" /\ Known')
  BY <1>1, <1>2, SnapshotTypes DEF Go, SyncInv, TypeOK, HandlerState, Known
<1>7. EffectsOf(h)'
  BY <1>1, <1>3, <1>6, AdvancesTypes, HandlerTypes DEF EffectsOf
<1> QED BY <1>1, <1>3, <1>4, <1>5, <1>7, AdvancesKeep, HandlerTypes

LEMMA EnqueueKeeps ==
    ASSUME SyncInv, NEW h \in Handlers, Enqueue(h)
    PROVE  SyncInv'
<1>1. /\ ~At(h, "idle") /\ handler[h].pc = "enqueue"
      /\ UNCHANGED <<pr, events, scope, delivery, row, rec, comments, answered, unscoped>>
      /\ reviews' = IF Event(h).action \in AnalysisActions /\ handler[h].scope
                    THEN reviews \cup {Event(h).head} ELSE reviews
      /\ Go(h, Then(h, "enqueue"))
  BY DEF Enqueue, At, github, history
<1>2. /\ Then(h, "enqueue") \in {"clear", "find", "mark"}
      /\ Event(h).action = "closed" => Then(h, "enqueue") = "clear"
  BY DEF Then
<1>3. PICK pc \in {"clear", "find", "mark"} :
         Go(h, pc) /\ (Event(h).action = "closed" => pc = "clear")
  BY <1>1, <1>2
<1>4. Advances(h)
  BY <1>1, <1>3 DEF Advances
<1>5. reviews \subseteq reviews' /\ reviews' \subseteq Nat
  BY <1>1, HandlerTypes DEF EventState
<1>6. Grows
  BY <1>1, <1>5 DEF Grows, Known
<1>7. PICK e \in DOMAIN events : e = handler[h].event
  BY <1>1, HandlerTypes
<1>8. handler'[h].pc = pc /\ handler'[h].event = e
  BY <1>3, <1>4, <1>7, AdvancesTypes DEF Go, SyncInv, TypeOK, HandlerState
<1>9. Event(h) = events[e] /\ events' = events /\ unscoped' = unscoped
  BY <1>1, <1>7 DEF Event
<1>10. handler[h].scope \/ e \in unscoped
  BY <1>1, <1>7, HandlerTypes DEF EffectsOf
<1>11. Reviewed(e)'
  BY <1>1, <1>9, <1>10 DEF Reviewed
<1>12. pc # "clear" => Cleared(e)'
  BY <1>3, <1>9 DEF Cleared
<1>13. Known' /\ handler'[h].scope = handler[h].scope
  BY <1>1, <1>4, AdvancesTypes, HandlerTypes DEF EffectsOf, Known
<1>14. EffectsOf(h)'
  BY <1>7, <1>8, <1>9, <1>10, <1>11, <1>12, <1>13 DEF EffectsOf
<1> QED BY <1>1, <1>4, <1>5, <1>6, <1>14, AdvancesKeep, HandlerTypes

LEMMA ClearCommentsKeeps ==
    ASSUME SyncInv, NEW h \in Handlers, ClearComments(h)
    PROVE  SyncInv'
<1>1. /\ ~At(h, "idle") /\ handler[h].pc = "clear"
      /\ UNCHANGED <<pr, events, scope, delivery, row, reviews, rec, answered, unscoped>>
      /\ comments' = [n \in DOMAIN comments |-> "outdated"] /\ Go(h, Then(h, "clear"))
  BY DEF ClearComments, At, github, history
<1>2. Then(h, "clear") = "find"
  BY DEF Then
<1>3. Go(h, "find") /\ Advances(h)
  BY <1>1, <1>2 DEF Advances
<1>4. /\ comments' \in Seq({"posted", "outdated"}) /\ DOMAIN comments' = DOMAIN comments
  <2>1. DOMAIN comments = 1 .. Len(comments) /\ Len(comments) \in Nat
    BY SyncTypes DEF SyncInv
  <2>2. comments' \in [1 .. Len(comments) -> {"posted", "outdated"}]
    BY <1>1, <2>1
  <2> QED BY <1>1, <2>1, <2>2, SeqDef
<1>5. Grows
  BY <1>1 DEF Grows, Known
<1>6. PICK e \in DOMAIN events : e = handler[h].event
  BY <1>1, HandlerTypes
<1>7. handler'[h].pc = "find" /\ handler'[h].event = e /\ handler'[h].scope = handler[h].scope
  BY <1>3, <1>6, AdvancesTypes DEF Go, SyncInv, TypeOK, HandlerState
<1>8. Known' /\ Reviewed(e)' /\ (handler[h].scope \/ e \in unscoped)
  <2>1. Known /\ Reviewed(e) /\ (handler[h].scope \/ e \in unscoped)
    BY <1>1, <1>6, HandlerTypes DEF EffectsOf
  <2> QED BY <1>1, <1>5, <2>1, EffectsStay DEF SyncInv
<1>9. Cleared(e)'
  BY <1>1 DEF Cleared, SyncInv, TypeOK
<1>10. EffectsOf(h)'
  BY <1>1, <1>7, <1>8, <1>9 DEF EffectsOf
<1> QED BY <1>1, <1>3, <1>4, <1>5, <1>10, AdvancesKeep, HandlerTypes

\* The recommendation is looked at, and set.
LEMMA RecommendationKeeps ==
    ASSUME SyncInv, NEW h \in Handlers, FindRecommendation(h) \/ ArchiveOrReactivate(h)
    PROVE  SyncInv'
<1>1. /\ ~At(h, "idle") /\ handler[h].pc \in {"find", "archive"}
      /\ UNCHANGED <<pr, events, scope, delivery, row, reviews, comments, answered, unscoped>>
      /\ rec' \in {"active", "outdated"} \/ UNCHANGED rec
  BY DEF FindRecommendation, ArchiveOrReactivate, At, github, tables, history
<1>2. Then(h, "archive") = "mark"
  BY DEF Then
<1>3. Go(h, "archive") \/ Go(h, "mark")
  BY <1>2 DEF FindRecommendation, ArchiveOrReactivate
<1>4. Advances(h)
  BY <1>1, <1>3 DEF Advances
<1>5. Grows
  BY <1>1, GrowsStill
<1>6. PICK e \in DOMAIN events : e = handler[h].event
  BY <1>1, HandlerTypes
<1>7. /\ handler'[h].pc \in {"archive", "mark"} /\ handler'[h].event = e
      /\ handler'[h].scope = handler[h].scope
  BY <1>3, <1>4, <1>6, AdvancesTypes DEF Go, SyncInv, TypeOK, HandlerState
<1>8. Known' /\ Reviewed(e)' /\ Cleared(e)' /\ (handler[h].scope \/ e \in unscoped)
  <2>1. Known /\ Reviewed(e) /\ Cleared(e) /\ (handler[h].scope \/ e \in unscoped)
    BY <1>1, <1>6, HandlerTypes DEF EffectsOf
  <2> QED BY <1>5, <2>1, EffectsStay DEF SyncInv
<1>9. EffectsOf(h)'
  BY <1>1, <1>7, <1>8 DEF EffectsOf
<1>10. rec' \in {"absent", "active", "dismissed", "outdated"}
  BY <1>1, HandlerTypes
<1> QED BY <1>1, <1>4, <1>5, <1>9, <1>10, AdvancesKeep, HandlerTypes

LEMMA MarkKeeps ==
    ASSUME SyncInv, NEW h \in Handlers, Mark(h)
    PROVE  SyncInv'
<1>1. ~At(h, "idle") /\ handler[h].pc = "mark"
  BY DEF Mark, At
<1>2. PICK e \in DOMAIN events : e = handler[h].event
  BY <1>1, HandlerTypes
<1>3. /\ UNCHANGED <<pr, events, scope, row, reviews, rec, comments, unscoped>>
      /\ delivery' = [delivery EXCEPT ![e] = Marked(delivery[e], "processed")]
      /\ answered' = answered \cup {e} /\ handler' = [handler EXCEPT ![h] = IdleHandler]
  BY <1>2 DEF Mark, github, tables
<1>4. /\ TypeOK /\ e \in Deliveries /\ delivery \in [Deliveries -> DeliveryRows]
      /\ handler \in [Handlers -> HandlerState]
  BY SyncTypes DEF SyncInv
<1>5. InEffect(e)
  BY <1>1, <1>2, HandlerTypes DEF EffectsOf, InEffect
<1>6. Grows
  BY <1>3, GrowsStill
<1>7. InEffect(e)'
  BY <1>4, <1>5, <1>6, EffectsStay
<1>8. /\ delivery' \in [Deliveries -> DeliveryRows]
      /\ \A d \in Deliveries : \/ delivery'[d] = delivery[d]
                               \/ d = e /\ delivery'[d].status = "processed"
  <2> DEFINE new == Marked(delivery[e], "processed")
  <2>1. delivery[e] \in DeliveryRows
    BY <1>4
  <2>2. new \in DeliveryRows /\ new.status = "processed"
    BY <2>1, LogTypes
  <2>3. delivery' = [delivery EXCEPT ![e] = new]
    BY <1>3
  <2> HIDE DEF new
  <2> QED BY <1>4, <2>2, <2>3
<1>9. /\ handler' \in [Handlers -> HandlerState] /\ At(h, "idle")'
      /\ \A g \in Handlers \ {h} : handler'[g] = handler[g]
  <2>1. IdleHandler \in HandlerState /\ IdleHandler.pc = "idle"
    BY DEF IdleHandler, HandlerState
  <2> QED BY <1>3, <1>4, <2>1 DEF At
<1>10. TypeOK'
  BY <1>3, <1>4, <1>8, <1>9 DEF TypeOK
<1>11. e \in DOMAIN events'
  BY <1>3
<1> QED BY <1>3, <1>6, <1>7, <1>8, <1>9, <1>10, <1>11, InvFrom

LEMMA HandlerFailsKeeps ==
    ASSUME SyncInv, NEW h \in Handlers, HandlerFails(h)
    PROVE  SyncInv'
<1>1. ~At(h, "idle")
  BY DEF HandlerFails
<1>2. PICK e \in DOMAIN events : e = handler[h].event
  BY <1>1, HandlerTypes
<1>3. /\ UNCHANGED <<pr, events, scope, row, reviews, rec, comments, answered, unscoped>>
      /\ \/ UNCHANGED delivery
         \/ delivery' = [delivery EXCEPT ![e] = Marked(delivery[e], "failed")]
      /\ handler' = [handler EXCEPT ![h] = IdleHandler]
  BY <1>2 DEF HandlerFails, github, tables, history
<1>4. /\ TypeOK /\ e \in Deliveries /\ delivery \in [Deliveries -> DeliveryRows]
      /\ handler \in [Handlers -> HandlerState]
  BY SyncTypes DEF SyncInv
<1>5. Grows
  BY <1>3, GrowsStill
<1>6. /\ delivery' \in [Deliveries -> DeliveryRows]
      /\ \A d \in Deliveries : delivery'[d] = delivery[d] \/ delivery'[d].status = "failed"
  <2> DEFINE new == Marked(delivery[e], "failed")
  <2>1. delivery[e] \in DeliveryRows
    BY <1>4
  <2>2. new \in DeliveryRows /\ new.status = "failed"
    BY <2>1, LogTypes
  <2>3. UNCHANGED delivery \/ delivery' = [delivery EXCEPT ![e] = new]
    BY <1>3
  <2> HIDE DEF new
  <2> QED BY <1>4, <2>2, <2>3
<1>7. /\ handler' \in [Handlers -> HandlerState] /\ At(h, "idle")'
      /\ \A g \in Handlers \ {h} : handler'[g] = handler[g]
  <2>1. IdleHandler \in HandlerState /\ IdleHandler.pc = "idle"
    BY DEF IdleHandler, HandlerState
  <2> QED BY <1>3, <1>4, <2>1 DEF At
<1>8. TypeOK'
  BY <1>3, <1>4, <1>6, <1>7 DEF TypeOK
<1> QED BY <1>3, <1>5, <1>6, <1>7, <1>8, InvFrom

-----------------------------------------------------------------------------
(* The invariant, and the properties.                                      *)

LEMMA InitKeeps ==
    ASSUME Init
    PROVE  SyncInv
<1>1. /\ pr \in [state : {"open", "closed", "merged"}, head : Nat] /\ scope \in BOOLEAN
      /\ events = <<>> /\ comments = <<>> /\ row = <<>> /\ reviews = {} /\ rec = "absent"
      /\ answered = {} /\ unscoped = {}
  BY DEF Init
<1>2. MaxEvents \in Nat
  BY SyncAssumption DEF SyncAssumption
<1>3. /\ events \in Seq(EventState) /\ Len(events) <= MaxEvents /\ DOMAIN events = {}
      /\ comments \in Seq({"posted", "outdated"}) /\ row \in Seq(RowState) /\ Len(row) <= 1
  BY <1>1, <1>2, EmptySeq
<1>4. Unseen \in DeliveryRows /\ Unseen.status \notin {"processed", "ignored"}
  BY DEF Unseen, DeliveryRows
<1>5. /\ delivery \in [Deliveries -> DeliveryRows]
      /\ \A e \in Deliveries : delivery[e].status \notin {"processed", "ignored"}
  BY <1>4 DEF Init
<1>6. IdleHandler \in HandlerState /\ IdleHandler.pc = "idle"
  BY DEF IdleHandler, HandlerState
<1>7. handler \in [Handlers -> HandlerState] /\ \A h \in Handlers : At(h, "idle")
  BY <1>6 DEF Init, At
<1>8. TypeOK
  BY <1>1, <1>3, <1>5, <1>7 DEF TypeOK, RowState
<1> QED BY <1>1, <1>5, <1>7, <1>8 DEF SyncInv

LEMMA HandleKeeps ==
    ASSUME SyncInv, NEW h \in Handlers, Handle(h)
    PROVE  SyncInv'
<1>1. CASE SelectRow(h)
  BY <1>1, SelectRowKeeps
<1>2. CASE InsertRow(h) \/ UpdateRow(h)
  BY <1>2, RowKeeps
<1>3. CASE Enqueue(h)
  BY <1>3, EnqueueKeeps
<1>4. CASE ClearComments(h)
  BY <1>4, ClearCommentsKeeps
<1>5. CASE FindRecommendation(h) \/ ArchiveOrReactivate(h)
  BY <1>5, RecommendationKeeps
<1>6. CASE Mark(h)
  BY <1>6, MarkKeeps
<1>7. CASE HandlerFails(h)
  BY <1>7, HandlerFailsKeeps
<1> QED BY <1>1, <1>2, <1>3, <1>4, <1>5, <1>6, <1>7 DEF Handle

LEMMA StutterKeeps ==
    ASSUME SyncInv, UNCHANGED vars
    PROVE  SyncInv'
<1>1. UNCHANGED <<pr, events, scope, delivery, handler, row, reviews, rec, comments, answered, unscoped>>
  BY DEF vars, github, tables, history
<1>2. TypeOK'
  BY <1>1 DEF SyncInv, TypeOK
<1>3. Grows
  BY <1>1, GrowsStill
<1> QED BY <1>1, <1>2, <1>3, InvOutside

LEMMA SyncInvariant == Spec => []SyncInv
<1>1. Init => SyncInv
  BY InitKeeps
<1>2. SyncInv /\ [Next]_vars => SyncInv'
  <2> SUFFICES ASSUME SyncInv, [Next]_vars PROVE SyncInv'
    OBVIOUS
  <2>1. CASE Opened \/ Synchronize \/ Closed \/ Reopened \/ Edited
    BY <2>1, GithubKeeps
  <2>2. CASE Review
    BY <2>2, ReviewKeeps
  <2>3. CASE DismissOrRestore \/ SetScope
    BY <2>3, MembersKeep
  <2>4. ASSUME NEW e \in DOMAIN events, Reject(e) PROVE SyncInv'
    BY <2>4, RejectKeeps
  <2>5. ASSUME NEW e \in DOMAIN events, NEW h \in Handlers, Receive(h, e) PROVE SyncInv'
    BY <2>5, ReceiveKeeps
  <2>6. ASSUME NEW h \in Handlers, Handle(h) PROVE SyncInv'
    BY <2>6, HandleKeeps
  <2>7. CASE UNCHANGED vars
    BY <2>7, StutterKeeps
  <2> QED BY <2>1, <2>2, <2>3, <2>4, <2>5, <2>6, <2>7 DEF Next
<1> QED BY <1>1, <1>2, PTL DEF Spec

\* A delivery that GitHub was told is handled has had its effect, for every number of
\* concurrent requests, redeliveries, failures and kills: the row of the pull request exists,
\* and a head that was opened or pushed has a review job, unless reviews were not enabled
\* when a request took it up (github-webhook-store.ts:118-121).
THEOREM AnsweredMeansHandled == Spec => []AnsweredIsHandled
<1>1. SyncInv => AnsweredIsHandled
  BY DEF SyncInv, InEffect, Known, Reviewed, AnsweredIsHandled
<1> QED BY <1>1, SyncInvariant, PTL

\* After a handled closure none of the comments that were posted when the pull request was
\* closed is posted still: a redelivered or late reopening does not bring one back
\* (github-webhook-store.ts:245-249).
THEOREM ClosuresClear == Spec => []ClosureClearsComments
<1>1. SyncInv => ClosureClearsComments
  BY DEF SyncInv, InEffect, Cleared, ClosureClearsComments
<1> QED BY <1>1, SyncInvariant, PTL

-----------------------------------------------------------------------------
(* The review: what a step leaves.                                         *)

Worked == {"analyzed", "done", "failed"}

JobRows == [state : JobState, owner : Ticks \cup {NoOne}, attempt : Nat, findings : {<<>>} \cup Reports]
CommentRows == [rev : Revision, status : {"posted", "outdated"}, comment : Nat]
WriteRows == [state : WriteState, comment : Nat]
TickRows == [pc : PC, head : Heads \cup {0}, next : Nat, row : Nat, resumed : BOOLEAN,
             comment : Nat, retryable : BOOLEAN]

\* Jobs that have findings keep them.
JobsGo ==
    /\ jobs' \in [Heads -> JobRows]
    /\ \A h \in Heads :
          /\ jobs[h].state \in Worked =>
                jobs'[h].state \in Worked /\ jobs'[h].findings = jobs[h].findings
          /\ h > pull'.head => jobs'[h].state = "absent"

\* Rows are added, and stay about their gap.
RowsGo ==
    /\ rows' \in Seq(CommentRows)
    /\ \A i \in DOMAIN rows : i \in DOMAIN rows' /\ rows'[i].rev.gap = rows[i].rev.gap

ProviderGo ==
    /\ published' \subseteq Comment /\ added' \in Nat
    /\ pending' \in [open : BOOLEAN, comments : SUBSET Comment]

RestGo ==
    /\ writes' \in [Revision -> WriteRows] /\ recommendation' \in {"absent", "active", "outdated"}
    /\ pull' \in [open : BOOLEAN, head : 0 .. NumHeads]
    /\ hook' \in {"none", "comments", "recommendation", "reactivate"}
    /\ failures' \in Nat /\ lostReads' \in Nat /\ providerFaults' \in Nat /\ closes' \in Nat

TablesGo == JobsGo /\ RowsGo /\ ProviderGo /\ RestGo

LEMMA ReviewTypes ==
    ASSUME ReviewInv
    PROVE  /\ jobs \in [Heads -> JobRows] /\ rows \in Seq(CommentRows)
           /\ writes \in [Revision -> WriteRows] /\ tick \in [Ticks -> TickRows]
           /\ \A h \in Heads : jobs[h].findings \in Seq(Finding)
           /\ NumHeads \in Nat /\ Heads = 1 .. NumHeads
           /\ \A i \in DOMAIN rows : rows[i] \in CommentRows
           /\ DOMAIN rows = 1 .. Len(rows) /\ Len(rows) \in Nat
           /\ \A t \in Ticks : TickOK(t)
<1>1. /\ jobs \in [Heads -> JobRows] /\ rows \in Seq(CommentRows)
      /\ writes \in [Revision -> WriteRows] /\ tick \in [Ticks -> TickRows]
      /\ \A t \in Ticks : TickOK(t)
  BY DEF ReviewInv, ReviewTypeOK, JobRows, CommentRows, WriteRows, TickRows
<1>2. /\ NumHeads \in Nat /\ Reports \subseteq Seq(Finding)
  BY PrReviewAssumption DEF PrReviewAssumption
<1>3. \A h \in Heads : jobs[h].findings \in Seq(Finding)
  <2>1. <<>> \in Seq(Finding)
    BY EmptySeq
  <2> QED BY <1>1, <1>2, <2>1 DEF JobRows
<1>4. DOMAIN rows = 1 .. Len(rows) /\ Len(rows) \in Nat
  BY <1>1, LenProperties
<1>5. \A i \in DOMAIN rows : rows[i] \in CommentRows
  BY <1>1, <1>4, ElementOfSeq
<1> QED BY <1>1, <1>2, <1>3, <1>4, <1>5 DEF Heads

\* A tick that has a finding at hand.
Works(t) == tick[t].pc # "idle" /\ tick[t].next \in DOMAIN jobs[tick[t].head].findings

LEMMA WorksAt ==
    ASSUME ReviewInv, NEW t \in Ticks
    PROVE  /\ tick[t].pc \notin Unbound => Works(t)
           /\ tick[t].pc = "claim" /\ tick[t].next <= Len(LoadFindings(tick[t].head)) => Works(t)
<1>1. tick[t].pc \notin Unbound => Works(t)
  BY ReviewTypes DEF TickOK, Works, Unbound
<1>2. ASSUME tick[t].pc = "claim", tick[t].next <= Len(LoadFindings(tick[t].head)) PROVE Works(t)
  <2>1. tick[t].head \in Heads /\ tick[t].next \in Nat \ {0}
    BY <1>2, ReviewTypes DEF ReviewInv, WorkOK, TickRows
  <2>2. PICK f \in Seq(Finding) : f = jobs[tick[t].head].findings
    BY <2>1, ReviewTypes
  <2>3. DOMAIN f = 1 .. Len(f) /\ Len(f) \in Nat
    BY LenProperties
  <2> QED BY <1>2, <2>1, <2>2, <2>3 DEF Works, LoadFindings
<1> QED BY <1>1, <1>2

\* The finding of a tick.
LEMMA MyFinding ==
    ASSUME ReviewInv, NEW t \in Ticks, Works(t)
    PROVE  /\ Mine(t) \in Finding /\ Rev(t) \in Revision
           /\ Rev(t) = [gap |-> Mine(t).gap, head |-> tick[t].head, line |-> Mine(t).line]
           /\ tick[t].head \in Heads /\ tick[t].next \in DOMAIN jobs[tick[t].head].findings
           /\ Mine(t) = jobs[tick[t].head].findings[tick[t].next]
<1>1. tick[t].head \in Heads /\ tick[t].next \in DOMAIN jobs[tick[t].head].findings
  BY ReviewTypes DEF ReviewInv, WorkOK, Works
<1>2. jobs[tick[t].head].findings \in Seq(Finding)
  BY <1>1, ReviewTypes
<1>3. Mine(t) \in Finding /\ Mine(t) = jobs[tick[t].head].findings[tick[t].next]
  BY <1>1, <1>2, LenProperties, ElementOfSeq DEF Mine, LoadFindings
<1> QED BY <1>1, <1>3 DEF Rev, Revision, Finding

\* A step that changes no tick.
LEMMA TablesKeep ==
    ASSUME ReviewInv, TablesGo, UNCHANGED tick
    PROVE  ReviewInv'
<1>1. ReviewTypeOK /\ WorkOK /\ tick \in [Ticks -> TickRows] /\ \A t \in Ticks : TickOK(t)
  BY ReviewTypes DEF ReviewInv
<1>2. \A t \in Ticks : tick[t].pc # "idle" =>
         /\ tick[t].head \in Heads /\ tick[t].next # 0 /\ jobs[tick[t].head].state \in Worked
         /\ jobs'[tick[t].head].state \in Worked
         /\ jobs'[tick[t].head].findings = jobs[tick[t].head].findings
  BY <1>1 DEF WorkOK, Worked, TablesGo, JobsGo
<1>3. ASSUME NEW t \in Ticks PROVE TickOK(t)'
  <2>1. CASE tick[t].pc \in Unbound
    BY <2>1 DEF TickOK, Unclaimed
  <2>2. CASE tick[t].pc \notin Unbound
    <3>1. Mine(t)' = Mine(t)
      BY <1>2, <2>2 DEF Mine, LoadFindings, Unbound
    <3> QED BY <1>1, <1>2, <2>2, <3>1 DEF TickOK, TablesGo, RowsGo, Unbound
  <2> QED BY <2>1, <2>2
<1>4. ReviewTypeOK'
  BY <1>1, <1>3 DEF ReviewTypeOK, TablesGo, JobsGo, RowsGo, ProviderGo, RestGo, JobRows, CommentRows,
     WriteRows, TickRows
<1>5. WorkOK'
  BY <1>2 DEF WorkOK, TablesGo, JobsGo, Worked, Heads
<1> QED BY <1>4, <1>5 DEF ReviewInv

\* A step of one tick.
LEMMA TickKeeps ==
    ASSUME ReviewInv, TablesGo, NEW t \in Ticks, NEW local \in TickRows,
           tick' = [tick EXCEPT ![t] = local],
           local.pc # "idle" =>
              local.head \in Heads /\ local.next # 0 /\ jobs'[local.head].state \in Worked,
           local.pc \notin Unbound => local.next \in DOMAIN jobs'[local.head].findings,
           local.pc \notin Unclaimed =>
              /\ local.row \in DOMAIN rows'
              /\ rows'[local.row].rev.gap = jobs'[local.head].findings[local.next].gap
    PROVE  ReviewInv'
<1>1. ReviewTypeOK /\ WorkOK /\ tick \in [Ticks -> TickRows] /\ \A u \in Ticks : TickOK(u)
  BY ReviewTypes DEF ReviewInv
<1>0. /\ tick' \in [Ticks -> TickRows] /\ tick'[t] = local
      /\ \A u \in Ticks \ {t} : tick'[u] = tick[u]
  BY <1>1
<1>2. \A u \in Ticks \ {t} : tick[u].pc # "idle" =>
         /\ tick[u].head \in Heads /\ tick[u].next # 0 /\ jobs[tick[u].head].state \in Worked
         /\ jobs'[tick[u].head].state \in Worked
         /\ jobs'[tick[u].head].findings = jobs[tick[u].head].findings
  BY <1>1 DEF WorkOK, Worked, TablesGo, JobsGo
<1>3. ASSUME NEW u \in Ticks \ {t} PROVE TickOK(u)'
  <2>0. tick'[u] = tick[u]
    BY <1>0
  <2>1. CASE tick[u].pc \in Unbound
    BY <2>0, <2>1 DEF TickOK, Unclaimed
  <2>2. CASE tick[u].pc \notin Unbound
    <3>1. Mine(u)' = Mine(u)
      BY <1>2, <2>0, <2>2 DEF Mine, LoadFindings, Unbound
    <3> QED BY <1>1, <1>2, <2>0, <2>2, <3>1 DEF TickOK, TablesGo, RowsGo, Unbound
  <2> QED BY <2>1, <2>2
<1>4. TickOK(t)'
  BY <1>0 DEF TickOK, Mine, LoadFindings
<1>5. \A u \in Ticks : TickOK(u)'
  BY <1>3, <1>4
<1>6. ReviewTypeOK'
  BY <1>0, <1>1, <1>5 DEF ReviewTypeOK, TablesGo, JobsGo, RowsGo, ProviderGo, RestGo, JobRows,
     CommentRows, WriteRows, TickRows
<1>7. WorkOK'
  BY <1>0, <1>2 DEF WorkOK, TablesGo, JobsGo, Worked, Heads
<1> QED BY <1>6, <1>7 DEF ReviewInv

LEMMA NoChange ==
    ASSUME ReviewInv
    PROVE  /\ UNCHANGED <<jobs, pull>> => JobsGo
           /\ UNCHANGED rows => RowsGo
           /\ UNCHANGED provider => ProviderGo
           /\ UNCHANGED <<writes, recommendation, pull, hook, bounds>> => RestGo
<1>1. UNCHANGED <<jobs, pull>> => JobsGo
  BY ReviewTypes DEF JobsGo, ReviewInv, WorkOK
<1>2. UNCHANGED rows => RowsGo
  BY ReviewTypes DEF RowsGo
<1>3. UNCHANGED provider => ProviderGo
  BY DEF ProviderGo, provider, ReviewInv, ReviewTypeOK
<1>4. UNCHANGED <<writes, recommendation, pull, hook, bounds>> => RestGo
  BY DEF RestGo, bounds, ReviewInv, ReviewTypeOK, WriteRows
<1> QED BY <1>1, <1>2, <1>3, <1>4

\* A tick that goes on with its finding.
LEMMA GoesOn ==
    ASSUME ReviewInv, TablesGo, NEW t \in Ticks, Works(t),
           NEW local \in TickRows, tick' = [tick EXCEPT ![t] = local],
           local.pc \notin Unbound, local.head = tick[t].head, local.next = tick[t].next,
           local.pc \notin Unclaimed =>
              \/ tick[t].pc \notin Unclaimed /\ local.row = tick[t].row
              \/ local.row \in DOMAIN rows' /\ rows'[local.row].rev.gap = Mine(t).gap
    PROVE  ReviewInv'
<1>1. /\ tick[t].head \in Heads /\ tick[t].next # 0 /\ jobs[tick[t].head].state \in Worked
      /\ tick[t].next \in DOMAIN jobs[tick[t].head].findings
      /\ TickOK(t)
  BY MyFinding, ReviewTypes DEF ReviewInv, WorkOK, Worked, Works
<1>2. /\ jobs'[local.head].state \in Worked
      /\ jobs'[local.head].findings = jobs[tick[t].head].findings
  BY <1>1 DEF TablesGo, JobsGo
<1>3. Mine(t) = jobs'[local.head].findings[local.next]
  BY <1>2 DEF Mine, LoadFindings
<1>4. local.pc \notin Unclaimed => local.row \in DOMAIN rows' /\ rows'[local.row].rev.gap = Mine(t).gap
  BY <1>1 DEF TickOK, TablesGo, RowsGo
<1> QED BY <1>1, <1>2, <1>3, <1>4, TickKeeps

\* A tick that is done with its finding, or with its job.
LEMMA NextOne ==
    ASSUME ReviewInv, TablesGo, NEW t \in Ticks, tick[t].pc # "idle", NextFinding(t)
    PROVE  ReviewInv'
<1>1. /\ tick[t].head \in Heads /\ jobs[tick[t].head].state \in Worked /\ tick[t] \in TickRows
  BY ReviewTypes DEF ReviewInv, WorkOK, Worked
<1>2. jobs'[tick[t].head].state \in Worked
  BY <1>1 DEF TablesGo, JobsGo
<1> DEFINE local == AfterFinding(t)
<1>3. local \in TickRows /\ local.pc = "claim" /\ local.head = tick[t].head /\ local.next # 0
  BY <1>1 DEF AfterFinding, TickAt, TickRows, PC, NoComment
<1>4. tick' = [tick EXCEPT ![t] = local]
  BY DEF NextFinding
<1> HIDE DEF local
<1> QED BY <1>1, <1>2, <1>3, <1>4, TickKeeps DEF Unbound, Unclaimed

LEMMA Leaves ==
    ASSUME ReviewInv, TablesGo, NEW t \in Ticks, tick' = [tick EXCEPT ![t] = Idle]
    PROVE  ReviewInv'
<1>1. Idle \in TickRows /\ Idle.pc = "idle"
  BY DEF Idle, TickAt, TickRows, PC, NoComment
<1>2. PICK local \in TickRows : local = Idle
  BY <1>1
<1>3. local.pc = "idle" /\ tick' = [tick EXCEPT ![t] = local]
  BY <1>1, <1>2
<1> QED BY <1>3, TickKeeps DEF Unbound, Unclaimed

\* The end of a phase, by its owner or not.
LEMMA SettleGoes ==
    ASSUME ReviewInv, UNCHANGED pull, NEW t \in Ticks, tick[t].pc # "idle",
           NEW s \in Worked, Settle(t, s)
    PROVE  /\ JobsGo /\ tick' = [tick EXCEPT ![t] = Idle]
           /\ \A h \in Heads :
                 /\ jobs'[h].findings = jobs[h].findings
                 /\ jobs'[h].state = jobs[h].state \/ (jobs'[h].state = s /\ h = tick[t].head)
<1>1. PICK h \in Heads : h = tick[t].head
  BY DEF ReviewInv, WorkOK
<1>2. jobs[h].state \in Worked /\ jobs \in [Heads -> JobRows] /\ ~ h > pull.head
  BY <1>1, ReviewTypes DEF ReviewInv, WorkOK, Worked
<1> DEFINE new == IF jobs[h].owner = t THEN [jobs[h] EXCEPT !.state = s, !.owner = NoOne] ELSE jobs[h]
<1>3. jobs' = [jobs EXCEPT ![h] = new] /\ tick' = [tick EXCEPT ![t] = Idle]
  BY <1>1 DEF Settle
<1>4. new \in JobRows /\ new.findings = jobs[h].findings /\ new.state \in {jobs[h].state, s}
  BY <1>2 DEF JobRows, JobState, Worked
<1> HIDE DEF new
<1>5. /\ jobs' \in [Heads -> JobRows] /\ jobs'[h] = new
      /\ \A g \in Heads \ {h} : jobs'[g] = jobs[g]
  BY <1>2, <1>3, <1>4
<1>6. JobsGo
  BY <1>2, <1>4, <1>5 DEF JobsGo, ReviewInv, WorkOK, Worked
<1>7. ASSUME NEW g \in Heads
      PROVE  /\ jobs'[g].findings = jobs[g].findings
             /\ jobs'[g].state = jobs[g].state \/ (jobs'[g].state = s /\ g = tick[t].head)
  <2>1. CASE g = h
    BY <1>1, <1>4, <1>5, <2>1
  <2>2. CASE g # h
    BY <1>5, <2>2
  <2> QED BY <2>1, <2>2
<1> QED BY <1>3, <1>6, <1>7

LEMMA ThrowGoes ==
    ASSUME ReviewInv, UNCHANGED pull, NEW t \in Ticks, tick[t].pc # "idle", Throw(t)
    PROVE  /\ JobsGo /\ tick' = [tick EXCEPT ![t] = Idle]
           /\ \A h \in Heads :
                 /\ jobs'[h].findings = jobs[h].findings
                 /\ jobs'[h].state \in {jobs[h].state, "analyzed", "failed"}
<1>1. PICK s \in {"analyzed", "failed"} : Settle(t, s)
  BY DEF Throw
<1> QED BY <1>1, SettleGoes DEF Worked

\* A tick that goes on where it was.
LEMMA GoToKeeps ==
    ASSUME ReviewInv, TablesGo, NEW t \in Ticks, Works(t),
           NEW pc \in PC \ Unbound, Goto(t, pc),
           pc \notin Unclaimed => tick[t].pc \notin Unclaimed
    PROVE  ReviewInv'
<1>1. tick[t] \in TickRows
  BY ReviewTypes
<1> DEFINE local == [tick[t] EXCEPT !.pc = pc]
<1>2. /\ local \in TickRows /\ local.pc = pc /\ local.head = tick[t].head /\ local.next = tick[t].next
      /\ local.row = tick[t].row
  BY <1>1 DEF TickRows
<1>3. tick' = [tick EXCEPT ![t] = local]
  BY DEF Goto
<1> HIDE DEF local
<1> QED BY <1>2, <1>3, GoesOn

\* One row changes, and stays about its gap.
LEMMA RowEdit ==
    ASSUME ReviewInv, NEW i \in DOMAIN rows, NEW entry \in CommentRows,
           entry.rev.gap = rows[i].rev.gap, rows' = [rows EXCEPT ![i] = entry]
    PROVE  RowsGo
<1>1. rows \in Seq(CommentRows) /\ DOMAIN rows = 1 .. Len(rows)
  BY ReviewTypes
<1>2. rows' \in Seq(CommentRows) /\ DOMAIN rows' = DOMAIN rows
  BY <1>1, ExceptSeq
<1> QED BY <1>1, <1>2 DEF RowsGo

\* One audit row changes.
LEMMA WriteEdit ==
    ASSUME ReviewInv, NEW rev \in Revision, NEW w \in WriteRows,
           writes' = [writes EXCEPT ![rev] = w],
           UNCHANGED <<recommendation, pull, hook, bounds>>
    PROVE  RestGo
<1>1. writes' \in [Revision -> WriteRows]
  BY ReviewTypes
<1> QED BY <1>1 DEF RestGo, bounds, ReviewInv, ReviewTypeOK

\* A fault is counted.
LEMMA CountEdit ==
    ASSUME ReviewInv, UNCHANGED <<writes, recommendation, pull, hook>>,
           failures' \in {failures, failures + 1}, lostReads' \in {lostReads, lostReads + 1},
           providerFaults' \in {providerFaults, providerFaults + 1},
           closes' \in {closes, closes + 1}
    PROVE  RestGo
BY DEF RestGo, bounds, ReviewInv, ReviewTypeOK, WriteRows

-----------------------------------------------------------------------------
(* The review: its type, one step after the other.                         *)

LEMMA ReviewStarts == ReviewInit => ReviewInv
<1> SUFFICES ASSUME ReviewInit PROVE ReviewInv
  OBVIOUS
<1>1. 0 \in Nat /\ NumHeads \in Nat /\ <<>> \in Seq([rev : Revision, status : {"posted", "outdated"}, comment : Nat])
  BY PrReviewAssumption, EmptySeq DEF PrReviewAssumption
<1>2. \A t \in Ticks : tick[t] = Idle
  BY DEF ReviewInit
<1>3. /\ Idle \in [pc : PC, head : Heads \cup {0}, next : Nat, row : Nat, resumed : BOOLEAN,
                   comment : Nat, retryable : BOOLEAN]
      /\ Idle.pc = "idle"
  BY DEF Idle, TickAt, PC, NoComment
<1>4. \A t \in Ticks : TickOK(t)
  BY <1>2, <1>3 DEF TickOK, Unbound, Unclaimed
<1>5. tick \in [Ticks -> [pc : PC, head : Heads \cup {0}, next : Nat, row : Nat, resumed : BOOLEAN,
                          comment : Nat, retryable : BOOLEAN]]
  BY <1>3 DEF ReviewInit
<1>6. jobs \in [Heads -> [state : JobState, owner : Ticks \cup {NoOne}, attempt : Nat,
                          findings : {<<>>} \cup Reports]]
  BY <1>1 DEF ReviewInit, JobState
<1>7. writes \in [Revision -> [state : WriteState, comment : Nat]]
  BY <1>1 DEF ReviewInit, WriteState, NoComment
<1>8. pull \in [open : BOOLEAN, head : 0 .. NumHeads]
  BY <1>1 DEF ReviewInit
<1>9. ReviewTypeOK
  BY <1>1, <1>4, <1>5, <1>6, <1>7, <1>8 DEF ReviewInit, ReviewTypeOK, NoReview
<1>10. WorkOK
  BY <1>2, <1>3 DEF WorkOK, ReviewInit
<1> QED BY <1>9, <1>10 DEF ReviewInv

LEMMA PushTyped ==
    ASSUME ReviewInv, Push PROVE ReviewInv'
<1>1. /\ pull \in [open : BOOLEAN, head : 0 .. NumHeads] /\ jobs \in [Heads -> JobRows]
      /\ NumHeads \in Nat /\ Heads = 1 .. NumHeads
  BY ReviewTypes DEF ReviewInv, ReviewTypeOK
<1>2. PICK g \in Heads : g = pull.head + 1
  BY <1>1 DEF Push
<1>3. /\ pull' = [pull EXCEPT !.head = g] /\ jobs' = [jobs EXCEPT ![g].state = "queued"]
      /\ UNCHANGED <<reviewTables, provider, tick, hook, bounds>>
  BY <1>2 DEF Push
<1>4. jobs[g].state = "absent"
  BY <1>1, <1>2 DEF ReviewInv, WorkOK
<1>5. jobs[g] \in JobRows
  BY <1>1
<1>6. /\ [jobs[g] EXCEPT !.state = "queued"] \in JobRows
      /\ [jobs[g] EXCEPT !.state = "queued"].state = "queued"
  BY <1>5 DEF JobRows, JobState
<1>7. /\ jobs' \in [Heads -> JobRows] /\ jobs'[g].state = "queued"
      /\ \A h \in Heads \ {g} : jobs'[h] = jobs[h]
  BY <1>1, <1>3, <1>6
<1>8. pull' \in [open : BOOLEAN, head : 0 .. NumHeads] /\ pull'.head = g
  BY <1>1, <1>3
<1>9. JobsGo
  <2>1. ASSUME NEW h \in Heads, jobs[h].state \in Worked
        PROVE  jobs'[h].state \in Worked /\ jobs'[h].findings = jobs[h].findings
    BY <1>4, <1>7, <2>1 DEF Worked
  <2>2. ASSUME NEW h \in Heads, h > pull'.head PROVE jobs'[h].state = "absent"
    <3>1. h # g /\ h > pull.head
      BY <1>1, <1>2, <1>8, <2>2
    <3> QED BY <1>7, <3>1 DEF ReviewInv, WorkOK
  <2> QED BY <1>7, <2>1, <2>2 DEF JobsGo
<1>10. RowsGo /\ ProviderGo
  BY <1>3, NoChange DEF reviewTables
<1>11. RestGo
  BY <1>3, <1>8 DEF RestGo, reviewTables, bounds, ReviewInv, ReviewTypeOK, WriteRows
<1> QED BY <1>3, <1>9, <1>10, <1>11, TablesKeep DEF TablesGo

LEMMA PullTyped ==
    ASSUME ReviewInv, ClosePr \/ ReopenPr PROVE ReviewInv'
<1>1. pull \in [open : BOOLEAN, head : 0 .. NumHeads]
  BY DEF ReviewInv, ReviewTypeOK
<1>2. /\ pull' \in [open : BOOLEAN, head : 0 .. NumHeads] /\ pull'.head = pull.head
      /\ UNCHANGED <<jobs, reviewTables, provider, tick>>
  BY <1>1 DEF ClosePr, ReopenPr
<1>3. JobsGo
  BY <1>2, ReviewTypes DEF JobsGo, ReviewInv, WorkOK
<1>4. RowsGo /\ ProviderGo
  BY <1>2, NoChange DEF reviewTables
<1>5. RestGo
  BY <1>2 DEF RestGo, reviewTables, bounds, ReviewInv, ReviewTypeOK, WriteRows, ClosePr, ReopenPr
<1> QED BY <1>2, <1>3, <1>4, <1>5, TablesKeep DEF TablesGo

LEMMA HookTyped ==
    ASSUME ReviewInv, OutdateComments \/ OutdateRecommendation \/ ReactivateRecommendation
    PROVE  ReviewInv'
<1>1. UNCHANGED <<jobs, writes, provider, tick, pull, bounds>>
  BY DEF OutdateComments, OutdateRecommendation, ReactivateRecommendation
<1>2. JobsGo /\ ProviderGo
  BY <1>1, NoChange
<1>3. RestGo
  BY <1>1 DEF RestGo, bounds, ReviewInv, ReviewTypeOK, WriteRows, OutdateComments,
     OutdateRecommendation, ReactivateRecommendation
<1>4. RowsGo
  <2>1. CASE UNCHANGED rows
    BY <2>1, NoChange
  <2>2. CASE rows' = [i \in DOMAIN rows |-> [rows[i] EXCEPT !.status = "outdated"]]
    <3>1. /\ DOMAIN rows = 1 .. Len(rows) /\ Len(rows) \in Nat
          /\ \A i \in DOMAIN rows : rows[i] \in CommentRows
      BY ReviewTypes
    <3>2. /\ DOMAIN rows' = 1 .. Len(rows)
          /\ \A i \in DOMAIN rows : rows'[i] \in CommentRows /\ rows'[i].rev = rows[i].rev
      BY <2>2, <3>1 DEF CommentRows
    <3>3. rows' \in Seq(CommentRows)
      BY <2>2, <3>1, <3>2, IsASeq
    <3> QED BY <3>1, <3>2, <3>3 DEF RowsGo
  <2> QED BY <2>1, <2>2 DEF OutdateComments, OutdateRecommendation, ReactivateRecommendation
<1> QED BY <1>1, <1>2, <1>3, <1>4, TablesKeep DEF TablesGo

LEMMA JobTyped ==
    ASSUME ReviewInv, NEW h \in Heads, FetchDiff(h) \/ Analyze(h) PROVE ReviewInv'
<1>1. jobs \in [Heads -> JobRows] /\ jobs[h] \in JobRows
  BY ReviewTypes
<1>2. UNCHANGED <<reviewTables, provider, tick, pull, hook, bounds>>
  BY DEF FetchDiff, Analyze
<1>3. PICK entry \in JobRows : jobs' = [jobs EXCEPT ![h] = entry] /\ entry.state # "absent"
  <2>1. CASE FetchDiff(h)
    <3>1. PICK s \in {"superseded", "fetched"} : jobs' = [jobs EXCEPT ![h].state = s]
      BY <2>1 DEF FetchDiff, SaveDiff
    <3>2. [jobs[h] EXCEPT !.state = s] \in JobRows /\ [jobs[h] EXCEPT !.state = s].state = s
      BY <1>1 DEF JobRows, JobState
    <3> QED BY <1>1, <3>1, <3>2
  <2>2. CASE Analyze(h)
    <3>1. PICK r \in {<<>>} \cup Reports :
             jobs' = [jobs EXCEPT ![h] = [@ EXCEPT !.state = "analyzed", !.findings = r]]
      BY <2>2 DEF Analyze, AnalysisResults, SaveFindings
    <3> DEFINE entry == [jobs[h] EXCEPT !.state = "analyzed", !.findings = r]
    <3>2. entry \in JobRows /\ entry.state = "analyzed"
      BY <1>1 DEF JobRows, JobState
    <3>3. jobs' = [jobs EXCEPT ![h] = entry]
      BY <1>1, <3>1
    <3> HIDE DEF entry
    <3> QED BY <3>2, <3>3
  <2> QED BY <2>1, <2>2
<1>4. jobs[h].state \notin Worked /\ jobs[h].state # "absent"
  BY DEF FetchDiff, Analyze, Worked
<1>5. jobs' \in [Heads -> JobRows] /\ \A g \in Heads \ {h} : jobs'[g] = jobs[g]
  BY <1>1, <1>3
<1>6. JobsGo
  BY <1>2, <1>4, <1>5, ReviewTypes DEF JobsGo, ReviewInv, WorkOK
<1> QED BY <1>2, <1>6, NoChange, TablesKeep DEF TablesGo, reviewTables

LEMMA StartTyped ==
    ASSUME ReviewInv, NEW t \in Ticks, NEW h \in Heads, StartCompose(t, h) PROVE ReviewInv'
<1>1. jobs \in [Heads -> JobRows] /\ jobs[h] \in JobRows
  BY ReviewTypes
<1>2. UNCHANGED <<reviewTables, provider, pull, hook, bounds>> /\ jobs[h].state = "analyzed"
  BY DEF StartCompose
<1> DEFINE entry == [jobs[h] EXCEPT !.owner = t, !.attempt = jobs[h].attempt + 1]
<1>3. /\ entry \in JobRows /\ entry.state = "analyzed" /\ entry.findings = jobs[h].findings
      /\ jobs' = [jobs EXCEPT ![h] = entry]
  BY <1>1, <1>2 DEF JobRows, StartCompose
<1> HIDE DEF entry
<1>4. /\ jobs' \in [Heads -> JobRows] /\ jobs'[h] = entry
      /\ \A g \in Heads \ {h} : jobs'[g] = jobs[g]
  BY <1>1, <1>3
<1>5. JobsGo
  BY <1>2, <1>3, <1>4 DEF JobsGo, ReviewInv, WorkOK, Worked
<1>6. TablesGo
  BY <1>2, <1>5, NoChange DEF TablesGo, reviewTables
<1>7. PICK pc \in {"claim", "recommend"} : tick' = [tick EXCEPT ![t] = TickAt(pc, h, 1)]
  BY DEF StartCompose
<1>8. PICK local \in TickRows : local = TickAt(pc, h, 1)
  BY DEF TickAt, TickRows, PC, NoComment
<1>9. local.pc \in Unbound /\ local.pc \in Unclaimed /\ local.head = h /\ local.next = 1
  BY <1>8 DEF TickAt, Unbound, Unclaimed
<1>10. /\ jobs'[local.head].state \in Worked /\ local.next # 0 /\ local.head \in Heads
       /\ tick' = [tick EXCEPT ![t] = local]
  BY <1>3, <1>4, <1>7, <1>8, <1>9 DEF Worked
<1> QED BY <1>6, <1>9, <1>10, TickKeeps

LEMMA RecommendTyped ==
    ASSUME ReviewInv, NEW t \in Ticks, UpsertRecommendation(t) PROVE ReviewInv'
<1>1. UNCHANGED <<jobs, rows, writes, provider, pull, hook, bounds>> /\ recommendation' = "active"
  BY DEF UpsertRecommendation
<1>2. JobsGo /\ RowsGo /\ ProviderGo
  BY <1>1, NoChange
<1>3. RestGo
  BY <1>1 DEF RestGo, bounds, ReviewInv, ReviewTypeOK, WriteRows
<1>4. tick[t] \in TickRows /\ tick[t].head \in Heads /\ tick[t].next # 0
      /\ jobs[tick[t].head].state \in Worked
  BY ReviewTypes DEF UpsertRecommendation, ReviewInv, WorkOK, Worked
<1> DEFINE local == [tick[t] EXCEPT !.pc = "claim"]
<1>5. /\ local \in TickRows /\ local.pc = "claim" /\ local.head = tick[t].head /\ local.next = tick[t].next
      /\ tick' = [tick EXCEPT ![t] = local]
  BY <1>4 DEF TickRows, PC, UpsertRecommendation, Goto
<1> HIDE DEF local
<1> QED BY <1>1, <1>2, <1>3, <1>4, <1>5, TickKeeps DEF TablesGo, Unbound, Unclaimed

LEMMA ClaimTyped ==
    ASSUME ReviewInv, NEW t \in Ticks, Claim(t)
    PROVE  /\ ReviewInv' /\ Rev(t) \in Revision
           /\ rows'[Len(rows) + 1] = [rev |-> Rev(t), status |-> "posted", comment |-> NoComment]
           /\ Len(rows') = Len(rows) + 1 /\ DOMAIN rows' = 1 .. Len(rows) + 1
           /\ \A i \in DOMAIN rows : rows'[i] = rows[i]
<1>1. Works(t) /\ Rev(t) \in Revision /\ Rev(t).gap = Mine(t).gap
  BY WorksAt, MyFinding DEF Claim, Rev
<1> DEFINE entry == [rev |-> Rev(t), status |-> "posted", comment |-> NoComment]
<1>2. entry \in CommentRows /\ entry.rev.gap = Mine(t).gap
  BY <1>1 DEF CommentRows, NoComment
<1>3. rows \in Seq(CommentRows) /\ DOMAIN rows = 1 .. Len(rows) /\ Len(rows) \in Nat /\ rows' = Append(rows, entry)
  BY ReviewTypes DEF Claim
<1>4. /\ rows' \in Seq(CommentRows) /\ Len(rows') = Len(rows) + 1 /\ rows'[Len(rows) + 1] = entry
      /\ \A i \in 1 .. Len(rows) : rows'[i] = rows[i]
  <2> HIDE DEF entry
  <2> QED BY <1>2, <1>3, AppendProperties
<1>5. DOMAIN rows' = 1 .. Len(rows) + 1
  BY <1>4, LenProperties
<1>6. RowsGo
  BY <1>3, <1>4, <1>5 DEF RowsGo
<1>7. TablesGo
  BY <1>6, NoChange DEF TablesGo, Claim
<1>8. tick[t] \in TickRows
  BY ReviewTypes
<1> DEFINE local == [tick[t] EXCEPT !.pc = "lookup", !.row = Len(rows) + 1]
<1>9. /\ local \in TickRows /\ local.pc = "lookup" /\ local.head = tick[t].head /\ local.next = tick[t].next
      /\ local.row = Len(rows) + 1
  <2>1. Len(rows) + 1 \in Nat
    BY <1>3
  <2> HIDE DEF entry
  <2> QED BY <1>8, <2>1 DEF TickRows, PC
<1>10. tick' = [tick EXCEPT ![t] = local]
  BY DEF Claim, NewRow
<1>11. local.row \in DOMAIN rows' /\ rows'[local.row].rev.gap = Mine(t).gap
  BY <1>2, <1>3, <1>4, <1>5, <1>9
<1>12. ReviewInv'
  <2> HIDE DEF local, entry
  <2> QED BY <1>1, <1>7, <1>9, <1>10, <1>11, GoesOn DEF Unbound
<1> QED BY <1>1, <1>3, <1>4, <1>5, <1>12

\* The steps that write nothing but their own tick.
LEMMA SelectTyped ==
    ASSUME ReviewInv, NEW t \in Ticks,
           ClaimConflicts(t) \/ FindSameRevision(t) \/ FindPosted(t) \/ SelectUnanswered(t)
    PROVE  ReviewInv'
<1>1. Works(t) /\ tick[t] \in TickRows
  BY WorksAt, ReviewTypes DEF ClaimConflicts, FindSameRevision, FindPosted, SelectUnanswered, Unbound
<1>2. UNCHANGED <<jobs, reviewTables, provider, pull, hook, failures, providerFaults, closes>>
      /\ lostReads' \in {lostReads, lostReads + 1}
  BY DEF ClaimConflicts, FindSameRevision, FindPosted, SelectUnanswered, bounds
<1>3. TablesGo
  BY <1>2, NoChange, CountEdit DEF TablesGo, reviewTables
<1>4. \A pc \in {"sameRevision", "posted", "skip"} : pc \in PC \ Unbound /\ pc \in Unclaimed
  BY DEF PC, Unbound, Unclaimed
<1>5. ASSUME NEW pc \in {"sameRevision", "posted", "skip"}, Goto(t, pc) PROVE ReviewInv'
  BY <1>1, <1>3, <1>4, <1>5, GoToKeeps
<1>6. ASSUME NEW i \in DOMAIN rows, NEW pc \in {"lookup", "refresh"}, NEW b \in BOOLEAN,
             rows[i].rev.gap = Mine(t).gap,
             tick' = [tick EXCEPT ![t] = [tick[t] EXCEPT !.pc = pc, !.row = i, !.resumed = b]]
      PROVE  ReviewInv'
  <2> DEFINE local == [tick[t] EXCEPT !.pc = pc, !.row = i, !.resumed = b]
  <2>1. i \in Nat /\ i \in DOMAIN rows' /\ rows'[i] = rows[i]
    BY <1>2, ReviewTypes DEF reviewTables
  <2>2. /\ local \in TickRows /\ local.pc \notin Unbound /\ local.row = i
        /\ local.head = tick[t].head /\ local.next = tick[t].next
    BY <1>1, <2>1 DEF TickRows, PC, Unbound
  <2>3. tick' = [tick EXCEPT ![t] = local]
    BY <1>6
  <2> HIDE DEF local
  <2> QED BY <1>1, <1>3, <1>6, <2>1, <2>2, <2>3, GoesOn
<1>7. CASE ClaimConflicts(t)
  BY <1>5, <1>7 DEF ClaimConflicts
<1>8. CASE FindSameRevision(t)
  <2>1. CASE NextFinding(t)
    BY <1>1, <1>3, <2>1, NextOne DEF Works
  <2>2. CASE Goto(t, "posted")
    BY <1>5, <2>2
  <2>3. CASE \E i \in SameRevision(Rev(t)) :
                tick' = [tick EXCEPT ![t].pc = "lookup", ![t].row = i, ![t].resumed = TRUE]
    <3>1. PICK i \in SameRevision(Rev(t)) :
             tick' = [tick EXCEPT ![t].pc = "lookup", ![t].row = i, ![t].resumed = TRUE]
      BY <2>3
    <3>2. i \in DOMAIN rows /\ rows[i].rev.gap = Mine(t).gap
      BY DEF SameRevision, Rev
    <3>3. tick' = [tick EXCEPT ![t] = [tick[t] EXCEPT !.pc = "lookup", !.row = i, !.resumed = TRUE]]
      BY <3>1
    <3> QED BY <1>6, <3>2, <3>3
  <2> QED BY <1>8, <2>1, <2>2, <2>3 DEF FindSameRevision
<1>9. CASE FindPosted(t)
  <2>1. CASE Goto(t, "skip")
    BY <1>5, <2>1
  <2>2. CASE \E i \in PostedRows(Mine(t).gap) : tick' = [tick EXCEPT ![t].pc = "refresh", ![t].row = i]
    <3>1. PICK i \in PostedRows(Mine(t).gap) : tick' = [tick EXCEPT ![t].pc = "refresh", ![t].row = i]
      BY <2>2
    <3>2. i \in DOMAIN rows /\ rows[i].rev.gap = Mine(t).gap
      BY DEF PostedRows
    <3>3. PICK b \in BOOLEAN : b = tick[t].resumed
      BY <1>1 DEF TickRows
    <3>4. tick' = [tick EXCEPT ![t] = [tick[t] EXCEPT !.pc = "refresh", !.row = i, !.resumed = b]]
      BY <1>1, <3>1, <3>3 DEF TickRows
    <3> QED BY <1>6, <3>2, <3>4
  <2> QED BY <1>9, <2>1, <2>2 DEF FindPosted
<1>10. CASE SelectUnanswered(t)
  BY <1>5, <1>10 DEF SelectUnanswered
<1> QED BY <1>7, <1>8, <1>9, <1>10

LEMMA RefreshTyped ==
    ASSUME ReviewInv, NEW t \in Ticks, RefreshPlacement(t) PROVE ReviewInv'
<1>1. /\ Works(t) /\ tick[t].pc = "refresh" /\ Rev(t) \in Revision /\ Rev(t).gap = Mine(t).gap
      /\ tick[t].row \in DOMAIN rows /\ rows[tick[t].row].rev.gap = Mine(t).gap
  BY WorksAt, ReviewTypes, MyFinding DEF RefreshPlacement, Unbound, Unclaimed, TickOK
<1>2. UNCHANGED <<writes, recommendation, provider, pull, hook, bounds>>
  BY DEF RefreshPlacement
<1>3. CASE Throw(t) /\ UNCHANGED rows
  BY <1>1, <1>2, <1>3, ThrowGoes, NoChange, Leaves DEF TablesGo
<1>4. CASE /\ rows' = [rows EXCEPT ![tick[t].row].rev = Rev(t)]
           /\ Goto(t, "skip")
           /\ UNCHANGED jobs
  <2>1. PICK i \in DOMAIN rows : i = tick[t].row
    BY <1>1
  <2>2. rows[i] \in CommentRows
    BY ReviewTypes
  <2> DEFINE entry == [rows[i] EXCEPT !.rev = Rev(t)]
  <2>3. entry \in CommentRows /\ entry.rev.gap = rows[i].rev.gap
    BY <1>1, <2>1, <2>2 DEF CommentRows
  <2>4. rows' = [rows EXCEPT ![i] = entry]
    BY <1>4, <2>1
  <2> HIDE DEF entry
  <2>5. RowsGo
    BY <2>3, <2>4, RowEdit
  <2>6. TablesGo
    BY <1>2, <1>4, <2>5, NoChange DEF TablesGo
  <2> QED BY <1>1, <1>4, <2>6, GoToKeeps DEF PC, Unbound, Unclaimed
<1> QED BY <1>3, <1>4 DEF RefreshPlacement

\* The audit rows.
LEMMA InsertedRows ==
    ASSUME ReviewInv, NEW rev \in Revision, NEW s \in WriteState,
           writes' = Inserted(rev, s), UNCHANGED <<recommendation, pull, hook, bounds>>
    PROVE  /\ RestGo /\ writes' \in [Revision -> WriteRows]
           /\ \A r \in Revision : writes'[r] =
                 IF r = rev /\ writes[r].state = "absent"
                 THEN [state |-> s, comment |-> NoComment] ELSE writes[r]
<1>1. writes \in [Revision -> WriteRows] /\ [state |-> s, comment |-> NoComment] \in WriteRows
  BY ReviewTypes DEF WriteRows, NoComment
<1>2. PICK w \in WriteRows : w = IF writes[rev].state = "absent"
                                 THEN [state |-> s, comment |-> NoComment] ELSE writes[rev]
  BY <1>1
<1>3. writes' = [writes EXCEPT ![rev] = w]
  BY <1>2 DEF Inserted
<1>4. RestGo
  BY <1>3, WriteEdit
<1> QED BY <1>1, <1>2, <1>3, <1>4

LEMMA AuditTyped ==
    ASSUME ReviewInv, NEW t \in Ticks,
           RecordSkippedWrite(t) \/ InsertExternalWrite(t) \/ MarkFailed(t) \/ MarkSucceeded(t)
    PROVE  ReviewInv'
<1>1. Works(t) /\ tick[t] \in TickRows /\ tick[t].pc \notin Unbound
  BY WorksAt, ReviewTypes DEF RecordSkippedWrite, InsertExternalWrite, MarkFailed, MarkSucceeded, Unbound
<1>2. UNCHANGED <<jobs, rows, recommendation, provider, pull, hook, bounds>> /\ Rev(t) \in Revision
  BY <1>1, MyFinding DEF RecordSkippedWrite, InsertExternalWrite, MarkFailed, MarkSucceeded
<1>3. PICK rev \in Revision : rev = Rev(t)
  BY <1>2
<1>4. RestGo => TablesGo
  BY <1>2, NoChange DEF TablesGo
<1>5. CASE RecordSkippedWrite(t)
  BY <1>1, <1>2, <1>4, <1>5, InsertedRows, NextOne DEF RecordSkippedWrite, Works, WriteState
<1>6. ASSUME NEW pc \in {"create", "succeed", "release", "finalize"}, Goto(t, pc), RestGo,
             tick[t].pc \notin Unclaimed
      PROVE  ReviewInv'
  BY <1>1, <1>4, <1>6, GoToKeeps DEF PC, Unbound
<1>7. CASE InsertExternalWrite(t)
  BY <1>2, <1>6, <1>7, InsertedRows DEF InsertExternalWrite, WriteState, Unclaimed, Unbound
<1>8. CASE MarkFailed(t)
  <2>1. writes[rev] \in WriteRows
    BY ReviewTypes
  <2>2. /\ [writes[rev] EXCEPT !.state = "failed"] \in WriteRows
        /\ writes' = [writes EXCEPT ![rev] = [writes[rev] EXCEPT !.state = "failed"]]
    BY <1>3, <1>8, <2>1 DEF MarkFailed, WriteRows, WriteState
  <2>3. RestGo
    BY <1>2, <2>2, WriteEdit
  <2> QED BY <1>6, <1>8, <2>3 DEF MarkFailed, Unclaimed, Unbound
<1>9. CASE MarkSucceeded(t)
  <2>1. [state |-> "succeeded", comment |-> tick[t].comment] \in WriteRows
    BY <1>1 DEF WriteRows, WriteState, TickRows
  <2>2. RestGo
    BY <1>2, <1>3, <1>9, <2>1, WriteEdit DEF MarkSucceeded
  <2> QED BY <1>6, <1>9, <2>2 DEF MarkSucceeded, Unclaimed, Unbound
<1> QED BY <1>5, <1>7, <1>8, <1>9

\* A tick that goes on with another comment, or another word on retrying.
LEMMA GoesWith ==
    ASSUME ReviewInv, TablesGo, NEW t \in Ticks, Works(t), tick[t].pc \notin Unclaimed,
           NEW pc \in PC \ Unbound, NEW c \in Nat, NEW b \in BOOLEAN,
           tick' = [tick EXCEPT ![t] = [tick[t] EXCEPT !.pc = pc, !.comment = c, !.retryable = b]]
    PROVE  ReviewInv'
<1>1. tick[t] \in TickRows
  BY ReviewTypes
<1> DEFINE local == [tick[t] EXCEPT !.pc = pc, !.comment = c, !.retryable = b]
<1>2. /\ local \in TickRows /\ local.pc = pc /\ local.head = tick[t].head /\ local.next = tick[t].next
      /\ local.row = tick[t].row
  BY <1>1 DEF TickRows
<1>3. tick' = [tick EXCEPT ![t] = local]
  OBVIOUS
<1> HIDE DEF local
<1> QED BY <1>2, <1>3, GoesOn

LEMMA LookupTyped ==
    ASSUME ReviewInv, NEW t \in Ticks,
           \/ FindExternalWrite(t) \/ FindExistingComment(t) \/ FindExistingRefused(t)
           \/ FindExistingThrows(t)
    PROVE  ReviewInv'
<1>1. /\ Works(t) /\ tick[t] \in TickRows /\ tick[t].pc \notin Unclaimed
  BY WorksAt, ReviewTypes DEF FindExternalWrite, FindExistingComment, FindExistingRefused,
     FindExistingThrows, Unbound, Unclaimed
<1>2. UNCHANGED <<reviewTables, provider, pull, hook, failures, closes>>
      /\ lostReads' \in {lostReads, lostReads + 1} /\ providerFaults' \in {providerFaults, providerFaults + 1}
  BY DEF FindExternalWrite, FindExistingComment, FindExistingRefused, FindExistingThrows, bounds
<1>3. RowsGo /\ ProviderGo /\ RestGo
  BY <1>2, NoChange, CountEdit DEF reviewTables
<1>4. UNCHANGED jobs => TablesGo
  BY <1>2, <1>3, NoChange DEF TablesGo
<1>5. {"reconcile", "plan", "finalize"} \subseteq PC \ Unbound
  BY DEF PC, Unbound
<1>6. ASSUME NEW pc \in {"reconcile", "plan", "finalize"}, Goto(t, pc), UNCHANGED jobs PROVE ReviewInv'
  BY <1>1, <1>4, <1>5, <1>6, GoToKeeps
<1>7. ASSUME NEW pc \in {"reconcile", "plan", "finalize"}, NEW c \in Nat, UNCHANGED jobs,
             tick' = [tick EXCEPT ![t].pc = pc, ![t].comment = c]
      PROVE  ReviewInv'
  <2>1. PICK b \in BOOLEAN : b = tick[t].retryable
    BY <1>1 DEF TickRows
  <2>2. tick' = [tick EXCEPT ![t] = [tick[t] EXCEPT !.pc = pc, !.comment = c, !.retryable = b]]
    BY <1>1, <1>7, <2>1 DEF TickRows
  <2>3. pc \in PC \ Unbound
    BY <1>5
  <2>4. TablesGo
    BY <1>4, <1>7
  <2> QED BY <1>1, <2>2, <2>3, <2>4, GoesWith
<1>8. CASE FindExternalWrite(t)
  <2>1. writes[Rev(t)].comment \in Nat
    BY <1>1, MyFinding, ReviewTypes DEF WriteRows
  <2> QED BY <1>6, <1>7, <1>8, <2>1 DEF FindExternalWrite
<1>9. CASE FindExistingComment(t)
  <2>1. \A c \in MarkerComments(Mine(t)) : c.id \in Nat
    BY DEF MarkerComments, ReviewInv, ReviewTypeOK, Comment
  <2> QED BY <1>6, <1>7, <1>9, <2>1 DEF FindExistingComment
<1>10. CASE FindExistingRefused(t)
  BY <1>6, <1>10 DEF FindExistingRefused
<1>11. CASE FindExistingThrows(t)
  BY <1>1, <1>2, <1>3, <1>11, ThrowGoes, Leaves DEF FindExistingThrows, TablesGo, Works
<1> QED BY <1>8, <1>9, <1>10, <1>11

LEMMA RowTyped ==
    ASSUME ReviewInv, NEW t \in Ticks, OutdateComment(t) \/ FinalizeComment(t) PROVE ReviewInv'
<1>1. /\ Works(t) /\ tick[t] \in TickRows
      /\ tick[t].row \in DOMAIN rows
  BY WorksAt, ReviewTypes DEF OutdateComment, FinalizeComment, Unbound, Unclaimed, TickOK
<1>2. PICK i \in DOMAIN rows : i = tick[t].row
  BY <1>1
<1>3. rows[i] \in CommentRows /\ tick[t].comment \in Nat
  BY <1>1, ReviewTypes DEF TickRows
<1>4. PICK entry \in CommentRows : entry.rev = rows[i].rev /\ rows' = [rows EXCEPT ![i] = entry]
  <2>1. CASE OutdateComment(t)
    <3>1. /\ [rows[i] EXCEPT !.status = "outdated"] \in CommentRows
          /\ [rows[i] EXCEPT !.status = "outdated"].rev = rows[i].rev
      BY <1>3 DEF CommentRows
    <3> QED BY <1>2, <2>1, <3>1 DEF OutdateComment
  <2>2. CASE FinalizeComment(t)
    <3>1. /\ [rows[i] EXCEPT !.comment = tick[t].comment] \in CommentRows
          /\ [rows[i] EXCEPT !.comment = tick[t].comment].rev = rows[i].rev
      BY <1>3 DEF CommentRows
    <3> QED BY <1>2, <2>2, <3>1 DEF FinalizeComment
  <2> QED BY <2>1, <2>2
<1>5. RowsGo
  BY <1>4, RowEdit
<1>6. UNCHANGED <<writes, recommendation, provider, pull, hook, bounds>>
  BY DEF OutdateComment, FinalizeComment
<1>7. CASE NextFinding(t) /\ UNCHANGED jobs
  BY <1>1, <1>5, <1>6, <1>7, NoChange, NextOne DEF TablesGo, Works
<1>8. CASE Throw(t)
  BY <1>1, <1>5, <1>6, <1>8, NoChange, ThrowGoes, Leaves DEF TablesGo, Works
<1> QED BY <1>7, <1>8 DEF OutdateComment, FinalizeComment

\* What GitHub keeps.
LEMMA AppliedTyped ==
    ASSUME ReviewInv, NEW t \in Ticks, Works(t), Applied(t) PROVE ProviderGo
<1>1. published \subseteq Comment /\ added \in Nat /\ pending.comments \subseteq Comment
  BY DEF ReviewInv, ReviewTypeOK
<1>2. Mine(t) \in Finding /\ added + 1 \in Nat
  BY <1>1, MyFinding
<1>3. WithComment(t) \subseteq Comment
  BY <1>1, <1>2 DEF WithComment, Comment, Finding
<1>4. pending \in [open : BOOLEAN, comments : SUBSET Comment]
  BY DEF ReviewInv, ReviewTypeOK
<1>5. CASE pending' = EmptyReview /\ UNCHANGED <<published, added>>
  BY <1>1, <1>5 DEF ProviderGo, EmptyReview
<1>6. CASE pending.open /\ pending' = [pending EXCEPT !.comments = WithComment(t)]
           /\ added' = added + 1 /\ UNCHANGED published
  BY <1>1, <1>2, <1>3, <1>4, <1>6, NoChange DEF ProviderGo
<1>7. CASE published' = published \cup pending.comments /\ pending' = NoReview /\ UNCHANGED added
  BY <1>1, <1>7 DEF ProviderGo, NoReview
<1> QED BY <1>5, <1>6, <1>7 DEF Applied, AddsTo

LEMMA ProviderTyped ==
    ASSUME ReviewInv, NEW t \in Ticks,
           \/ CreateReview(t) \/ DeletePending(t) \/ AddComment(t) \/ SubmitReview(t)
           \/ CallFails(t)
    PROVE  ReviewInv'
<1>1. /\ Works(t) /\ tick[t] \in TickRows /\ tick[t].pc \notin Unclaimed
  BY WorksAt, ReviewTypes DEF CreateReview, DeletePending, AddComment, SubmitReview, CallFails,
     Unbound, Unclaimed
<1>2. UNCHANGED <<jobs, reviewTables, pull, hook, failures, lostReads, closes>>
      /\ providerFaults' \in {providerFaults, providerFaults + 1}
  BY DEF CreateReview, DeletePending, AddComment, SubmitReview, CallFails, bounds
<1>3. ProviderGo
  <2>1. CASE Applied(t)
    BY <1>1, <2>1, AppliedTyped
  <2>2. CASE UNCHANGED provider
    BY <2>2, NoChange
  <2>3. CASE DeletePending(t)
    <3>1. UNCHANGED <<published, added>> /\ (pending' = NoReview \/ UNCHANGED pending)
      BY <2>3 DEF DeletePending
    <3>2. NoReview \in [open : BOOLEAN, comments : SUBSET Comment]
      BY DEF NoReview
    <3> QED BY <3>1, <3>2 DEF ProviderGo, ReviewInv, ReviewTypeOK
  <2> QED BY <2>1, <2>2, <2>3 DEF CreateReview, AddComment, SubmitReview, CallFails
<1>4. TablesGo
  BY <1>2, <1>3, NoChange, CountEdit DEF TablesGo, reviewTables
<1>5. {"clear", "recreate", "add", "undo", "submit", "fail", "succeed"} \subseteq PC \ Unbound
  BY DEF PC, Unbound
<1>6. ASSUME NEW pc \in {"clear", "recreate", "add", "undo", "submit", "fail", "succeed"}, Goto(t, pc)
      PROVE  ReviewInv'
  BY <1>1, <1>4, <1>5, <1>6, GoToKeeps
<1>7. ASSUME NEW b \in BOOLEAN, Fails(t, b) PROVE ReviewInv'
  <2>1. PICK c \in Nat : c = tick[t].comment
    BY <1>1 DEF TickRows
  <2>2. tick' = [tick EXCEPT ![t] = [tick[t] EXCEPT !.pc = "fail", !.comment = c, !.retryable = b]]
    BY <1>1, <1>7, <2>1 DEF TickRows, Fails
  <2> QED BY <1>1, <1>4, <1>5, <2>2, GoesWith
<1>8. ASSUME tick' = [tick EXCEPT ![t].pc = "submit", ![t].comment = added + 1] PROVE ReviewInv'
  <2>1. PICK c \in Nat : c = added + 1
    BY DEF ReviewInv, ReviewTypeOK
  <2>2. PICK b \in BOOLEAN : b = tick[t].retryable
    BY <1>1 DEF TickRows
  <2>3. tick' = [tick EXCEPT ![t] = [tick[t] EXCEPT !.pc = "submit", !.comment = c, !.retryable = b]]
    BY <1>1, <1>8, <2>1, <2>2 DEF TickRows
  <2> QED BY <1>1, <1>4, <1>5, <2>3, GoesWith
<1> QED BY <1>6, <1>7, <1>8 DEF CreateReview, DeletePending, AddComment, SubmitReview, CallFails

LEMMA LeaveTyped ==
    ASSUME ReviewInv, NEW t \in Ticks, Finish(t) \/ Crash(t) \/ StatementFails(t) PROVE ReviewInv'
<1>1. UNCHANGED <<reviewTables, provider, pull, hook, lostReads, providerFaults, closes>>
      /\ failures' \in {failures, failures + 1} /\ tick[t].pc # "idle"
  BY DEF Finish, Crash, StatementFails, bounds
<1>2. RowsGo /\ ProviderGo /\ RestGo
  BY <1>1, NoChange, CountEdit DEF reviewTables
<1>3. CASE Settle(t, "done")
  BY <1>1, <1>2, <1>3, SettleGoes, Leaves DEF TablesGo, Worked
<1>4. CASE Throw(t)
  BY <1>1, <1>2, <1>4, ThrowGoes, Leaves DEF TablesGo
<1>5. CASE Crash(t)
  BY <1>1, <1>2, <1>5, NoChange, Leaves DEF TablesGo, Crash
<1> QED BY <1>3, <1>4, <1>5 DEF Finish, StatementFails

LEMMA ReviewStep == ReviewInv /\ [ReviewNext]_reviewVars => ReviewInv'
<1> SUFFICES ASSUME ReviewInv, [ReviewNext]_reviewVars PROVE ReviewInv'
  OBVIOUS
<1>1. CASE UNCHANGED reviewVars
  BY <1>1, NoChange, TablesKeep DEF reviewVars, reviewTables, TablesGo
<1>2. CASE Lifecycle
  BY <1>2, PushTyped, PullTyped, HookTyped DEF Lifecycle
<1>3. CASE \E h \in Heads : FetchDiff(h) \/ Analyze(h)
  BY <1>3, JobTyped
<1>4. ASSUME NEW t \in Ticks, ComposeStep(t) PROVE ReviewInv'
  BY <1>4, StartTyped, RecommendTyped, ClaimTyped, SelectTyped, RefreshTyped, AuditTyped, LookupTyped,
     ProviderTyped, RowTyped, LeaveTyped DEF ComposeStep
<1>5. ASSUME NEW t \in Ticks, ComposeFault(t) PROVE ReviewInv'
  BY <1>5, SelectTyped, LookupTyped, ProviderTyped, LeaveTyped DEF ComposeFault
<1> QED BY <1>1, <1>2, <1>3, <1>4, <1>5 DEF ReviewNext

LEMMA ReviewInvariant == ReviewSpec => []ReviewInv
BY ReviewStarts, ReviewStep, PTL DEF ReviewSpec

\* Every table, GitHub and every tick hold values of their kind, whatever the ticks,
\* crashes, lost reads and unanswered calls: ReviewTypeOK.
THEOREM ReviewTypeCorrect == ReviewSpec => []ReviewTypeOK
<1>1. ReviewInv => ReviewTypeOK
  BY DEF ReviewInv
<1> QED BY <1>1, ReviewInvariant, PTL

-----------------------------------------------------------------------------
(* The review: what the audit says.                                        *)

LEMMA FindingsStay ==
    ASSUME ReviewInv, [ReviewNext]_reviewVars, NEW h \in Heads, jobs[h].state \in Worked
    PROVE  jobs'[h].findings = jobs[h].findings /\ jobs'[h].state \in Worked
<1> DEFINE JobStays == jobs'[h].findings = jobs[h].findings /\ jobs'[h].state \in Worked
<1>0. jobs \in [Heads -> JobRows] /\ jobs[h] \in JobRows /\ NumHeads \in Nat /\ Heads = 1 .. NumHeads
  BY ReviewTypes
<1>1. CASE UNCHANGED jobs
  BY <1>1
<1>2. CASE Push
  <2>1. jobs' = [jobs EXCEPT ![pull.head + 1].state = "queued"]
    BY <1>2 DEF Push
  <2>2. pull.head + 1 # h
    <3>1. pull.head \in 0 .. NumHeads
      BY DEF ReviewInv, ReviewTypeOK
    <3> QED BY <1>0, <3>1 DEF ReviewInv, WorkOK, Worked
  <2> QED BY <1>0, <2>1, <2>2
<1>3. ASSUME NEW g \in Heads, FetchDiff(g) \/ Analyze(g) PROVE JobStays
  <2>1. g # h
    BY <1>3 DEF FetchDiff, Analyze, Worked
  <2> QED BY <1>0, <1>3, <2>1 DEF FetchDiff, Analyze, SaveDiff, SaveFindings
<1>4. ASSUME NEW t \in Ticks, NEW g \in Heads, StartCompose(t, g)
      PROVE  JobStays
  <2>1. jobs' = [jobs EXCEPT ![g].owner = t, ![g].attempt = @ + 1]
    BY <1>4 DEF StartCompose
  <2>2. CASE g = h
    BY <1>0, <2>1, <2>2 DEF JobRows
  <2>3. CASE g # h
    BY <1>0, <2>1, <2>3
  <2> QED BY <2>2, <2>3
<1>5. ASSUME NEW t \in Ticks, tick[t].pc # "idle", UNCHANGED pull, Throw(t) \/ Settle(t, "done")
      PROVE  JobStays
  BY <1>5, ThrowGoes, SettleGoes DEF Worked
<1>6. CASE Lifecycle
  BY <1>1, <1>2, <1>6 DEF Lifecycle, ClosePr, ReopenPr, OutdateComments, OutdateRecommendation,
     ReactivateRecommendation
<1>7. ASSUME NEW t \in Ticks, ComposeStep(t) PROVE JobStays
  <2>1. CASE \E g \in Heads : StartCompose(t, g)
    BY <1>4, <2>1
  <2>2. CASE RefreshPlacement(t) \/ OutdateComment(t) \/ Finish(t)
    BY <1>1, <1>5, <2>2 DEF RefreshPlacement, OutdateComment, Finish
  <2>3. CASE \/ UpsertRecommendation(t) \/ Claim(t) \/ ClaimConflicts(t)
             \/ FindSameRevision(t) \/ FindPosted(t) \/ RecordSkippedWrite(t)
             \/ FindExternalWrite(t) \/ FindExistingComment(t) \/ InsertExternalWrite(t)
    BY <1>1, <2>3 DEF UpsertRecommendation, Claim, ClaimConflicts, FindSameRevision, FindPosted,
       RecordSkippedWrite, FindExternalWrite, FindExistingComment, InsertExternalWrite
  <2>4. CASE \/ CreateReview(t) \/ DeletePending(t) \/ AddComment(t) \/ SubmitReview(t)
             \/ MarkFailed(t) \/ MarkSucceeded(t) \/ FinalizeComment(t)
    BY <1>1, <2>4 DEF CreateReview, DeletePending, AddComment, SubmitReview, MarkFailed, MarkSucceeded,
       FinalizeComment
  <2> QED BY <1>7, <2>1, <2>2, <2>3, <2>4 DEF ComposeStep
<1>8. ASSUME NEW t \in Ticks, ComposeFault(t) PROVE JobStays
  BY <1>1, <1>5, <1>8 DEF ComposeFault, SelectUnanswered, FindExistingRefused, FindExistingThrows,
     CallFails, StatementFails, Crash
<1> QED BY <1>1, <1>3, <1>6, <1>7, <1>8 DEF ReviewNext, reviewVars

LEMMA MineStays ==
    ASSUME ReviewInv, [ReviewNext]_reviewVars, NEW t \in Ticks, tick[t].pc # "idle",
           tick'[t].head = tick[t].head, tick'[t].next = tick[t].next
    PROVE  Mine(t)' = Mine(t) /\ Rev(t)' = Rev(t)
<1>1. tick[t].head \in Heads /\ jobs[tick[t].head].state \in Worked
  BY DEF ReviewInv, WorkOK, Worked
<1>2. jobs'[tick[t].head].findings = jobs[tick[t].head].findings
  BY <1>1, FindingsStay
<1> QED BY <1>2 DEF Mine, Rev, LoadFindings

LEMMA MineReported ==
    ASSUME ReviewInv, NEW t \in Ticks, Works(t) PROVE Mine(t) \in Reported
<1>1. /\ tick[t].head \in Heads /\ tick[t].next \in DOMAIN jobs[tick[t].head].findings
      /\ Mine(t) = jobs[tick[t].head].findings[tick[t].next]
  BY MyFinding
<1>2. jobs[tick[t].head].findings \in {<<>>} \cup Reports
  BY <1>1, ReviewTypes DEF JobRows
<1>3. jobs[tick[t].head].findings # <<>>
  BY <1>1
<1> QED BY <1>1, <1>2, <1>3 DEF Reported

\* A tick without a finding, or at its start, has nothing to account for.
LEMMA Unburdened ==
    ASSUME NEW t \in Ticks,
           \/ tick'[t].pc \in {"idle", "fail", "release"}
           \/ tick'[t].pc \in Unposted /\ tick'[t].comment = NoComment
    PROVE  CommentOK(t)'
BY DEF CommentOK, Unposted

\* What stays in the tables and on GitHub stays true.
LEMMA AuditStays ==
    ASSUME AuditInv, ReviewInv', published \subseteq published',
           \A r \in Revision : writes'[r].state = "succeeded" =>
              \/ writes[r].state = "succeeded" /\ writes'[r].comment = writes[r].comment
              \/ \E c \in published : c.id = writes'[r].comment /\ c.gap = r.gap,
           \A i \in DOMAIN rows' : rows'[i].comment # NoComment =>
              \/ i \in DOMAIN rows /\ rows'[i].comment = rows[i].comment /\ rows'[i].rev.gap = rows[i].rev.gap
              \/ \E c \in published : c.id = rows'[i].comment /\ c.gap = rows'[i].rev.gap
    PROVE  AuditIsTrue'
<1>1. ASSUME NEW r \in Revision, writes'[r].state = "succeeded"
      PROVE  IsPublished(writes[r].comment, r.gap)'
  <2>1. \E c \in published : c.id = writes'[r].comment /\ c.gap = r.gap
    BY <1>1 DEF AuditInv, AuditIsTrue, IsPublished
  <2> QED BY <2>1 DEF IsPublished
<1>2. ASSUME NEW i \in DOMAIN rows', rows'[i].comment # NoComment
      PROVE  IsPublished(rows[i].comment, rows[i].rev.gap)'
  <2>1. \E c \in published : c.id = rows'[i].comment /\ c.gap = rows'[i].rev.gap
    BY <1>2 DEF AuditInv, AuditIsTrue, IsPublished, IsFinalized
  <2> QED BY <2>1 DEF IsPublished
<1> QED BY <1>1, <1>2 DEF AuditIsTrue, IsFinalized

\* A step of the tick that is at work.
LEMMA AuditByOne ==
    ASSUME AuditInv, ReviewInv', NEW t \in Ticks, tick[t].pc # "idle",
           \A u \in Ticks \ {t} : tick'[u] = tick[u],
           CommentOK(t)', OnlyReported', AuditIsTrue'
    PROVE  AuditInv'
<1>1. \A u \in Ticks \ {t} : tick[u].pc = "idle"
  BY DEF AuditInv, OneAtWork
<1>2. OneAtWork'
  BY <1>1 DEF OneAtWork
<1>3. \A u \in Ticks : CommentOK(u)'
  BY <1>1, Unburdened
<1> QED BY <1>2, <1>3 DEF AuditInv

\* A step of nobody at work.
LEMMA AuditByOthers ==
    ASSUME AuditInv, ReviewInv', [ReviewNext]_reviewVars, UNCHANGED <<writes, provider, tick>>,
           \A i \in DOMAIN rows' : i \in DOMAIN rows /\ rows'[i].comment = rows[i].comment
                                     /\ rows'[i].rev = rows[i].rev
    PROVE  AuditInv'
<1>1. AuditIsTrue'
  BY AuditStays DEF provider
<1>2. OneAtWork' /\ OnlyReported'
  BY DEF AuditInv, OneAtWork, OnlyReported, provider
<1>3. ASSUME NEW t \in Ticks PROVE CommentOK(t)'
  <2>1. CASE tick[t].pc = "idle"
    BY <2>1, Unburdened
  <2>2. CASE tick[t].pc # "idle"
    <3>1. Mine(t)' = Mine(t)
      BY <2>2, MineStays DEF AuditInv
    <3>2. CommentOK(t)
      BY DEF AuditInv
    <3> QED BY <3>1, <3>2 DEF CommentOK, IsPublished, provider
  <2> QED BY <2>1, <2>2
<1> QED BY <1>1, <1>2, <1>3 DEF AuditInv

\* The steps of a tick that do not touch GitHub.
LEMMA AuditOffline ==
    ASSUME AuditInv, ReviewInv', NEW t \in Ticks, tick[t].pc # "idle", UNCHANGED provider,
           \A u \in Ticks \ {t} : tick'[u] = tick[u], CommentOK(t)',
           \A r \in Revision : writes'[r].state = "succeeded" =>
              \/ writes[r].state = "succeeded" /\ writes'[r].comment = writes[r].comment
              \/ \E c \in published : c.id = writes'[r].comment /\ c.gap = r.gap,
           \A i \in DOMAIN rows' : rows'[i].comment # NoComment =>
              \/ i \in DOMAIN rows /\ rows'[i].comment = rows[i].comment /\ rows'[i].rev.gap = rows[i].rev.gap
              \/ \E c \in published : c.id = rows'[i].comment /\ c.gap = rows'[i].rev.gap
    PROVE  AuditInv'
<1>1. AuditIsTrue'
  BY AuditStays DEF provider
<1>2. OnlyReported'
  BY DEF AuditInv, OnlyReported, provider
<1> QED BY <1>1, <1>2, AuditByOne

LEMMA StartAudited ==
    ASSUME AuditInv, OneAtATime, ReviewInv', [ReviewNext]_reviewVars, NEW t \in Ticks, NEW h \in Heads,
           StartCompose(t, h)
    PROVE  AuditInv'
<1>1. ReviewInv /\ tick \in [Ticks -> TickRows] /\ tick[t].pc = "idle"
      /\ UNCHANGED <<reviewTables, provider>>
  BY ReviewTypes DEF AuditInv, StartCompose
<1>2. \A u \in Ticks \ {t} : tick[u].pc = "idle"
  <2>1. CASE \A u, v \in Ticks : u = v
    BY <2>1
  <2>2. CASE NumHeads = 1 /\ Exclusive
    <3>1. \A u \in Ticks : tick[u].head # h
      BY <2>2 DEF StartCompose
    <3>2. \A u \in Ticks : tick[u].pc # "idle" => tick[u].head \in 1 .. 1
      BY <1>1, <2>2 DEF ReviewInv, WorkOK, Heads
    <3>3. h \in 1 .. 1
      BY <2>2 DEF Heads
    <3> QED BY <3>1, <3>2, <3>3
  <2> QED BY <2>1, <2>2 DEF OneAtATime
<1>3. PICK pc \in {"claim", "recommend"} : tick' = [tick EXCEPT ![t] = TickAt(pc, h, 1)]
  BY DEF StartCompose
<1>4. /\ tick'[t].pc \in Unposted /\ tick'[t].comment = NoComment
      /\ \A u \in Ticks \ {t} : tick'[u] = tick[u]
  BY <1>1, <1>3 DEF TickAt, Unposted
<1>5. \A u \in Ticks : CommentOK(u)'
  BY <1>2, <1>4, Unburdened
<1>6. OneAtWork' /\ OnlyReported'
  BY <1>1, <1>2, <1>4 DEF OneAtWork, OnlyReported, AuditInv, provider
<1>7. AuditIsTrue'
  BY <1>1, AuditStays DEF provider, reviewTables
<1> QED BY <1>5, <1>6, <1>7 DEF AuditInv

\* A tick that leaves, or goes on to the next finding.
LEMMA LeavesClean ==
    ASSUME ReviewInv, NEW t \in Ticks, tick[t].pc # "idle",
           (UNCHANGED pull /\ (Throw(t) \/ Settle(t, "done"))) \/ Crash(t) \/ NextFinding(t)
    PROVE  CommentOK(t)' /\ \A u \in Ticks \ {t} : tick'[u] = tick[u]
<1>1. tick \in [Ticks -> TickRows]
  BY ReviewTypes
<1>2. tick' = [tick EXCEPT ![t] = Idle] \/ tick' = [tick EXCEPT ![t] = AfterFinding(t)]
  BY ThrowGoes, SettleGoes DEF Crash, NextFinding, Worked
<1>3. /\ Idle.pc = "idle" /\ AfterFinding(t).pc = "claim" /\ AfterFinding(t).comment = NoComment
  BY DEF Idle, AfterFinding, TickAt
<1>4. /\ tick'[t] \in {Idle, AfterFinding(t)}
      /\ \A u \in Ticks \ {t} : tick'[u] = tick[u]
  BY <1>1, <1>2
<1>5. CommentOK(t)'
  BY <1>3, <1>4, Unburdened DEF Unposted
<1> QED BY <1>4, <1>5

\* A tick that goes on, and has no comment yet.
LEMMA GoesUnposted ==
    ASSUME ReviewInv, NEW t \in Ticks, NEW pc \in Unposted, tick[t].comment = NoComment,
           NEW i, NEW b, Goto(t, pc) \/ tick' = [tick EXCEPT ![t].pc = pc, ![t].row = i]
              \/ tick' = [tick EXCEPT ![t].pc = pc, ![t].row = i, ![t].resumed = b]
    PROVE  CommentOK(t)' /\ \A u \in Ticks \ {t} : tick'[u] = tick[u]
<1>1. tick \in [Ticks -> TickRows] /\ tick[t] \in TickRows
  BY ReviewTypes
<1>2. tick'[t].pc = pc /\ tick'[t].comment = NoComment /\ \A u \in Ticks \ {t} : tick'[u] = tick[u]
  BY <1>1 DEF Goto, TickRows
<1> QED BY <1>2, Unburdened

\* A tick that knows its comment goes on to record it.
LEMMA GoesPosted ==
    ASSUME ReviewInv, [ReviewNext]_reviewVars, NEW t \in Ticks, tick[t].pc # "idle",
           published \subseteq published', NEW pc \in {"plan", "succeed", "finalize"},
           NEW id, (Goto(t, pc) /\ id = tick[t].comment) \/ tick' = [tick EXCEPT ![t].pc = pc, ![t].comment = id],
           (pc = "plan" /\ id = NoComment) \/ \E c \in published' : c.id = id /\ c.gap = Mine(t).gap
    PROVE  CommentOK(t)' /\ \A u \in Ticks \ {t} : tick'[u] = tick[u]
<1>1. tick \in [Ticks -> TickRows] /\ tick[t] \in TickRows
  BY ReviewTypes
<1>2. /\ tick'[t].pc = pc /\ tick'[t].comment = id /\ tick'[t].head = tick[t].head
      /\ tick'[t].next = tick[t].next
      /\ \A u \in Ticks \ {t} : tick'[u] = tick[u]
  BY <1>1 DEF Goto, TickRows
<1>3. Mine(t)' = Mine(t)
  BY <1>2, MineStays
<1>4. (pc = "plan" /\ id = NoComment) \/ IsPublished(tick[t].comment, Mine(t).gap)'
  BY <1>2, <1>3 DEF IsPublished
<1> QED BY <1>2, <1>4 DEF CommentOK, Unposted

\* The rows and audit rows that do not change need no word.
LEMMA ComposeAudited ==
    ASSUME AuditInv, ReviewInv', [ReviewNext]_reviewVars, NEW t \in Ticks,
           \/ UpsertRecommendation(t) \/ ClaimConflicts(t) \/ FindSameRevision(t) \/ FindPosted(t)
           \/ SelectUnanswered(t) \/ FindExistingRefused(t) \/ FindExistingThrows(t)
           \/ Finish(t) \/ Crash(t) \/ StatementFails(t)
    PROVE  AuditInv'
<1>1. ReviewInv /\ UNCHANGED <<rows, writes, provider, pull>> /\ tick[t].pc # "idle" /\ CommentOK(t)
  BY DEF AuditInv, UpsertRecommendation, ClaimConflicts, FindSameRevision, FindPosted, SelectUnanswered,
     FindExistingRefused, FindExistingThrows, Finish, Crash, StatementFails, reviewTables
<1>2. CommentOK(t)' /\ (\A u \in Ticks \ {t} : tick'[u] = tick[u]) => AuditInv'
  BY <1>1, AuditOffline
<1>3. CASE \/ UpsertRecommendation(t) \/ ClaimConflicts(t) \/ FindPosted(t) \/ SelectUnanswered(t)
  <2>1. tick[t].comment = NoComment
    BY <1>1, <1>3 DEF CommentOK, Unposted, UpsertRecommendation, ClaimConflicts, FindPosted, SelectUnanswered
  <2> QED BY <1>1, <1>2, <1>3, <2>1, GoesUnposted
          DEF Unposted, UpsertRecommendation, ClaimConflicts, FindPosted, SelectUnanswered
<1>4. CASE FindSameRevision(t)
  <2>1. tick[t].comment = NoComment
    BY <1>1, <1>4 DEF CommentOK, Unposted, FindSameRevision
  <2>2. CASE NextFinding(t)
    BY <1>1, <1>2, <2>2, LeavesClean
  <2>3. CASE ~ NextFinding(t)
    BY <1>1, <1>2, <1>4, <2>1, <2>3, GoesUnposted DEF Unposted, FindSameRevision
  <2> QED BY <2>2, <2>3
<1>5. CASE FindExistingRefused(t)
  <2>1. tick[t].comment = NoComment /\ Goto(t, "plan")
    BY <1>1, <1>5 DEF CommentOK, Unposted, FindExistingRefused
  <2> QED BY <1>1, <1>2, <2>1, GoesPosted DEF provider
<1>6. CASE FindExistingThrows(t) \/ Finish(t) \/ Crash(t) \/ StatementFails(t)
  BY <1>1, <1>2, <1>6, LeavesClean DEF FindExistingThrows, Finish, StatementFails
<1> QED BY <1>3, <1>4, <1>5, <1>6

LEMMA ClaimAudited ==
    ASSUME AuditInv, ReviewInv', NEW t \in Ticks, Claim(t) PROVE AuditInv'
<1>1. ReviewInv /\ UNCHANGED <<jobs, writes, provider>> /\ tick[t].pc = "claim" /\ CommentOK(t)
      /\ DOMAIN rows = 1 .. Len(rows) /\ Len(rows) \in Nat
  BY ReviewTypes DEF AuditInv, Claim
<1>2. tick[t].comment = NoComment
  BY <1>1 DEF CommentOK, Unposted
<1>3. tick' = [tick EXCEPT ![t].pc = "lookup", ![t].row = NewRow]
  BY DEF Claim
<1>4. CommentOK(t)' /\ \A u \in Ticks \ {t} : tick'[u] = tick[u]
  BY <1>1, <1>2, <1>3, GoesUnposted DEF Unposted
<1>5. ASSUME NEW i \in DOMAIN rows', rows'[i].comment # NoComment
      PROVE  i \in DOMAIN rows /\ rows'[i] = rows[i]
  <2>1. /\ rows'[Len(rows) + 1] = [rev |-> Rev(t), status |-> "posted", comment |-> NoComment]
        /\ DOMAIN rows' = 1 .. Len(rows) + 1 /\ \A j \in DOMAIN rows : rows'[j] = rows[j]
    BY <1>1, ClaimTyped
  <2>2. rows'[Len(rows) + 1].comment = NoComment
    BY <2>1
  <2>3. i # Len(rows) + 1
    BY <1>5, <2>2
  <2>4. i \in DOMAIN rows
    BY <1>1, <2>1, <2>3
  <2> QED BY <2>1, <2>4
<1> QED BY <1>1, <1>4, <1>5, AuditOffline

LEMMA RowsAudited ==
    ASSUME AuditInv, ReviewInv', NEW t \in Ticks,
           RefreshPlacement(t) \/ OutdateComment(t) \/ FinalizeComment(t)
    PROVE  AuditInv'
<1>1. /\ ReviewInv /\ UNCHANGED <<writes, provider, pull>> /\ tick[t].pc # "idle" /\ CommentOK(t)
      /\ tick \in [Ticks -> TickRows]
      /\ tick[t].row \in DOMAIN rows /\ rows[tick[t].row].rev.gap = Mine(t).gap
      /\ Rev(t).gap = Mine(t).gap
  BY ReviewTypes DEF AuditInv, RefreshPlacement, OutdateComment, FinalizeComment, TickOK, Unbound,
     Unclaimed, Rev
<1>2. PICK i \in DOMAIN rows : i = tick[t].row
  BY <1>1
<1>3. rows[i] \in CommentRows /\ rows \in Seq(CommentRows) /\ DOMAIN rows = 1 .. Len(rows)
  BY ReviewTypes, <1>1
<1>4. /\ CommentOK(t)' /\ \A u \in Ticks \ {t} : tick'[u] = tick[u]
      /\ DOMAIN rows' = DOMAIN rows /\ \A j \in DOMAIN rows : j # i => rows'[j] = rows[j]
      /\ \/ rows'[i].comment = rows[i].comment /\ rows'[i].rev.gap = rows[i].rev.gap
         \/ \E c \in published : c.id = rows'[i].comment /\ c.gap = rows'[i].rev.gap
  <2>1. CASE RefreshPlacement(t) /\ Throw(t) /\ UNCHANGED rows
    BY <1>1, <2>1, LeavesClean
  <2>2. CASE RefreshPlacement(t) /\ Goto(t, "skip") /\ rows' = [rows EXCEPT ![tick[t].row].rev = Rev(t)]
    <3>1. tick[t].comment = NoComment
      BY <1>1, <2>2 DEF CommentOK, Unposted, RefreshPlacement
    <3>2. CommentOK(t)' /\ \A u \in Ticks \ {t} : tick'[u] = tick[u]
      BY <1>1, <2>2, <3>1, GoesUnposted DEF Unposted
    <3>3. rows'[i].comment = rows[i].comment /\ rows'[i].rev = Rev(t)
      BY <1>2, <1>3, <2>2 DEF CommentRows
    <3> QED BY <1>1, <1>2, <2>2, <3>2, <3>3
  <2>3. CASE OutdateComment(t)
    <3>1. CommentOK(t)' /\ \A u \in Ticks \ {t} : tick'[u] = tick[u]
      BY <1>1, <2>3, LeavesClean DEF OutdateComment
    <3>2. rows' = [rows EXCEPT ![i].status = "outdated"]
      BY <1>2, <2>3 DEF OutdateComment
    <3> QED BY <1>3, <3>1, <3>2 DEF CommentRows
  <2>4. CASE FinalizeComment(t)
    <3>1. CommentOK(t)' /\ \A u \in Ticks \ {t} : tick'[u] = tick[u]
      BY <1>1, <2>4, LeavesClean DEF FinalizeComment
    <3>2. rows' = [rows EXCEPT ![i].comment = tick[t].comment]
      BY <1>2, <2>4 DEF FinalizeComment
    <3>3. \E c \in published : c.id = tick[t].comment /\ c.gap = Mine(t).gap
      BY <1>1, <2>4 DEF CommentOK, FinalizeComment, IsPublished
    <3>4. rows'[i].comment = tick[t].comment /\ rows'[i].rev = rows[i].rev
      BY <1>3, <3>2 DEF CommentRows
    <3> QED BY <1>1, <1>2, <3>1, <3>2, <3>3, <3>4
  <2> QED BY <2>1, <2>2, <2>3, <2>4 DEF RefreshPlacement
<1> QED BY <1>1, <1>4, AuditOffline

LEMMA WritesAudited ==
    ASSUME AuditInv, ReviewInv', [ReviewNext]_reviewVars, NEW t \in Ticks,
           RecordSkippedWrite(t) \/ InsertExternalWrite(t) \/ MarkFailed(t) \/ MarkSucceeded(t)
    PROVE  AuditInv'
<1>1. /\ ReviewInv /\ UNCHANGED <<rows, recommendation, provider, pull, hook, bounds>> /\ tick[t].pc # "idle"
      /\ CommentOK(t) /\ tick \in [Ticks -> TickRows] /\ writes \in [Revision -> WriteRows]
      /\ Works(t) /\ Rev(t).gap = Mine(t).gap
  BY ReviewTypes, WorksAt DEF AuditInv, RecordSkippedWrite, InsertExternalWrite, MarkFailed, MarkSucceeded,
     Unbound, Rev
<1>2. PICK rev \in Revision : rev = Rev(t)
  BY <1>1, MyFinding
<1>3. /\ CommentOK(t)' /\ \A u \in Ticks \ {t} : tick'[u] = tick[u]
      /\ \A r \in Revision : writes'[r].state = "succeeded" =>
            \/ writes[r].state = "succeeded" /\ writes'[r].comment = writes[r].comment
            \/ \E c \in published : c.id = writes'[r].comment /\ c.gap = r.gap
  <2>1. CASE RecordSkippedWrite(t)
    <3>1. CommentOK(t)' /\ \A u \in Ticks \ {t} : tick'[u] = tick[u]
      BY <1>1, <2>1, LeavesClean DEF RecordSkippedWrite
    <3>2. writes' = Inserted(rev, "skipped_duplicate")
      BY <1>2, <2>1 DEF RecordSkippedWrite
    <3>3. \A r \in Revision : writes'[r].state = "succeeded" => writes'[r] = writes[r]
      BY <1>1, <3>2, InsertedRows DEF WriteState
    <3> QED BY <3>1, <3>3
  <2>2. CASE InsertExternalWrite(t)
    <3>1. CommentOK(t)' /\ \A u \in Ticks \ {t} : tick'[u] = tick[u]
      <4>1. CASE tick[t].comment = NoComment
        BY <1>1, <2>2, <4>1, GoesUnposted DEF InsertExternalWrite, Unposted
      <4>2. CASE tick[t].comment # NoComment
        <5>1. \E c \in published : c.id = tick[t].comment /\ c.gap = Mine(t).gap
          BY <1>1, <2>2, <4>2 DEF CommentOK, InsertExternalWrite, IsPublished
        <5> QED BY <1>1, <2>2, <4>2, <5>1, GoesPosted DEF InsertExternalWrite, provider
      <4> QED BY <4>1, <4>2
    <3>2. writes' = Inserted(rev, "planned")
      BY <1>2, <2>2 DEF InsertExternalWrite
    <3>3. \A r \in Revision : writes'[r].state = "succeeded" => writes'[r] = writes[r]
      BY <1>1, <3>2, InsertedRows DEF WriteState
    <3> QED BY <3>1, <3>3
  <2>3. CASE MarkFailed(t)
    <3>1. tick'[t].pc = "release" /\ \A u \in Ticks \ {t} : tick'[u] = tick[u]
      BY <1>1, <2>3 DEF MarkFailed, Goto, TickRows
    <3>2. writes' = [writes EXCEPT ![rev].state = "failed"]
      BY <1>2, <2>3 DEF MarkFailed
    <3>3. \A r \in Revision : writes'[r].state = "succeeded" => writes'[r] = writes[r]
      BY <1>1, <3>2 DEF WriteRows
    <3> QED BY <3>1, <3>3, Unburdened
  <2>4. CASE MarkSucceeded(t)
    <3>1. \E c \in published : c.id = tick[t].comment /\ c.gap = Mine(t).gap
      BY <1>1, <2>4 DEF CommentOK, MarkSucceeded, IsPublished
    <3>2. CommentOK(t)' /\ \A u \in Ticks \ {t} : tick'[u] = tick[u]
      BY <1>1, <2>4, <3>1, GoesPosted DEF MarkSucceeded, provider
    <3>3. writes' = [writes EXCEPT ![rev] = [state |-> "succeeded", comment |-> tick[t].comment]]
      BY <1>2, <2>4 DEF MarkSucceeded
    <3>4. writes'[rev].comment = tick[t].comment /\ \A r \in Revision : r # rev => writes'[r] = writes[r]
      BY <1>1, <3>3
    <3> QED BY <1>1, <1>2, <3>1, <3>2, <3>4
  <2> QED BY <2>1, <2>2, <2>3, <2>4
<1> QED BY <1>1, <1>3, AuditOffline

\* A marker on the finding's line is about the finding's gap.
LEMMA LookupAudited ==
    ASSUME AuditInv, LinesTell, ReviewInv', [ReviewNext]_reviewVars, NEW t \in Ticks,
           FindExternalWrite(t) \/ FindExistingComment(t)
    PROVE  AuditInv'
<1>1. /\ ReviewInv /\ UNCHANGED <<rows, writes, provider>> /\ tick[t].pc # "idle"
      /\ CommentOK(t) /\ tick[t].comment = NoComment
      /\ Works(t) /\ Rev(t).gap = Mine(t).gap /\ Rev(t) \in Revision
  <2>1. ReviewInv /\ CommentOK(t)
    BY DEF AuditInv
  <2>2. Works(t) /\ UNCHANGED <<rows, writes, provider>> /\ tick[t].pc \in {"lookup", "reconcile"}
    BY <2>1, WorksAt DEF FindExternalWrite, FindExistingComment, Unbound, reviewTables
  <2> QED BY <2>1, <2>2, MyFinding DEF CommentOK, Unposted, Rev
<1>2. CommentOK(t)' /\ (\A u \in Ticks \ {t} : tick'[u] = tick[u]) => AuditInv'
  BY <1>1, AuditOffline
<1>3. CASE FindExternalWrite(t)
  <2>1. CASE writes[Rev(t)].state = "succeeded"
    <3>1. \E c \in published : c.id = writes[Rev(t)].comment /\ c.gap = Mine(t).gap
      BY <1>1, <2>1 DEF AuditInv, AuditIsTrue, IsPublished
    <3>2. tick' = [tick EXCEPT ![t].pc = "finalize", ![t].comment = writes[Rev(t)].comment]
      BY <1>3, <2>1 DEF FindExternalWrite
    <3> QED BY <1>1, <1>2, <3>1, <3>2, GoesPosted DEF provider
  <2>2. CASE Goto(t, "reconcile")
    BY <1>1, <1>2, <2>2, GoesUnposted DEF Unposted
  <2>3. CASE Goto(t, "plan")
    BY <1>1, <1>2, <2>3, GoesPosted DEF provider
  <2> QED BY <1>3, <2>1, <2>2, <2>3 DEF FindExternalWrite
<1>4. CASE FindExistingComment(t)
  <2>1. CASE Goto(t, "plan")
    BY <1>1, <1>2, <2>1, GoesPosted DEF provider
  <2>2. CASE \E c \in MarkerComments(Mine(t)) : tick' = [tick EXCEPT ![t].pc = "plan", ![t].comment = c.id]
    <3>1. PICK c \in published : /\ c.line = Mine(t).line
                                 /\ tick' = [tick EXCEPT ![t].pc = "plan", ![t].comment = c.id]
      BY <2>2 DEF MarkerComments
    <3>2. [gap |-> c.gap, line |-> c.line] \in Reported /\ Mine(t) \in Reported
      BY <1>1, MineReported DEF AuditInv, OnlyReported
    <3>3. c.gap = Mine(t).gap
      BY <3>1, <3>2 DEF LinesTell
    <3> QED BY <1>1, <1>2, <3>1, <3>3, GoesPosted DEF provider
  <2> QED BY <1>4, <2>1, <2>2 DEF FindExistingComment
<1> QED BY <1>3, <1>4

\* What GitHub does with a call: a comment that is submitted can be seen.
LEMMA AppliedAudited ==
    ASSUME AuditInv, NEW t \in Ticks, Works(t), Applied(t)
    PROVE  published \subseteq published' /\ OnlyReported'
<1>1. OnlyReported /\ ReviewInv
  BY DEF AuditInv
<1>2. pending \in [open : BOOLEAN, comments : SUBSET Comment]
  BY <1>1 DEF ReviewInv, ReviewTypeOK
<1>3. CASE pending' = EmptyReview /\ UNCHANGED published
  BY <1>1, <1>3 DEF OnlyReported, EmptyReview
<1>4. CASE pending' = [pending EXCEPT !.comments = WithComment(t)] /\ UNCHANGED published
  <2>1. Mine(t) \in Reported /\ Mine(t) \in Finding
    BY <1>1, MineReported, MyFinding
  <2>2. [gap |-> Mine(t).gap, line |-> Mine(t).line] \in Reported
    BY <2>1 DEF Finding
  <2>3. pending'.comments = WithComment(t)
    BY <1>2, <1>4
  <2> QED BY <1>1, <1>4, <2>2, <2>3 DEF OnlyReported, WithComment
<1>5. CASE published' = published \cup pending.comments /\ pending' = NoReview
  BY <1>1, <1>5 DEF OnlyReported, NoReview
<1> QED BY <1>3, <1>4, <1>5 DEF Applied

LEMMA ProviderAudited ==
    ASSUME AuditInv, ReviewInv', [ReviewNext]_reviewVars, NEW t \in Ticks,
           \/ CreateReview(t) \/ DeletePending(t) \/ AddComment(t) \/ SubmitReview(t)
           \/ CallFails(t)
    PROVE  AuditInv'
<1>1. /\ ReviewInv /\ UNCHANGED <<rows, writes>> /\ tick[t].pc # "idle"
      /\ CommentOK(t) /\ Works(t) /\ tick \in [Ticks -> TickRows] /\ tick[t] \in TickRows
      /\ tick[t].pc \in {"create", "clear", "recreate", "add", "undo", "submit"}
  BY ReviewTypes, WorksAt DEF AuditInv, CreateReview, DeletePending, AddComment, SubmitReview, CallFails,
     Unbound, reviewTables
<1>2. published \subseteq published' /\ OnlyReported'
  <2>1. CASE Applied(t)
    BY <1>1, <2>1, AppliedAudited
  <2>2. CASE UNCHANGED provider
    BY <2>2 DEF AuditInv, OnlyReported, provider
  <2>3. CASE DeletePending(t)
    BY <2>3 DEF AuditInv, OnlyReported, DeletePending, NoReview
  <2> QED BY <2>1, <2>2, <2>3 DEF CreateReview, AddComment, SubmitReview, CallFails
<1>3. AuditIsTrue'
  BY <1>1, <1>2, AuditStays
<1>4. CommentOK(t)' /\ (\A u \in Ticks \ {t} : tick'[u] = tick[u]) => AuditInv'
  BY <1>1, <1>2, <1>3, AuditByOne
<1>5. ASSUME NEW b \in BOOLEAN, Fails(t, b) PROVE AuditInv'
  <2>1. tick'[t].pc = "fail" /\ \A u \in Ticks \ {t} : tick'[u] = tick[u]
    BY <1>1, <1>5 DEF Fails, TickRows
  <2> QED BY <1>4, <2>1, Unburdened
<1>6. ASSUME NEW pc \in {"add", "clear", "recreate", "undo"}, Goto(t, pc), tick[t].pc # "submit"
      PROVE  AuditInv'
  <2>1. tick[t].comment = NoComment
    BY <1>1, <1>6 DEF CommentOK, Unposted
  <2> QED BY <1>1, <1>4, <1>6, <2>1, GoesUnposted DEF Unposted
<1>7. CASE CreateReview(t)
  BY <1>5, <1>6, <1>7 DEF CreateReview
<1>8. CASE DeletePending(t)
  BY <1>5, <1>6, <1>8 DEF DeletePending
<1>9. CASE AddComment(t)
  <2>1. CASE Goto(t, "undo")
    BY <1>6, <1>9, <2>1 DEF AddComment
  <2>2. CASE Applied(t) /\ tick' = [tick EXCEPT ![t].pc = "submit", ![t].comment = added + 1]
    <3>1. /\ tick'[t].pc = "submit" /\ tick'[t].comment = added + 1 /\ tick'[t].head = tick[t].head
          /\ tick'[t].next = tick[t].next
          /\ \A u \in Ticks \ {t} : tick'[u] = tick[u]
      BY <1>1, <2>2 DEF TickRows
    <3>2. Mine(t)' = Mine(t)
      BY <1>1, <3>1, MineStays
    <3>3. pending' = [pending EXCEPT !.comments = WithComment(t)]
      BY <1>9, <2>2 DEF AddComment, Applied
    <3>4. pending'.comments = WithComment(t)
      BY <1>1, <3>3 DEF ReviewInv, ReviewTypeOK
    <3>5. \E c \in pending'.comments : c.id = added + 1 /\ c.gap = Mine(t).gap
      <4>1. [id |-> added + 1, gap |-> Mine(t).gap, line |-> Mine(t).line] \in WithComment(t)
        BY DEF WithComment
      <4> QED BY <3>4, <4>1
    <3>6. CommentOK(t)'
      BY <3>1, <3>2, <3>5 DEF CommentOK, Unposted
    <3> QED BY <1>4, <3>1, <3>6
  <2> QED BY <1>9, <2>1, <2>2 DEF AddComment
<1>10. CASE SubmitReview(t)
  <2>1. CASE Goto(t, "succeed") /\ Applied(t)
    <3>1. published' = published \cup pending.comments
      BY <1>10, <2>1 DEF SubmitReview, Applied
    <3>2. \E c \in published' : c.id = tick[t].comment /\ c.gap = Mine(t).gap
      BY <1>1, <1>10, <3>1 DEF CommentOK, SubmitReview
    <3> QED BY <1>1, <1>2, <1>4, <2>1, <3>2, GoesPosted
  <2> QED BY <1>5, <1>10, <2>1 DEF SubmitReview
<1>11. CASE CallFails(t)
  BY <1>5, <1>11 DEF CallFails
<1> QED BY <1>7, <1>8, <1>9, <1>10, <1>11

LEMMA OthersAudited ==
    ASSUME AuditInv, ReviewInv', [ReviewNext]_reviewVars,
           Lifecycle \/ UNCHANGED reviewVars \/ \E h \in Heads : FetchDiff(h) \/ Analyze(h)
    PROVE  AuditInv'
<1>1. UNCHANGED <<writes, provider, tick>>
  BY DEF Lifecycle, Push, ClosePr, ReopenPr, OutdateComments, OutdateRecommendation,
     ReactivateRecommendation, FetchDiff, Analyze, reviewVars, reviewTables
<1>2. CASE UNCHANGED rows
  BY <1>1, <1>2, AuditByOthers
<1>3. CASE rows' = [i \in DOMAIN rows |-> [rows[i] EXCEPT !.status = "outdated"]]
  <2>1. \A i \in DOMAIN rows : rows[i] \in CommentRows
    BY ReviewTypes DEF AuditInv
  <2>2. \A i \in DOMAIN rows' : /\ i \in DOMAIN rows /\ rows'[i].comment = rows[i].comment
                                /\ rows'[i].rev = rows[i].rev
    BY <1>3, <2>1 DEF CommentRows
  <2> QED BY <1>1, <2>2, AuditByOthers
<1> QED BY <1>2, <1>3 DEF Lifecycle, Push, ClosePr, ReopenPr, OutdateComments, OutdateRecommendation,
        ReactivateRecommendation, FetchDiff, Analyze, reviewVars, reviewTables

LEMMA AuditStep ==
    ASSUME OneAtATime, LinesTell, AuditInv, [ReviewNext]_reviewVars PROVE AuditInv'
<1>1. ReviewInv'
  BY ReviewStep DEF AuditInv
<1>2. ASSUME NEW t \in Ticks, ComposeStep(t) PROVE AuditInv'
  BY <1>1, <1>2, StartAudited, ComposeAudited, ClaimAudited, RowsAudited, WritesAudited, LookupAudited,
     ProviderAudited DEF ComposeStep
<1>3. ASSUME NEW t \in Ticks, ComposeFault(t) PROVE AuditInv'
  BY <1>1, <1>3, ComposeAudited, ProviderAudited DEF ComposeFault
<1> QED BY <1>1, <1>2, <1>3, OthersAudited DEF ReviewNext

LEMMA AuditStarts == ReviewInit => AuditInv
<1> SUFFICES ASSUME ReviewInit PROVE AuditInv
  OBVIOUS
<1>1. \A t \in Ticks : tick[t].pc = "idle"
  BY DEF ReviewInit, Idle, TickAt
<1>2. OneAtWork /\ OnlyReported
  BY <1>1 DEF OneAtWork, OnlyReported, ReviewInit, NoReview
<1>3. \A t \in Ticks : CommentOK(t)
  BY <1>1 DEF CommentOK, Unposted
<1>4. AuditIsTrue
  BY DEF AuditIsTrue, ReviewInit
<1> QED BY <1>2, <1>3, <1>4, ReviewStarts DEF AuditInv

LEMMA AuditInvariant ==
    ASSUME OneAtATime, LinesTell PROVE ReviewSpec => []AuditInv
<1>1. AuditInv /\ [ReviewNext]_reviewVars => AuditInv'
  BY AuditStep
<1> QED BY <1>1, AuditStarts, PTL DEF ReviewSpec

\* The audit row and the comment row that say a finding was posted name a comment that
\* is on the pull request and is about that gap, whatever crashes, lost reads and
\* unanswered calls, as long as one tick at a time works on the pull request and a
\* line has one gap (AuditIsTrue).
THEOREM PostedIsVisible ==
    ASSUME OneAtATime, LinesTell PROVE ReviewSpec => []AuditIsTrue
<1>1. AuditInv => AuditIsTrue
  BY DEF AuditInv
<1> QED BY <1>1, AuditInvariant, PTL

-----------------------------------------------------------------------------
(* The review of one revision: what is posted, and what is answered.       *)

LEMMA OneHead ==
    ASSUME OneRevision, PostInv
    PROVE  /\ ReviewInv /\ OneAtATime /\ Heads = {1} /\ ~ lostReads < MaxLostReads
           /\ jobs[1].findings \in Seq(Finding) /\ jobs[1] \in JobRows
           /\ \A n \in DOMAIN jobs[1].findings : jobs[1].findings[n] \in Finding
           /\ \A m, n \in DOMAIN jobs[1].findings : jobs[1].findings[m].gap = jobs[1].findings[n].gap => m = n
           /\ \A t \in Ticks : /\ CommentOK(t) /\ PostOK(t)
                               /\ tick[t].pc # "idle" => tick[t].head = 1
           /\ \A t \in Ticks : Works(t) =>
                 /\ Mine(t) = jobs[1].findings[tick[t].next] /\ tick[t].next \in DOMAIN jobs[1].findings
                 /\ Rev(t) = RevisionOf(Mine(t)) /\ Mine(t) \in Finding /\ Rev(t) \in Revision
                 /\ Rev(t).gap = Mine(t).gap
<1>1. ReviewInv /\ \A t \in Ticks : CommentOK(t) /\ PostOK(t)
  BY DEF PostInv, AuditInv
<1>2. Heads = {1} /\ OneAtATime
  BY DEF OneRevision, Heads, OneAtATime
<1>3. jobs[1].findings \in Seq(Finding) /\ jobs[1] \in JobRows
  BY <1>1, <1>2, ReviewTypes
<1>4. ~ lostReads < MaxLostReads
  BY <1>1 DEF OneRevision, ReviewInv, ReviewTypeOK
<1>5. \A n \in DOMAIN jobs[1].findings : jobs[1].findings[n] \in Finding
  <2>1. PICK f \in Seq(Finding) : f = jobs[1].findings
    BY <1>3
  <2>2. \A n \in DOMAIN f : f[n] \in Finding
    BY LenProperties, ElementOfSeq
  <2> QED BY <2>1, <2>2
<1>6. \A m, n \in DOMAIN jobs[1].findings : jobs[1].findings[m].gap = jobs[1].findings[n].gap => m = n
  BY <1>3 DEF OneRevision, JobRows
<1>7. ASSUME NEW t \in Ticks, tick[t].pc # "idle" PROVE tick[t].head = 1
  BY <1>1, <1>2, <1>7 DEF ReviewInv, WorkOK
<1>8. ASSUME NEW t \in Ticks, Works(t)
      PROVE  /\ Mine(t) = jobs[1].findings[tick[t].next] /\ tick[t].next \in DOMAIN jobs[1].findings
             /\ Rev(t) = RevisionOf(Mine(t)) /\ Mine(t) \in Finding /\ Rev(t) \in Revision
             /\ Rev(t).gap = Mine(t).gap
  <2>1. tick[t].head = 1
    BY <1>7, <1>8 DEF Works
  <2> QED BY <1>1, <1>8, <2>1, MyFinding DEF RevisionOf, Rev
<1> QED BY <1>1, <1>2, <1>3, <1>4, <1>5, <1>6, <1>7, <1>8

\* Whatever is claimed for a gap is the one finding on it.
LEMMA MineAlone ==
    ASSUME OneRevision, PostInv, NEW t \in Ticks, Works(t), NEW i \in DOMAIN rows,
           rows[i].rev.gap = Mine(t).gap
    PROVE  rows[i].rev = Rev(t)
<1>1. PICK n \in DOMAIN jobs[1].findings : rows[i].rev = RevisionOf(jobs[1].findings[n])
  BY DEF PostInv, ClaimsOK
<1>2. jobs[1].findings[n].gap = Mine(t).gap
  BY <1>1 DEF RevisionOf
<1>3. n = tick[t].next
  BY <1>2, OneHead
<1> QED BY <1>1, <1>3, OneHead

LEMMA MineUnseen ==
    ASSUME OneRevision, PostInv, NEW t \in Ticks, Works(t),
           SameRevision(Rev(t)) = {} \/ MarkerComments(Mine(t)) = {}
    PROVE  Uncommented(Mine(t).gap)
<1> SUFFICES ASSUME NEW c \in published, c.gap = Mine(t).gap PROVE FALSE
  BY DEF Uncommented
<1>1. PICK i \in DOMAIN rows : rows[i].rev = RevisionOf(c)
  BY DEF PostInv, ClaimsOK
<1>2. rows[i].rev = Rev(t) /\ RevisionOf(c) = RevisionOf(Mine(t))
  BY <1>1, MineAlone, OneHead DEF RevisionOf
<1>3. c.line = Mine(t).line
  BY <1>2 DEF RevisionOf
<1> QED BY <1>2, <1>3 DEF SameRevision, MarkerComments

\* An answer stays: a refusal is only replaced by a comment.
LEMMA AnswerStays ==
    ASSUME published \subseteq published', NEW f \in Finding, Heads = {1}, Answered(1, f),
           \A r \in Revision : writes[r].state = "failed" =>
              writes'[r].state = "failed" \/ \E c \in published : c.gap = r.gap
    PROVE  Answered(1, f)'
<1>1. [gap |-> f.gap, head |-> 1, line |-> f.line] \in Revision
  BY DEF Revision, Finding
<1> QED BY <1>1 DEF Answered

\* A tick that is idle has nothing to post.
LEMMA PostIdle ==
    ASSUME NEW t \in Ticks, tick'[t].pc = "idle" PROVE PostOK(t)'
BY DEF PostOK, Unclaimed, Unbound

\* A step of the tick at work.
LEMMA PostByOne ==
    ASSUME OneRevision, PostInv, AuditInv', [ReviewNext]_reviewVars, NEW t \in Ticks, tick[t].pc # "idle",
           \A u \in Ticks \ {t} : tick'[u] = tick[u],
           published \subseteq published',
           \A r \in Revision : writes[r].state = "failed" =>
              writes'[r].state = "failed" \/ \E c \in published : c.gap = r.gap,
           \A i \in DOMAIN rows : i \in DOMAIN rows' /\ rows'[i].rev = rows[i].rev,
           \A i \in DOMAIN rows' : i \in DOMAIN rows \/ (Works(t) /\ rows'[i].rev = Rev(t)),
           \A c \in published' \cup pending'.comments :
              \/ c \in published \cup pending.comments
              \/ c.id # NoComment /\ \E i \in DOMAIN rows : rows[i].rev = RevisionOf(c),
           jobs'[1].state = "done" =>
              jobs[1].state = "done" \/ \A n \in DOMAIN jobs[1].findings : Answered(1, jobs[1].findings[n]),
           AtMostOneComment', PostOK(t)'
    PROVE  PostInv'
<1>1. /\ ReviewInv /\ Heads = {1} /\ jobs[1].state \in Worked
      /\ \A n \in DOMAIN jobs[1].findings : jobs[1].findings[n] \in Finding
  <2>1. ReviewInv /\ Heads = {1} /\ tick[t].head = 1
    BY OneHead
  <2> QED BY <2>1, OneHead DEF ReviewInv, WorkOK, Worked
<1>2. jobs'[1].findings = jobs[1].findings
  BY <1>1, FindingsStay
<1>3. jobs'[1].state \in Worked
  BY <1>1, FindingsStay
<1>4. ASSUME NEW i \in DOMAIN rows'
      PROVE  \E n \in DOMAIN jobs[1].findings : rows'[i].rev = RevisionOf(jobs[1].findings[n])
  <2>1. CASE i \in DOMAIN rows
    BY <2>1 DEF PostInv, ClaimsOK
  <2>2. CASE Works(t) /\ rows'[i].rev = Rev(t)
    BY <2>2, OneHead
  <2> QED BY <2>1, <2>2
<1>5. ASSUME NEW c \in published' \cup pending'.comments
      PROVE  c.id # NoComment /\ \E i \in DOMAIN rows' : rows'[i].rev = RevisionOf(c)
  <2>1. c.id # NoComment /\ \E i \in DOMAIN rows : rows[i].rev = RevisionOf(c)
    BY <1>5 DEF PostInv, ClaimsOK
  <2> QED BY <2>1
<1>6. ClaimsOK'
  BY <1>2, <1>3, <1>4, <1>5 DEF ClaimsOK, Worked, RevisionOf
<1>7. DoneOK'
  <2>1. ASSUME jobs'[1].state = "done", NEW n \in DOMAIN jobs[1].findings
        PROVE  Answered(1, jobs[1].findings[n])
    BY <2>1 DEF PostInv, DoneOK
  <2>2. ASSUME jobs'[1].state = "done", NEW n \in DOMAIN jobs[1].findings
        PROVE  Answered(1, jobs[1].findings[n])'
    <3>1. PICK f \in Finding : f = jobs[1].findings[n] /\ f = jobs'[1].findings[n]
      BY <1>1, <1>2
    <3>2. Answered(1, f)
      BY <2>1, <2>2, <3>1
    <3>3. Answered(1, f)'
      BY <1>1, <3>2, AnswerStays
    <3> QED BY <3>1, <3>3 DEF Answered
  <2> QED BY <1>2, <2>2 DEF DoneOK
<1>8. ASSUME NEW u \in Ticks PROVE PostOK(u)'
  <2>1. CASE u = t
    BY <2>1
  <2>2. CASE u # t
    <3>1. tick'[u].pc = "idle"
      BY <2>2 DEF PostInv, AuditInv, OneAtWork
    <3> QED BY <3>1, PostIdle
  <2> QED BY <2>1, <2>2
<1> QED BY <1>6, <1>7, <1>8 DEF PostInv

\* The answers to the findings before the one at hand stay.
LEMMA EarlierStay ==
    ASSUME OneRevision, PostInv, [ReviewNext]_reviewVars, NEW t \in Ticks, tick[t].pc # "idle",
           published \subseteq published',
           \A r \in Revision : writes[r].state = "failed" =>
              writes'[r].state = "failed" \/ \E c \in published : c.gap = r.gap,
           NEW n \in DOMAIN jobs[1].findings, Answered(1, jobs[1].findings[n])
    PROVE  Answered(1, jobs[1].findings[n])'
<1>1. Heads = {1} /\ jobs[1].state \in Worked /\ ReviewInv /\ jobs[1].findings[n] \in Finding
  <2>1. ReviewInv /\ Heads = {1} /\ tick[t].head = 1
    BY OneHead
  <2> QED BY <2>1, OneHead DEF ReviewInv, WorkOK, Worked
<1>2. PICK f \in Finding : f = jobs[1].findings[n] /\ f = jobs'[1].findings[n]
  BY <1>1, FindingsStay
<1>3. Answered(1, f)
  BY <1>2
<1>4. Answered(1, f)'
  BY <1>1, <1>3, AnswerStays
<1> QED BY <1>2, <1>4 DEF Answered

\* A finding before the one at hand is one of the job's.
LEMMA EarlierFinding ==
    ASSUME OneRevision, PostInv, NEW t \in Ticks, Works(t) \/ tick[t].pc = "recommend",
           NEW n \in 1 .. tick[t].next - 1
    PROVE  Answered(1, jobs[1].findings[n])
BY OneHead DEF PostOK, Works

\* A tick that goes on with its finding.
LEMMA PostGoes ==
    ASSUME OneRevision, PostInv, [ReviewNext]_reviewVars, NEW t \in Ticks, Works(t),
           tick'[t].pc \in PC \ {"idle", "posted", "refresh", "skip"},
           tick'[t].head = tick[t].head, tick'[t].next = tick[t].next,
           published \subseteq published',
           \A r \in Revision : writes[r].state = "failed" =>
              writes'[r].state = "failed" \/ \E c \in published : c.gap = r.gap,
           tick'[t].pc \notin Unclaimed => rows'[tick'[t].row].rev = Rev(t),
           tick'[t].pc = "sameRevision" => \E i \in DOMAIN rows' : rows'[i].rev = Rev(t),
           \/ tick'[t].pc = "lookup" /\ ~ tick'[t].resumed
           \/ tick'[t].pc = "plan" /\ tick'[t].comment = NoComment
           \/ tick'[t].pc \in {"create", "clear", "recreate", "add", "undo", "submit"}
           => \A c \in published' : c.gap # Mine(t).gap,
           tick'[t].pc = "add" => pending' = EmptyReview,
           tick'[t].pc = "submit" => \A c, d \in pending'.comments : c = d,
           tick'[t].pc = "release" => writes'[Rev(t)].state = "failed"
    PROVE  PostOK(t)'
<1>1. Mine(t)' = Mine(t) /\ Rev(t)' = Rev(t)
  BY OneHead, MineStays DEF Works
<1>2. ASSUME NEW n \in 1 .. tick[t].next - 1 PROVE Answered(1, jobs[1].findings[n])'
  <2>1. Answered(1, jobs[1].findings[n])
    BY EarlierFinding
  <2>2. n \in DOMAIN jobs[1].findings
    <3>1. PICK f \in Seq(Finding) : f = jobs[1].findings
      BY OneHead
    <3>2. DOMAIN f = 1 .. Len(f) /\ Len(f) \in Nat
      BY LenProperties
    <3>3. tick[t].next \in 1 .. Len(f)
      BY <3>1, <3>2, OneHead
    <3> QED BY <3>1, <3>2, <3>3
  <2> QED BY <2>1, <2>2, EarlierStay DEF Works
<1>3. \A n \in 1 .. tick'[t].next - 1 : Answered(1, jobs[1].findings[n])'
  BY <1>2
<1>4. /\ tick'[t].pc = "sameRevision" => SameRevision(Rev(t))' # {}
      /\ \/ tick'[t].pc = "lookup" /\ ~ tick'[t].resumed
         \/ tick'[t].pc = "plan" /\ tick'[t].comment = NoComment
         \/ tick'[t].pc \in {"create", "clear", "recreate", "add", "undo", "submit"}
         => Uncommented(Mine(t).gap)'
  BY <1>1 DEF SameRevision, Uncommented
<1> QED BY <1>1, <1>3, <1>4 DEF PostOK

\* A tick that leaves, or that has an answer and goes on to the next finding.
LEMMA PostLeaves ==
    ASSUME OneRevision, PostInv, [ReviewNext]_reviewVars, NEW t \in Ticks, tick[t].pc # "idle",
           published \subseteq published',
           \A r \in Revision : writes[r].state = "failed" =>
              writes'[r].state = "failed" \/ \E c \in published : c.gap = r.gap,
           \/ UNCHANGED pull /\ (Throw(t) \/ Settle(t, "done"))
           \/ Crash(t)
           \/ NextFinding(t) /\ Works(t) /\ Answered(1, Mine(t))
    PROVE  PostOK(t)'
<1>1. tick \in [Ticks -> TickRows] /\ ReviewInv
  BY OneHead, ReviewTypes
<1>2. CASE tick' = [tick EXCEPT ![t] = Idle]
  <2>1. tick'[t].pc = "idle"
    BY <1>1, <1>2 DEF Idle, TickAt
  <2> QED BY <2>1, PostIdle
<1>3. CASE NextFinding(t) /\ Works(t) /\ Answered(1, Mine(t))
  <2>1. tick'[t].pc = "claim" /\ tick'[t].next = tick[t].next + 1
    BY <1>1, <1>3 DEF NextFinding, AfterFinding, TickAt
  <2>2. ASSUME NEW n \in 1 .. tick[t].next PROVE Answered(1, jobs[1].findings[n])'
    <3>1. PICK f \in Seq(Finding) : f = jobs[1].findings
      BY OneHead
    <3>2. DOMAIN f = 1 .. Len(f) /\ Len(f) \in Nat
      BY LenProperties
    <3>3. tick[t].next \in 1 .. Len(f)
      BY <1>3, <3>1, <3>2, OneHead
    <3>4. n \in DOMAIN jobs[1].findings
      BY <3>1, <3>2, <3>3
    <3>5. Answered(1, jobs[1].findings[n])
      <4>1. CASE n = tick[t].next
        BY <1>3, <4>1, OneHead
      <4>2. CASE n # tick[t].next
        <5>1. n \in 1 .. tick[t].next - 1
          BY <3>2, <3>3, <4>2
        <5> QED BY <1>3, <5>1, EarlierFinding
      <4> QED BY <4>1, <4>2
    <3> QED BY <3>4, <3>5, EarlierStay
  <2>3. \A n \in 1 .. tick'[t].next - 1 : Answered(1, jobs[1].findings[n])'
    <3>1. tick[t].next \in Nat
      BY <1>1 DEF TickRows
    <3>2. tick'[t].next - 1 = tick[t].next
      BY <2>1, <3>1
    <3> QED BY <2>2, <3>2
  <2> QED BY <2>1, <2>3 DEF PostOK, Unclaimed, Unbound
<1> QED BY <1>1, <1>2, <1>3, ThrowGoes, SettleGoes DEF Crash, Worked

\* A step of the tick at work that does not touch GitHub.
LEMMA PostOffline ==
    ASSUME OneRevision, PostInv, AuditInv', [ReviewNext]_reviewVars, NEW t \in Ticks, tick[t].pc # "idle",
           \A u \in Ticks \ {t} : tick'[u] = tick[u], UNCHANGED provider,
           \A r \in Revision : writes[r].state = "failed" =>
              writes'[r].state = "failed" \/ \E c \in published : c.gap = r.gap,
           \A i \in DOMAIN rows : i \in DOMAIN rows' /\ rows'[i].rev = rows[i].rev,
           \A i \in DOMAIN rows' : i \in DOMAIN rows \/ (Works(t) /\ rows'[i].rev = Rev(t)),
           jobs'[1].state = "done" =>
              jobs[1].state = "done" \/ \A n \in DOMAIN jobs[1].findings : Answered(1, jobs[1].findings[n]),
           PostOK(t)'
    PROVE  PostInv'
<1>1. published' = published /\ pending' = pending
  BY DEF provider
<1>2. AtMostOneComment'
  BY <1>1 DEF AtMostOneComment, PostInv
<1> QED BY <1>1, <1>2, PostByOne

\* The steps the one revision leaves out.
LEMMA NeverMoved ==
    ASSUME OneRevision, PostInv, NEW t \in Ticks
    PROVE  ~ (FindPosted(t) \/ RefreshPlacement(t) \/ RecordSkippedWrite(t) \/ SelectUnanswered(t)
              \/ FindExistingRefused(t))
BY OneHead DEF PostOK, FindPosted, RefreshPlacement, RecordSkippedWrite, SelectUnanswered,
   FindExistingRefused

LEMMA RecommendPosts ==
    ASSUME OneRevision, PostInv, AuditInv', [ReviewNext]_reviewVars, NEW t \in Ticks,
           UpsertRecommendation(t)
    PROVE  PostInv'
<1>1. /\ UNCHANGED <<jobs, rows, writes, provider>> /\ tick \in [Ticks -> TickRows]
      /\ tick[t].pc = "recommend" /\ PostOK(t)
  BY OneHead, ReviewTypes DEF UpsertRecommendation
<1>2. /\ tick'[t].pc = "claim" /\ tick'[t].next = tick[t].next
      /\ \A u \in Ticks \ {t} : tick'[u] = tick[u]
  BY <1>1 DEF UpsertRecommendation, Goto, TickRows
<1>3. ASSUME NEW n \in 1 .. tick[t].next - 1 PROVE Answered(1, jobs[1].findings[n])'
  <2>1. Answered(1, jobs[1].findings[n])
    BY <1>1, EarlierFinding
  <2> QED BY <1>1, <2>1 DEF Answered, provider
<1>4. PostOK(t)'
  BY <1>2, <1>3 DEF PostOK, Unclaimed, Unbound
<1> QED BY <1>1, <1>2, <1>4, PostOffline

LEMMA ClaimPosts ==
    ASSUME OneRevision, PostInv, AuditInv', [ReviewNext]_reviewVars, NEW t \in Ticks,
           Claim(t) \/ ClaimConflicts(t)
    PROVE  PostInv'
<1>1. /\ UNCHANGED <<jobs, writes, provider>> /\ tick \in [Ticks -> TickRows] /\ tick[t] \in TickRows
      /\ tick[t].pc = "claim" /\ Works(t) /\ ReviewInv
      /\ DOMAIN rows = 1 .. Len(rows) /\ Len(rows) \in Nat
  <2>1. ReviewInv
    BY OneHead
  <2> QED BY <2>1, ReviewTypes, WorksAt DEF Claim, ClaimConflicts, reviewTables
<1>2. published \subseteq published' /\ \A r \in Revision : writes[r].state = "failed" => writes'[r].state = "failed"
  BY <1>1 DEF provider
<1>3. CASE Claim(t)
  <2>1. /\ rows'[Len(rows) + 1] = [rev |-> Rev(t), status |-> "posted", comment |-> NoComment]
        /\ DOMAIN rows' = 1 .. Len(rows) + 1 /\ \A j \in DOMAIN rows : rows'[j] = rows[j]
    BY <1>1, <1>3, ClaimTyped
  <2>2. /\ tick'[t].pc = "lookup" /\ tick'[t].row = Len(rows) + 1
        /\ tick'[t].head = tick[t].head /\ tick'[t].next = tick[t].next
        /\ \A u \in Ticks \ {t} : tick'[u] = tick[u]
    BY <1>1, <1>3 DEF Claim, NewRow, TickRows
  <2>3. SameRevision(Rev(t)) = {}
    BY <1>3 DEF Claim, Conflicts
  <2>4. Uncommented(Mine(t).gap)
    BY <1>1, <2>3, MineUnseen
  <2>5. rows'[tick'[t].row].rev = Rev(t)
    BY <2>1, <2>2
  <2>6. \A c \in published' : c.gap # Mine(t).gap
    BY <1>1, <2>4 DEF Uncommented, provider
  <2>7. PostOK(t)'
    BY <1>1, <1>2, <2>2, <2>5, <2>6, PostGoes DEF PC, Unclaimed, Unbound
  <2>8. \A i \in DOMAIN rows' : i \in DOMAIN rows \/ (Works(t) /\ rows'[i].rev = Rev(t))
    <3>1. \A i \in DOMAIN rows' : i \in DOMAIN rows \/ i = Len(rows) + 1
      BY <1>1, <2>1
    <3> QED BY <1>1, <2>2, <2>5, <3>1
  <2>9. \A i \in DOMAIN rows : i \in DOMAIN rows' /\ rows'[i].rev = rows[i].rev
    BY <1>1, <2>1
  <2> QED BY <1>1, <1>2, <2>2, <2>7, <2>8, <2>9, PostOffline
<1>4. CASE ClaimConflicts(t)
  <2>1. /\ tick'[t].pc = "sameRevision"
        /\ tick'[t].head = tick[t].head /\ tick'[t].next = tick[t].next
        /\ \A u \in Ticks \ {t} : tick'[u] = tick[u]
    BY <1>1, <1>4 DEF ClaimConflicts, Goto, TickRows
  <2>2. UNCHANGED rows
    BY <1>4 DEF ClaimConflicts, reviewTables
  <2>3. PICK i \in DOMAIN rows : rows[i].rev = Rev(t) \/ rows[i].rev.gap = Rev(t).gap
    BY <1>4 DEF ClaimConflicts, Conflicts, SameRevision, PostedRows
  <2>4. rows[i].rev = Rev(t)
    BY <1>1, <2>3, MineAlone, OneHead
  <2>5. PostOK(t)'
    BY <1>1, <1>2, <2>1, <2>2, <2>4, PostGoes DEF PC, Unclaimed, Unbound
  <2> QED BY <1>1, <1>2, <2>1, <2>2, <2>5, PostOffline
<1> QED BY <1>3, <1>4

LEMMA SelectPosts ==
    ASSUME OneRevision, PostInv, AuditInv', [ReviewNext]_reviewVars, NEW t \in Ticks,
           FindSameRevision(t)
    PROVE  PostInv'
<1>1. /\ UNCHANGED <<jobs, rows, writes, provider>> /\ tick \in [Ticks -> TickRows] /\ tick[t] \in TickRows
      /\ tick[t].pc = "sameRevision" /\ Works(t) /\ ReviewInv /\ PostOK(t)
  <2>1. ReviewInv
    BY OneHead
  <2> QED BY <2>1, OneHead, ReviewTypes, WorksAt DEF FindSameRevision, reviewTables, Unbound
<1>2. published \subseteq published' /\ \A r \in Revision : writes[r].state = "failed" => writes'[r].state = "failed"
  BY <1>1 DEF provider
<1>3. SameRevision(Rev(t)) # {}
  BY <1>1 DEF PostOK
<1>4. PICK i \in DOMAIN rows : /\ rows[i].rev = Rev(t)
         /\ IF IsFinalized(rows[i]) THEN NextFinding(t)
            ELSE tick' = [tick EXCEPT ![t].pc = "lookup", ![t].row = i, ![t].resumed = TRUE]
  BY <1>3 DEF FindSameRevision, SameRevision
<1>5. CASE IsFinalized(rows[i])
  <2>1. IsPublished(rows[i].comment, rows[i].rev.gap)
    BY <1>5 DEF PostInv, AuditInv, AuditIsTrue
  <2>2. Answered(1, Mine(t))
    BY <1>1, <1>4, <2>1, OneHead DEF IsPublished, Answered
  <2>3. NextFinding(t)
    BY <1>4, <1>5
  <2>4. PostOK(t)' /\ \A u \in Ticks \ {t} : tick'[u] = tick[u]
    BY <1>1, <1>2, <2>2, <2>3, PostLeaves, LeavesClean
  <2> QED BY <1>1, <2>4, PostOffline
<1>6. CASE ~ IsFinalized(rows[i])
  <2>1. /\ tick'[t].pc = "lookup" /\ tick'[t].row = i /\ tick'[t].resumed
        /\ tick'[t].head = tick[t].head /\ tick'[t].next = tick[t].next
        /\ \A u \in Ticks \ {t} : tick'[u] = tick[u]
    BY <1>1, <1>4, <1>6 DEF TickRows
  <2>2. PostOK(t)'
    BY <1>1, <1>2, <1>4, <2>1, PostGoes DEF PC, Unclaimed, Unbound
  <2> QED BY <1>1, <2>1, <2>2, PostOffline
<1> QED BY <1>5, <1>6

LEMMA LookupPosts ==
    ASSUME OneRevision, PostInv, AuditInv', [ReviewNext]_reviewVars, NEW t \in Ticks,
           FindExternalWrite(t) \/ FindExistingComment(t)
    PROVE  PostInv'
<1>1. /\ UNCHANGED <<jobs, rows, writes, provider>> /\ tick \in [Ticks -> TickRows] /\ tick[t] \in TickRows
      /\ tick[t].pc \in {"lookup", "reconcile"} /\ Works(t) /\ ReviewInv /\ PostOK(t) /\ CommentOK(t)
  <2>1. ReviewInv
    BY OneHead
  <2> QED BY <2>1, OneHead, ReviewTypes, WorksAt DEF FindExternalWrite, FindExistingComment, reviewTables, Unbound
<1>2. published \subseteq published' /\ \A r \in Revision : writes[r].state = "failed" => writes'[r].state = "failed"
  BY <1>1 DEF provider
<1>3. rows[tick[t].row].rev = Rev(t)
  BY <1>1 DEF PostOK, Unclaimed, Unbound
<1>4. ASSUME NEW pc \in {"reconcile", "plan", "finalize"}, NEW c,
             Goto(t, pc) \/ (tick' = [tick EXCEPT ![t].pc = pc, ![t].comment = c] /\ (pc = "plan" => c # NoComment)),
             pc = "plan" /\ Goto(t, pc) => Uncommented(Mine(t).gap)
      PROVE  PostInv'
  <2>1. /\ tick'[t].pc = pc /\ tick'[t].row = tick[t].row
        /\ tick'[t].head = tick[t].head /\ tick'[t].next = tick[t].next
        /\ \A u \in Ticks \ {t} : tick'[u] = tick[u]
    BY <1>1, <1>4 DEF Goto, TickRows
  <2>2. tick'[t].pc = "plan" /\ tick'[t].comment = NoComment => Uncommented(Mine(t).gap)
    BY <1>1, <1>4, <2>1 DEF TickRows
  <2>3. PostOK(t)'
    BY <1>1, <1>2, <1>3, <2>1, <2>2, PostGoes DEF PC, Unclaimed, Unbound, Uncommented, provider
  <2> QED BY <1>1, <2>1, <2>3, PostOffline
<1>5. CASE FindExternalWrite(t)
  <2>1. CASE writes[Rev(t)].state = "succeeded"
    BY <1>4, <1>5, <2>1 DEF FindExternalWrite
  <2>2. CASE writes[Rev(t)].state # "succeeded" /\ Reconciles(t, writes[Rev(t)])
    BY <1>4, <1>5, <2>2 DEF FindExternalWrite
  <2>3. CASE writes[Rev(t)].state # "succeeded" /\ ~ Reconciles(t, writes[Rev(t)])
    <3>1. Goto(t, "plan")
      BY <1>5, <2>3 DEF FindExternalWrite
    <3>2. Uncommented(Mine(t).gap)
      BY <1>1, <1>5, <2>3 DEF Reconciles, PostOK, FindExternalWrite
    <3> QED BY <1>4, <3>1, <3>2
  <2> QED BY <2>1, <2>2, <2>3
<1>6. CASE FindExistingComment(t)
  <2>1. CASE MarkerComments(Mine(t)) = {} /\ Goto(t, "plan")
    <3>1. Uncommented(Mine(t).gap)
      BY <1>1, <2>1, MineUnseen
    <3> QED BY <1>4, <2>1, <3>1
  <2>2. CASE \E c \in MarkerComments(Mine(t)) : tick' = [tick EXCEPT ![t].pc = "plan", ![t].comment = c.id]
    <3>1. PICK c \in published : tick' = [tick EXCEPT ![t].pc = "plan", ![t].comment = c.id]
      BY <2>2 DEF MarkerComments
    <3>2. c.id # NoComment
      BY DEF PostInv, ClaimsOK
    <3>3. ~ Goto(t, "plan")
      <4>1. tick'[t].comment = c.id /\ tick[t].comment = NoComment
        BY <1>1, <1>6, <3>1 DEF TickRows, CommentOK, Unposted, FindExistingComment
      <4>2. Goto(t, "plan") => tick'[t].comment = tick[t].comment
        BY <1>1 DEF Goto, TickRows
      <4> QED BY <3>2, <4>1, <4>2
    <3> QED BY <1>4, <3>1, <3>2, <3>3
  <2> QED BY <1>6, <2>1, <2>2 DEF FindExistingComment
<1> QED BY <1>5, <1>6

LEMMA LeavePosts ==
    ASSUME OneRevision, PostInv, AuditInv', [ReviewNext]_reviewVars, NEW t \in Ticks,
           FindExistingThrows(t) \/ Finish(t) \/ Crash(t) \/ StatementFails(t)
    PROVE  PostInv'
<1>1. /\ UNCHANGED <<rows, writes, provider, pull>> /\ tick[t].pc # "idle" /\ ReviewInv /\ Heads = {1}
      /\ jobs[1].findings \in Seq(Finding) /\ tick[t].head = 1 /\ PostOK(t)
  <2>1. UNCHANGED <<rows, writes, provider, pull>> /\ tick[t].pc # "idle"
    BY DEF FindExistingThrows, Finish, Crash, StatementFails, reviewTables
  <2> QED BY <2>1, OneHead
<1>2. published \subseteq published' /\ \A r \in Revision : writes[r].state = "failed" => writes'[r].state = "failed"
  BY <1>1 DEF provider
<1>3. PostOK(t)' /\ \A u \in Ticks \ {t} : tick'[u] = tick[u]
  <2>1. CASE Throw(t) \/ Settle(t, "done")
    BY <1>1, <1>2, <2>1, PostLeaves, LeavesClean
  <2>2. CASE Crash(t)
    BY <1>1, <1>2, <2>2, PostLeaves, LeavesClean
  <2> QED BY <2>1, <2>2 DEF FindExistingThrows, Finish, StatementFails
<1>4. jobs'[1].state = "done" =>
         jobs[1].state = "done" \/ \A n \in DOMAIN jobs[1].findings : Answered(1, jobs[1].findings[n])
  <2>1. CASE Throw(t)
    BY <1>1, <2>1, ThrowGoes
  <2>2. CASE Crash(t)
    BY <2>2 DEF Crash
  <2>3. CASE Finish(t)
    <3>1. PICK f \in Seq(Finding) : f = jobs[1].findings
      BY <1>1
    <3>2. DOMAIN f = 1 .. Len(f) /\ Len(f) \in Nat
      BY LenProperties
    <3>3. tick[t].next > Len(f) /\ tick[t].next \in Nat
      BY <1>1, <2>3, <3>1, ReviewTypes DEF Finish, LoadFindings, TickRows
    <3>4. DOMAIN f \subseteq 1 .. tick[t].next - 1
      BY <3>2, <3>3
    <3> QED BY <1>1, <3>1, <3>4 DEF PostOK
  <2> QED BY <2>1, <2>2, <2>3 DEF FindExistingThrows, StatementFails
<1> QED BY <1>1, <1>2, <1>3, <1>4, PostOffline

LEMMA WritesPost ==
    ASSUME OneRevision, PostInv, AuditInv', [ReviewNext]_reviewVars, NEW t \in Ticks,
           InsertExternalWrite(t) \/ MarkFailed(t) \/ MarkSucceeded(t)
    PROVE  PostInv'
<1>1. /\ UNCHANGED <<jobs, rows, recommendation, provider, pull, hook, bounds>>
      /\ tick \in [Ticks -> TickRows] /\ tick[t] \in TickRows /\ writes \in [Revision -> WriteRows]
      /\ tick[t].pc \in {"plan", "fail", "succeed"} /\ Works(t) /\ ReviewInv /\ PostOK(t) /\ CommentOK(t)
  <2>1. ReviewInv
    BY OneHead
  <2> QED BY <2>1, OneHead, ReviewTypes, WorksAt DEF InsertExternalWrite, MarkFailed, MarkSucceeded, Unbound
<1>2. PICK rev \in Revision : rev = Rev(t) /\ rev.gap = Mine(t).gap
  BY <1>1, OneHead
<1>3. rows[tick[t].row].rev = Rev(t)
  BY <1>1 DEF PostOK, Unclaimed, Unbound
<1>4. ASSUME NEW pc \in {"create", "succeed", "release", "finalize"}, Goto(t, pc),
             \A r \in Revision : writes[r].state = "failed" =>
                writes'[r].state = "failed" \/ \E c \in published : c.gap = r.gap,
             pc = "create" => Uncommented(Mine(t).gap),
             pc = "release" => writes'[rev].state = "failed"
      PROVE  PostInv'
  <2>1. /\ tick'[t].pc = pc /\ tick'[t].row = tick[t].row
        /\ tick'[t].head = tick[t].head /\ tick'[t].next = tick[t].next
        /\ \A u \in Ticks \ {t} : tick'[u] = tick[u]
    BY <1>1, <1>4 DEF Goto, TickRows
  <2>2. published \subseteq published' /\ (pc = "create" => \A c \in published' : c.gap # Mine(t).gap)
    BY <1>1, <1>4 DEF Uncommented, provider
  <2>3. PostOK(t)'
    BY <1>1, <1>2, <1>3, <1>4, <2>1, <2>2, PostGoes DEF PC, Unclaimed, Unbound
  <2> QED BY <1>1, <1>4, <2>1, <2>3, PostOffline
<1>5. CASE InsertExternalWrite(t)
  <2>1. writes' = Inserted(rev, "planned")
    BY <1>2, <1>5 DEF InsertExternalWrite
  <2>2. \A r \in Revision : writes[r].state = "failed" => writes'[r].state = "failed"
    BY <1>1, <2>1, InsertedRows DEF WriteState
  <2>3. CASE tick[t].comment = NoComment
    <3>1. Uncommented(Mine(t).gap)
      BY <1>1, <1>5, <2>3 DEF PostOK, InsertExternalWrite
    <3> QED BY <1>4, <1>5, <2>2, <2>3, <3>1 DEF InsertExternalWrite
  <2>4. CASE tick[t].comment # NoComment
    BY <1>4, <1>5, <2>2, <2>4 DEF InsertExternalWrite
  <2> QED BY <2>3, <2>4
<1>6. CASE MarkFailed(t)
  <2>1. writes' = [writes EXCEPT ![rev].state = "failed"]
    BY <1>2, <1>6 DEF MarkFailed
  <2>2. writes'[rev].state = "failed" /\ \A r \in Revision : r # rev => writes'[r] = writes[r]
    BY <1>1, <2>1 DEF WriteRows
  <2>3. Goto(t, "release")
    BY <1>6 DEF MarkFailed
  <2>4. \A r \in Revision : writes[r].state = "failed" => writes'[r].state = "failed"
    BY <2>2
  <2> QED BY <1>4, <2>2, <2>3, <2>4
<1>7. CASE MarkSucceeded(t)
  <2>1. writes' = [writes EXCEPT ![rev] = [state |-> "succeeded", comment |-> tick[t].comment]]
    BY <1>2, <1>7 DEF MarkSucceeded
  <2>2. \A r \in Revision : r # rev => writes'[r] = writes[r]
    BY <1>1, <2>1
  <2>3. \E c \in published : c.gap = rev.gap
    BY <1>1, <1>2, <1>7 DEF CommentOK, IsPublished, MarkSucceeded
  <2> QED BY <1>4, <1>7, <2>2, <2>3 DEF MarkSucceeded
<1> QED BY <1>5, <1>6, <1>7

LEMMA RowsPost ==
    ASSUME OneRevision, PostInv, AuditInv', [ReviewNext]_reviewVars, NEW t \in Ticks,
           OutdateComment(t) \/ FinalizeComment(t)
    PROVE  PostInv'
<1>1. /\ UNCHANGED <<writes, provider, pull>> /\ rows \in Seq(CommentRows) /\ Heads = {1}
      /\ tick[t].pc \in {"release", "finalize"} /\ Works(t) /\ ReviewInv /\ PostOK(t) /\ CommentOK(t)
      /\ tick[t].row \in DOMAIN rows
  <2>1. ReviewInv
    BY OneHead
  <2> QED BY <2>1, OneHead, ReviewTypes, WorksAt DEF OutdateComment, FinalizeComment, Unbound, Unclaimed, TickOK
<1>2. PICK i \in DOMAIN rows : i = tick[t].row
  BY <1>1
<1>3. rows[i] \in CommentRows
  BY <1>1, ReviewTypes
<1>4. DOMAIN rows' = DOMAIN rows /\ \A j \in DOMAIN rows : rows'[j].rev = rows[j].rev
  <2>1. CASE OutdateComment(t)
    <3>1. rows' = [rows EXCEPT ![i].status = "outdated"]
      BY <1>2, <2>1 DEF OutdateComment
    <3> QED BY <1>3, <3>1 DEF CommentRows
  <2>2. CASE FinalizeComment(t)
    <3>1. rows' = [rows EXCEPT ![i].comment = tick[t].comment]
      BY <1>2, <2>2 DEF FinalizeComment
    <3> QED BY <1>3, <3>1 DEF CommentRows
  <2> QED BY <2>1, <2>2
<1>5. Answered(1, Mine(t))
  <2>1. CASE OutdateComment(t)
    <3>1. writes[Rev(t)].state = "failed" /\ Rev(t) = RevisionOf(Mine(t))
      BY <1>1, <2>1, OneHead DEF OutdateComment, PostOK
    <3> QED BY <3>1 DEF Answered, RevisionOf
  <2>2. CASE FinalizeComment(t)
    BY <1>1, <2>2 DEF CommentOK, IsPublished, FinalizeComment, Answered
  <2> QED BY <2>1, <2>2
<1>6. published \subseteq published' /\ \A r \in Revision : writes[r].state = "failed" => writes'[r].state = "failed"
  BY <1>1 DEF provider
<1>7. Throw(t) \/ (NextFinding(t) /\ UNCHANGED jobs)
  BY DEF OutdateComment, FinalizeComment
<1>8. PostOK(t)' /\ \A u \in Ticks \ {t} : tick'[u] = tick[u]
  BY <1>1, <1>5, <1>6, <1>7, PostLeaves, LeavesClean DEF Works
<1>9. jobs'[1].state = "done" => jobs[1].state = "done"
  BY <1>1, <1>7, ThrowGoes DEF Works
<1> QED BY <1>1, <1>4, <1>6, <1>8, <1>9, PostOffline DEF Works

\* The calls to GitHub: one comment is added, and it is alone when it is submitted.
LEMMA ProviderPosts ==
    ASSUME OneRevision, PostInv, AuditInv', [ReviewNext]_reviewVars, NEW t \in Ticks,
           \/ CreateReview(t) \/ DeletePending(t) \/ AddComment(t) \/ SubmitReview(t)
           \/ CallFails(t)
    PROVE  PostInv'
<1>1. /\ UNCHANGED <<jobs, rows, writes>> /\ tick \in [Ticks -> TickRows] /\ tick[t] \in TickRows
      /\ tick[t].pc \in {"create", "clear", "recreate", "add", "undo", "submit"}
      /\ Works(t) /\ ReviewInv /\ PostOK(t) /\ CommentOK(t) /\ AtMostOneComment
      /\ pending \in [open : BOOLEAN, comments : SUBSET Comment] /\ added \in Nat
  <2>1. ReviewInv
    BY OneHead
  <2>2. pending \in [open : BOOLEAN, comments : SUBSET Comment] /\ added \in Nat
    BY <2>1 DEF ReviewInv, ReviewTypeOK
  <2> QED BY <2>1, <2>2, OneHead, ReviewTypes, WorksAt DEF CreateReview, DeletePending, AddComment, SubmitReview,
          CallFails, reviewTables, Unbound, PostInv
<1>2. rows[tick[t].row].rev = Rev(t) /\ tick[t].row \in DOMAIN rows /\ Rev(t) = RevisionOf(Mine(t))
  BY <1>1, OneHead, ReviewTypes DEF PostOK, Unclaimed, Unbound, TickOK
<1>3. Uncommented(Mine(t).gap)
  BY <1>1 DEF PostOK
<1>4. ASSUME Applied(t)
      PROVE  /\ published \subseteq published'
             /\ \A c \in published' \cup pending'.comments :
                   \/ c \in published \cup pending.comments
                   \/ c.id # NoComment /\ \E i \in DOMAIN rows : rows[i].rev = RevisionOf(c)
             /\ AtMostOneComment'
  <2>1. CASE pending' = EmptyReview /\ UNCHANGED <<published, added>>
    BY <1>1, <2>1 DEF EmptyReview, AtMostOneComment
  <2>2. CASE tick[t].pc = "add" /\ pending' = [pending EXCEPT !.comments = WithComment(t)] /\ UNCHANGED published
    <3>1. pending'.comments = WithComment(t)
      BY <1>1, <2>2
    <3>2. added + 1 # NoComment
      BY <1>1 DEF NoComment
    <3>3. RevisionOf([id |-> added + 1, gap |-> Mine(t).gap, line |-> Mine(t).line]) = Rev(t)
      BY <1>2 DEF RevisionOf
    <3> QED BY <1>1, <1>2, <2>2, <3>1, <3>2, <3>3 DEF WithComment, AtMostOneComment
  <2>3. CASE tick[t].pc = "submit" /\ published' = published \cup pending.comments /\ pending' = NoReview
    <3>1. \A c, d \in pending.comments : c = d
      BY <1>1, <2>3 DEF PostOK
    <3>2. \E c \in pending.comments : c.gap = Mine(t).gap
      BY <1>1, <2>3 DEF CommentOK
    <3>3. \A c \in pending.comments : c.gap = Mine(t).gap
      BY <3>1, <3>2
    <3>4. AtMostOneComment'
      BY <1>1, <1>3, <2>3, <3>1, <3>3 DEF AtMostOneComment, Uncommented
    <3> QED BY <2>3, <3>4 DEF NoReview
  <2> QED BY <1>4, <2>1, <2>2, <2>3 DEF Applied
<1>5. /\ published \subseteq published'
      /\ \A c \in published' \cup pending'.comments :
            \/ c \in published \cup pending.comments
            \/ c.id # NoComment /\ \E i \in DOMAIN rows : rows[i].rev = RevisionOf(c)
      /\ AtMostOneComment'
  <2>1. CASE Applied(t)
    BY <1>4, <2>1
  <2>2. CASE UNCHANGED provider
    BY <1>1, <2>2 DEF provider, AtMostOneComment
  <2>3. CASE DeletePending(t)
    BY <1>1, <2>3 DEF DeletePending, NoReview, AtMostOneComment
  <2> QED BY <2>1, <2>2, <2>3 DEF CreateReview, AddComment, SubmitReview, CallFails
<1>6. (\A u \in Ticks \ {t} : tick'[u] = tick[u]) /\ PostOK(t)' => PostInv'
  BY <1>1, <1>5, PostByOne
<1>7. ASSUME NEW pc \in {"clear", "recreate", "add", "undo", "submit", "fail", "succeed"},
             /\ tick'[t].pc = pc /\ tick'[t].row = tick[t].row
             /\ tick'[t].head = tick[t].head /\ tick'[t].next = tick[t].next
             /\ \A u \in Ticks \ {t} : tick'[u] = tick[u],
             pc \in {"fail", "succeed"} \/ UNCHANGED published,
             pc = "add" => pending' = EmptyReview,
             pc = "submit" => \A c, d \in pending'.comments : c = d
      PROVE  PostInv'
  <2>1. pc \notin {"fail", "succeed"} => \A c \in published' : c.gap # Mine(t).gap
    BY <1>3, <1>7 DEF Uncommented
  <2>2. PostOK(t)'
    BY <1>1, <1>2, <1>5, <1>7, <2>1, PostGoes DEF PC, Unclaimed, Unbound
  <2> QED BY <1>6, <1>7, <2>2
<1>8. ASSUME NEW pc \in {"clear", "recreate", "undo", "succeed", "add"}, Goto(t, pc),
             pc \in {"fail", "succeed"} \/ UNCHANGED published,
             pc = "add" => pending' = EmptyReview
      PROVE  PostInv'
  <2>1. /\ tick'[t].pc = pc /\ tick'[t].row = tick[t].row
        /\ tick'[t].head = tick[t].head /\ tick'[t].next = tick[t].next
        /\ \A u \in Ticks \ {t} : tick'[u] = tick[u]
    BY <1>1, <1>8 DEF Goto, TickRows
  <2> QED BY <1>7, <1>8, <2>1
<1>9. ASSUME NEW b \in BOOLEAN, Fails(t, b) PROVE PostInv'
  <2>1. /\ tick'[t].pc = "fail" /\ tick'[t].row = tick[t].row
        /\ tick'[t].head = tick[t].head /\ tick'[t].next = tick[t].next
        /\ \A u \in Ticks \ {t} : tick'[u] = tick[u]
    BY <1>1, <1>9 DEF Fails, TickRows
  <2> QED BY <1>7, <2>1
<1>10. CASE CreateReview(t)
  <2>1. CASE ~ pending.open /\ Goto(t, "add") /\ Applied(t)
    <3>1. pending' = EmptyReview /\ UNCHANGED published
      BY <1>10, <2>1 DEF Applied, CreateReview
    <3> QED BY <1>8, <2>1, <3>1
  <2>2. CASE Goto(t, "clear") /\ UNCHANGED provider
    BY <1>8, <2>2 DEF provider
  <2> QED BY <1>9, <1>10, <2>1, <2>2 DEF CreateReview
<1>11. CASE DeletePending(t)
  BY <1>8, <1>9, <1>11 DEF DeletePending
<1>12. CASE AddComment(t)
  <2>1. CASE Goto(t, "undo") /\ UNCHANGED provider
    BY <1>8, <2>1 DEF provider
  <2>2. CASE Applied(t) /\ tick' = [tick EXCEPT ![t].pc = "submit", ![t].comment = added + 1]
    <3>1. /\ tick'[t].pc = "submit" /\ tick'[t].row = tick[t].row
          /\ tick'[t].head = tick[t].head /\ tick'[t].next = tick[t].next
          /\ \A u \in Ticks \ {t} : tick'[u] = tick[u]
      BY <1>1, <2>2 DEF TickRows
    <3>2. pending' = [pending EXCEPT !.comments = WithComment(t)] /\ UNCHANGED published
      BY <1>12, <2>2 DEF AddComment, Applied
    <3>3. pending = EmptyReview
      BY <1>1, <1>12 DEF AddComment, PostOK
    <3>4. pending'.comments = {[id |-> added + 1, gap |-> Mine(t).gap, line |-> Mine(t).line]}
      BY <3>2, <3>3 DEF EmptyReview, WithComment
    <3> QED BY <1>7, <3>1, <3>2, <3>4
  <2> QED BY <1>12, <2>1, <2>2 DEF AddComment
<1>13. CASE SubmitReview(t)
  BY <1>8, <1>9, <1>13 DEF SubmitReview
<1>14. CASE CallFails(t)
  BY <1>9, <1>14 DEF CallFails
<1> QED BY <1>10, <1>11, <1>12, <1>13, <1>14

LEMMA StartPosts ==
    ASSUME OneRevision, PostInv, AuditInv', [ReviewNext]_reviewVars, NEW t \in Ticks, NEW h \in Heads,
           StartCompose(t, h)
    PROVE  PostInv'
<1>1. /\ UNCHANGED <<rows, writes, provider>> /\ tick \in [Ticks -> TickRows] /\ jobs \in [Heads -> JobRows]
      /\ Heads = {1} /\ h = 1 /\ jobs[1].state = "analyzed" /\ ReviewInv
  <2>1. ReviewInv /\ Heads = {1}
    BY OneHead
  <2> QED BY <2>1, ReviewTypes DEF StartCompose, reviewTables
<1>2. jobs'[1].state = "analyzed" /\ jobs'[1].findings = jobs[1].findings
  <2>1. jobs' = [jobs EXCEPT ![1].owner = t, ![1].attempt = @ + 1]
    BY <1>1 DEF StartCompose
  <2> QED BY <1>1, <2>1 DEF JobRows
<1>3. ClaimsOK' /\ AtMostOneComment' /\ DoneOK'
  BY <1>1, <1>2 DEF PostInv, ClaimsOK, AtMostOneComment, DoneOK, provider, RevisionOf
<1>4. PICK pc \in {"claim", "recommend"} : tick' = [tick EXCEPT ![t] = TickAt(pc, h, 1)]
  BY DEF StartCompose
<1>5. tick'[t].pc = pc /\ tick'[t].next = 1 /\ \A u \in Ticks \ {t} : tick'[u] = tick[u]
  BY <1>1, <1>4 DEF TickAt
<1>6. PostOK(t)'
  BY <1>5 DEF PostOK, Unclaimed, Unbound
<1>7. tick'[t].pc # "idle"
  BY <1>5
<1>8. ASSUME NEW u \in Ticks \ {t} PROVE PostOK(u)'
  <2>1. tick'[u].pc = "idle"
    BY <1>7 DEF AuditInv, OneAtWork
  <2> QED BY <2>1, PostIdle
<1> QED BY <1>3, <1>6, <1>8 DEF PostInv

LEMMA OthersPost ==
    ASSUME OneRevision, PostInv, AuditInv', [ReviewNext]_reviewVars,
           Lifecycle \/ UNCHANGED reviewVars \/ \E h \in Heads : FetchDiff(h) \/ Analyze(h)
    PROVE  PostInv'
<1>1. /\ UNCHANGED <<writes, provider, tick>> /\ ReviewInv /\ Heads = {1} /\ jobs \in [Heads -> JobRows]
  <2>1. ReviewInv /\ Heads = {1}
    BY OneHead
  <2> QED BY <2>1, ReviewTypes DEF Lifecycle, Push, ClosePr, ReopenPr, OutdateComments, OutdateRecommendation,
          ReactivateRecommendation, FetchDiff, Analyze, reviewVars, reviewTables
<1>2. DOMAIN rows' = DOMAIN rows /\ \A i \in DOMAIN rows : rows'[i].rev = rows[i].rev
  <2>1. CASE UNCHANGED rows
    BY <2>1
  <2>2. CASE rows' = [i \in DOMAIN rows |-> [rows[i] EXCEPT !.status = "outdated"]]
    <3>1. \A i \in DOMAIN rows : rows[i] \in CommentRows
      BY <1>1, ReviewTypes
    <3> QED BY <2>2, <3>1 DEF CommentRows
  <2> QED BY <2>1, <2>2 DEF Lifecycle, Push, ClosePr, ReopenPr, OutdateComments, OutdateRecommendation,
        ReactivateRecommendation, FetchDiff, Analyze, reviewVars, reviewTables
<1>3. AtMostOneComment'
  BY <1>1 DEF PostInv, AtMostOneComment, provider
<1>4. CASE jobs[1].state \in Worked
  <2>1. UNCHANGED jobs
    <3>1. ~ Push
      <4>1. Push => pull.head = 0
        BY <1>1 DEF Push, OneRevision, ReviewInv, ReviewTypeOK
      <4> QED BY <1>1, <1>4, <4>1 DEF ReviewInv, WorkOK, Worked
    <3>2. \A h \in Heads : ~ FetchDiff(h) /\ ~ Analyze(h)
      BY <1>1, <1>4 DEF FetchDiff, Analyze, Worked
    <3> QED BY <3>1, <3>2 DEF Lifecycle, ClosePr, ReopenPr, OutdateComments, OutdateRecommendation,
            ReactivateRecommendation, reviewVars
  <2>2. ClaimsOK' /\ DoneOK'
    BY <1>1, <1>2, <2>1 DEF PostInv, ClaimsOK, DoneOK, Answered, RevisionOf, provider
  <2>3. ASSUME NEW t \in Ticks PROVE PostOK(t)'
    <3>1. CASE tick[t].pc = "idle"
      BY <1>1, <3>1, PostIdle
    <3>2. CASE tick[t].pc # "idle"
      <4>1. Mine(t)' = Mine(t) /\ Rev(t)' = Rev(t)
        BY <1>1, <3>2, MineStays
      <4>2. PostOK(t) /\ TickOK(t)
        BY <1>1, OneHead, ReviewTypes
      <4>3. SameRevision(Rev(t))' = SameRevision(Rev(t))
        BY <1>2, <4>1 DEF SameRevision
      <4>4. tick[t].pc \notin Unclaimed => rows'[tick[t].row].rev = Rev(t)
        BY <1>2, <4>2 DEF PostOK, TickOK
      <4>5. \A n \in 1 .. tick[t].next - 1 : Answered(1, jobs[1].findings[n])'
        BY <1>1, <2>1, <3>2, <4>2 DEF PostOK, Answered, provider
      <4> QED BY <1>1, <4>1, <4>2, <4>3, <4>4, <4>5 DEF PostOK, Uncommented, provider
    <3> QED BY <3>1, <3>2
  <2> QED BY <1>3, <2>2, <2>3 DEF PostInv
<1>5. CASE jobs[1].state \notin Worked
  <2>1. jobs[1].findings = <<>>
    BY <1>5 DEF PostInv, ClaimsOK, Worked
  <2>2. DOMAIN rows = {}
    BY <2>1 DEF PostInv, ClaimsOK
  <2>3. published \cup pending.comments = {}
    BY <2>2 DEF PostInv, ClaimsOK
  <2>4. \A t \in Ticks : tick[t].pc = "idle"
    BY <1>1, <1>5 DEF ReviewInv, WorkOK, Worked
  <2>5. jobs'[1].state # "done" /\ (jobs'[1].state \notin Worked => jobs'[1].findings = <<>>)
    <3>1. CASE UNCHANGED jobs
      BY <1>5, <2>1, <3>1 DEF Worked
    <3>2. CASE Push
      <4>1. PICK g : jobs' = [jobs EXCEPT ![g].state = "queued"]
        BY <3>2 DEF Push
      <4> QED BY <1>1, <1>5, <2>1, <4>1 DEF JobRows, Worked
    <3>3. CASE FetchDiff(1)
      <4>1. PICK x \in {"superseded", "fetched"} : jobs' = [jobs EXCEPT ![1].state = x]
        BY <3>3 DEF FetchDiff, SaveDiff
      <4> QED BY <1>1, <2>1, <4>1 DEF JobRows
    <3>4. CASE Analyze(1)
      <4>1. PICK r : jobs' = [jobs EXCEPT ![1] = [@ EXCEPT !.state = "analyzed", !.findings = r]]
        BY <3>4 DEF Analyze, SaveFindings
      <4> QED BY <1>1, <4>1 DEF JobRows, Worked
    <3> QED BY <1>1, <3>1, <3>2, <3>3, <3>4 DEF Lifecycle, ClosePr, ReopenPr, OutdateComments,
            OutdateRecommendation, ReactivateRecommendation, reviewVars
  <2>6. ClaimsOK' /\ DoneOK'
    BY <1>1, <1>2, <2>2, <2>3, <2>5 DEF ClaimsOK, DoneOK, Worked, provider
  <2>7. \A t \in Ticks : PostOK(t)'
    BY <1>1, <2>4, PostIdle
  <2> QED BY <1>3, <2>6, <2>7 DEF PostInv
<1> QED BY <1>4, <1>5

LEMMA PostStep ==
    ASSUME OneRevision, LinesTell, PostInv, [ReviewNext]_reviewVars PROVE PostInv'
<1>1. AuditInv'
  BY OneHead, AuditStep DEF PostInv
<1>2. ASSUME NEW t \in Ticks, ComposeStep(t) PROVE PostInv'
  BY <1>1, <1>2, NeverMoved, RecommendPosts, ClaimPosts, SelectPosts, LookupPosts, LeavePosts, WritesPost,
     RowsPost, ProviderPosts, StartPosts DEF ComposeStep
<1>3. ASSUME NEW t \in Ticks, ComposeFault(t) PROVE PostInv'
  BY <1>1, <1>3, NeverMoved, LeavePosts, ProviderPosts DEF ComposeFault
<1> QED BY <1>1, <1>2, <1>3, OthersPost DEF ReviewNext

LEMMA PostStarts == ASSUME OneRevision PROVE ReviewInit => PostInv
<1> SUFFICES ASSUME ReviewInit PROVE PostInv
  OBVIOUS
<1>1. Heads = {1}
  BY DEF OneRevision, Heads
<1>2. jobs[1].state = "absent" /\ jobs[1].findings = <<>>
  BY <1>1 DEF ReviewInit
<1>3. ClaimsOK /\ AtMostOneComment /\ DoneOK
  BY <1>2 DEF ReviewInit, ClaimsOK, AtMostOneComment, DoneOK, NoReview
<1>4. ASSUME NEW t \in Ticks PROVE PostOK(t)
  <2>1. tick[t].pc = "idle"
    BY DEF ReviewInit, Idle, TickAt
  <2> QED BY <2>1 DEF PostOK, Unclaimed, Unbound
<1> QED BY <1>3, <1>4, AuditStarts DEF PostInv

LEMMA PostInvariant ==
    ASSUME OneRevision, LinesTell PROVE ReviewSpec => []PostInv
<1>1. PostInv /\ [ReviewNext]_reviewVars => PostInv'
  BY PostStep
<1> QED BY <1>1, PostStarts, PTL DEF ReviewSpec

\* Nobody sees two comments on one gap of the revision, whatever crashes, statements
\* that fail and calls that go unanswered (AtMostOneComment).
LEMMA NeverTwoComments ==
    ASSUME OneRevision, LinesTell PROVE ReviewSpec => []AtMostOneComment
<1>1. PostInv => AtMostOneComment
  BY DEF PostInv
<1> QED BY <1>1, PostInvariant, PTL

\* The findings of a job that succeeded each have a comment, or an audit row that says
\* GitHub refused it (EveryFindingAnswered).
LEMMA FindingsAreAnswered ==
    ASSUME OneRevision, LinesTell PROVE ReviewSpec => []EveryFindingAnswered
<1>1. PostInv => EveryFindingAnswered
  <2> SUFFICES ASSUME PostInv PROVE EveryFindingAnswered
    OBVIOUS
  <2>1. \A h \in Heads : h = 1
    BY DEF OneRevision, Heads
  <2> QED BY <2>1 DEF PostInv, DoneOK, EveryFindingAnswered
<1> QED BY <1>1, PostInvariant, PTL
=============================================================================
