----------------------- MODULE RepositoryScansProofs -----------------------
(***************************************************************************)
(* What becomes of a push, and of a dismissal, for every number of         *)
(* requests, executors, pushes, gaps and failures.                         *)
(***************************************************************************)
EXTENDS RepositoryScans, SequenceTheorems, TLAPS

-----------------------------------------------------------------------------
(* Rows.                                                                   *)

LEMMA ScanTypes ==
    ASSUME TypeOK
    PROVE  /\ Len(scans) \in Nat /\ DOMAIN scans = 1 .. Len(scans)
           /\ \A s \in DOMAIN scans : s \in Nat /\ scans[s] \in ScanState
           /\ \A h \in Handlers : handler[h] \in HandlerState
           /\ \A t \in Ticks : tick[t] \in TickState
           /\ \A p \in Pushes : delivery[p] \in DeliveryRows
<1>1. Len(scans) \in Nat /\ DOMAIN scans = 1 .. Len(scans)
  BY LenProperties DEF TypeOK
<1>2. \A s \in DOMAIN scans : scans[s] \in ScanState
  BY ElementOfSeq, <1>1 DEF TypeOK
<1> QED BY <1>1, <1>2 DEF TypeOK

\* Results that are there have their type.
LEMMA ResultTypes ==
    /\ \A code \in CommitFiles : <<code>> \in Codes /\ <<code>> # <<>>
    /\ \A code \in Codes : code # <<>> => code[1] \subseteq Gaps
    /\ \A answer \in Answers : answer \in Findings /\ answer # <<>>
    /\ \A answer \in Findings : answer # <<>> => answer[2] \subseteq Gaps
    /\ <<>> \in Codes /\ <<>> \in Findings
<1>1. \A code \in CommitFiles : <<code>> \in Codes /\ <<code>> # <<>>
  BY DEF Codes
<1>2. \A code \in Codes : code # <<>> => code[1] \subseteq Gaps
  BY DEF Codes, CommitFiles
<1>3. \A answer \in Answers : answer # <<>> /\ answer[2] \subseteq Gaps
  BY DEF Answers
<1> QED BY <1>1, <1>2, <1>3 DEF Findings, Codes

\* A step that takes no scan, no commit and no stamp away.
Grows ==
    /\ scans' \in Seq(ScanState)
    /\ \A s \in DOMAIN scans :
          /\ s \in DOMAIN scans' /\ scans'[s].sha = scans[s].sha
          /\ scans[s].stamps \subseteq scans'[s].stamps

LEMMA KeptStays ==
    ASSUME Grows
    PROVE  \A p : (HasScan(p) => HasScan(p)') /\ (Kept(p) => Kept(p)')
BY DEF Grows, HasScan, Kept

LEMMA GrowsStill ==
    ASSUME TypeOK, UNCHANGED scans
    PROVE  Grows
BY DEF Grows, TypeOK

\* A scan is updated.
RowMoves(s) ==
    /\ scans' \in Seq(ScanState) /\ DOMAIN scans' = DOMAIN scans
    /\ \A r \in DOMAIN scans \ {s} : scans'[r] = scans[r]
    /\ scans'[s].sha = scans[s].sha /\ scans[s].stamps \subseteq scans'[s].stamps

LEMMA SetRow ==
    ASSUME TypeOK, NEW s \in DOMAIN scans, NEW row \in ScanState, scans' = [scans EXCEPT ![s] = row]
    PROVE  /\ scans' \in Seq(ScanState) /\ DOMAIN scans' = DOMAIN scans
           /\ scans'[s] = row /\ \A r \in DOMAIN scans \ {s} : scans'[r] = scans[r]
<1>1. /\ Len(scans) \in Nat /\ DOMAIN scans = 1 .. Len(scans)
      /\ \A r \in DOMAIN scans : scans[r] \in ScanState
  BY ScanTypes
<1>2. scans \in [1 .. Len(scans) -> ScanState]
  BY <1>1, LenProperties DEF TypeOK
<1>3. /\ scans' \in [1 .. Len(scans) -> ScanState] /\ DOMAIN scans' = DOMAIN scans
      /\ scans'[s] = row /\ \A r \in DOMAIN scans \ {s} : scans'[r] = scans[r]
  BY <1>1, <1>2
<1>4. scans' \in Seq(ScanState)
  BY <1>1, <1>3, SeqDef
<1> QED BY <1>3, <1>4

LEMMA MovedGrows ==
    ASSUME NEW s \in DOMAIN scans, RowMoves(s)
    PROVE  Grows
BY DEF RowMoves, Grows

\* A commit is enqueued, once.
LEMMA WithScanTypes ==
    ASSUME TypeOK, OneEach, NEW p \in Primary, scans' = WithScan(p)
    PROVE  /\ Grows /\ HasScan(p)'
           /\ \A s \in DOMAIN scans : scans'[s] = scans[s]
           /\ \A s \in DOMAIN scans' : s \in DOMAIN scans \/ scans'[s].state = "queued"
           /\ \A s, r \in DOMAIN scans' : scans'[s].sha = scans'[r].sha => s = r
<1>1. CASE HasScan(p)
  <2>1. UNCHANGED scans
    BY <1>1 DEF WithScan
  <2> QED BY <1>1, <2>1, GrowsStill DEF HasScan, OneEach
<1>2. CASE ~HasScan(p)
  <2> DEFINE new == NewScan(p)
  <2>1. new \in ScanState /\ new.sha = p /\ new.state = "queued"
    <3>1. <<>> \in Codes /\ <<>> \in Findings
      BY ResultTypes
    <3> QED BY <3>1 DEF NewScan, ScanState, NoCommit
  <2>2. scans' = Append(scans, new)
    BY <1>2 DEF WithScan
  <2> HIDE DEF new
  <2>3. /\ scans' \in Seq(ScanState) /\ Len(scans') = Len(scans) + 1
        /\ \A s \in 1 .. Len(scans) : scans'[s] = scans[s]
        /\ scans'[Len(scans) + 1] = new
    BY <2>1, <2>2, AppendProperties DEF TypeOK
  <2>4. /\ Len(scans) \in Nat /\ DOMAIN scans = 1 .. Len(scans)
        /\ DOMAIN scans' = 1 .. Len(scans) + 1
    BY <2>3, ScanTypes, LenProperties
  <2>5. DOMAIN scans \subseteq DOMAIN scans' /\ Len(scans) + 1 \in DOMAIN scans'
    BY <2>4
  <2>6. \A s \in DOMAIN scans' : s \in DOMAIN scans \/ s = Len(scans) + 1
    BY <2>4
  <2>7. Grows
    BY <2>3, <2>4, <2>5 DEF Grows
  <2>8. HasScan(p)'
    BY <2>1, <2>3, <2>5 DEF HasScan
  <2>9. \A s, r \in DOMAIN scans' : scans'[s].sha = scans'[r].sha => s = r
    <3>1. \A s \in DOMAIN scans : scans'[s] = scans[s] /\ scans[s].sha # p
      BY <1>2, <2>3, <2>4 DEF HasScan
    <3>2. \A s, r \in DOMAIN scans : scans[s].sha = scans[r].sha => s = r
      BY DEF OneEach
    <3> QED BY <2>1, <2>3, <2>6, <3>1, <3>2
  <2>10. \A s \in DOMAIN scans' : s \in DOMAIN scans \/ scans'[s].state = "queued"
    BY <2>1, <2>3, <2>6
  <2>11. \A s \in DOMAIN scans : scans'[s] = scans[s]
    BY <2>3, <2>4
  <2> QED BY <2>7, <2>8, <2>9, <2>10, <2>11
<1> QED BY <1>1, <1>2

-----------------------------------------------------------------------------
(* The invariant over a step.                                              *)

LEMMA InvFrom ==
    ASSUME ScansInv, TypeOK', OneEach', Grows,
           \A h \in Handlers : handler'[h] = handler[h] \/ HandlerOK(h)',
           \A p \in Pushes : delivery'[p] = delivery[p] \/ DeliveryOK(p)',
           \A t \in Ticks : TickOK(t)',
           StampIsFollowed'
    PROVE  ScansInv'
<1>1. \A h \in Handlers : HandlerOK(h)'
  <2> SUFFICES ASSUME NEW h \in Handlers, handler'[h] = handler[h] PROVE HandlerOK(h)'
    OBVIOUS
  <2>1. HandlerOK(h)
    BY DEF ScansInv
  <2>2. handler[h].onto \in DOMAIN scans => handler'[h].onto \in DOMAIN scans'
    BY DEF Grows
  <2>3. Kept(handler[h].push) => Kept(handler[h].push)'
    <3> DEFINE p == handler[h].push
    <3>1. PICK q : q = p
      OBVIOUS
    <3>2. Kept(q) => Kept(q)'
      BY KeptStays
    <3>3. q = handler'[h].push
      BY <3>1
    <3> QED BY <3>1, <3>2, <3>3
  <2> QED BY <2>1, <2>2, <2>3 DEF HandlerOK
<1>2. \A p \in Pushes : DeliveryOK(p)'
  <2> SUFFICES ASSUME NEW p \in Pushes, delivery'[p] = delivery[p] PROVE DeliveryOK(p)'
    OBVIOUS
  <2>1. DeliveryOK(p) /\ (Kept(p) => Kept(p)')
    BY KeptStays DEF ScansInv
  <2> QED BY <2>1 DEF DeliveryOK
<1> QED BY <1>1, <1>2 DEF ScansInv

\* A tick that goes on over a scan of which a push may have changed the stamp.
LEMMA TickStays ==
    ASSUME TypeOK, Grows, NEW t \in Ticks, TickOK(t), tick'[t] = tick[t],
           \A s \in DOMAIN scans : Mine(t) = s =>
               /\ scans'[s].state = scans[s].state
               /\ scans'[s].code = scans[s].code /\ scans'[s].flagged = scans[s].flagged
               /\ tick[t].pc \in {"followup", "finish"} /\ ~scans'[s].late
                     => ~scans[s].late /\ scans'[s].pending = scans[s].pending
    PROVE  TickOK(t)'
<1>1. CASE tick[t].pc = "idle"
  BY <1>1 DEF TickOK, Mine
<1>2. CASE tick[t].pc # "idle"
  <2>1. PICK s \in DOMAIN scans : s = Mine(t)
    BY <1>2 DEF TickOK
  <2>2. s \in DOMAIN scans' /\ Mine(t)' = s
    BY <2>1 DEF Grows, Mine
  <2>3. MyScan(t) = scans[s] /\ MyScan(t)' = scans'[s]
    BY <2>1, <2>2 DEF MyScan
  <2>4. PICK p : p = tick[t].pending
    OBVIOUS
  <2>5. tick'[t].pending = p /\ (HasScan(p) => HasScan(p)')
    BY <2>4, KeptStays
  <2>6. tick[t].pc = "finish" => p = 0 \/ HasScan(p)'
    BY <1>2, <2>4, <2>5 DEF TickOK
  <2> QED BY <1>2, <2>1, <2>2, <2>3, <2>4, <2>5, <2>6 DEF TickOK
<1> QED BY <1>1, <1>2

\* What a success leaves stays, when no other scan succeeds.
LEMMA FollowedStays ==
    ASSUME StampIsFollowed, Grows,
           \A s \in DOMAIN scans' : \/ s \in DOMAIN scans /\ scans'[s] = scans[s]
                                    \/ scans'[s].state # "succeeded"
    PROVE  StampIsFollowed'
<1>1. ASSUME NEW s \in DOMAIN scans', scans'[s].state = "succeeded", scans'[s].pending # 0,
             ~scans'[s].late
      PROVE  \E r \in DOMAIN scans' : scans'[r].sha = scans'[s].pending
  <2>1. s \in DOMAIN scans /\ scans'[s] = scans[s]
    BY <1>1
  <2>2. PICK p : p = scans[s].pending
    OBVIOUS
  <2>3. HasScan(p)
    BY <1>1, <2>1, <2>2 DEF StampIsFollowed
  <2>4. HasScan(p)'
    BY <2>3, KeptStays
  <2> QED BY <2>1, <2>2, <2>4 DEF HasScan
<1> QED BY <1>1 DEF StampIsFollowed, HasScan

\* A step that leaves the scans and the executors alone.
LEMMA InvOutside ==
    ASSUME ScansInv, TypeOK', UNCHANGED <<scans, tick>>,
           \A h \in Handlers : handler'[h] = handler[h] \/ HandlerOK(h)',
           \A p \in Pushes : delivery'[p] = delivery[p] \/ DeliveryOK(p)'
    PROVE  ScansInv'
<1>1. Grows
  BY GrowsStill DEF ScansInv
<1>2. \A t \in Ticks : TickOK(t)'
  BY <1>1, TickStays DEF ScansInv
<1>3. OneEach'
  BY DEF ScansInv, OneEach, Mine
<1>4. StampIsFollowed'
  BY <1>1, FollowedStays DEF ScansInv
<1> QED BY <1>1, <1>2, <1>3, <1>4, InvFrom

-----------------------------------------------------------------------------
(* Requests.                                                               *)

\* A delivery is recorded or marked.
LEMMA SetDelivery ==
    ASSUME TypeOK, NEW p \in Pushes, NEW row \in DeliveryRows, delivery' = [delivery EXCEPT ![p] = row]
    PROVE  /\ delivery' \in [Pushes -> DeliveryRows] /\ delivery'[p] = row
           /\ \A q \in Pushes \ {p} : delivery'[q] = delivery[q]
BY DEF TypeOK

LEMMA LogTypes ==
    ASSUME NEW r \in DeliveryRows
    PROVE  /\ \A status \in {"received", "ignored"}, valid \in BOOLEAN :
                 /\ Recorded(r, status, valid) \in DeliveryRows
                 /\ Recorded(r, status, valid) = r \/ Recorded(r, status, valid) =
                                                          [status |-> status, valid |-> valid]
           /\ \A status \in {"processed", "failed"} :
                 Marked(r, status) \in DeliveryRows /\ Marked(r, status).status = status
BY DEF Recorded, Marked, IsTerminal, DeliveryRows

LEMMA SetHandler ==
    ASSUME TypeOK, NEW h \in Handlers, NEW new \in HandlerState, handler' = [handler EXCEPT ![h] = new]
    PROVE  /\ handler' \in [Handlers -> HandlerState] /\ handler'[h] = new
           /\ \A g \in Handlers \ {h} : handler'[g] = handler[g]
BY DEF TypeOK

LEMMA IdleTypes ==
    /\ IdleHandler \in HandlerState /\ IdleHandler.pc = "idle"
    /\ IdleTick \in TickState /\ IdleTick.pc = "idle" /\ IdleTick.scan = 0
<1>1. 0 \in Primary \cup NoCommit
  BY DEF NoCommit
<1> QED BY <1>1 DEF IdleHandler, HandlerState, IdleTick, TickState

LEMMA ReceiveKeeps ==
    ASSUME ScansInv, NEW h \in Handlers, NEW p \in Pushes, Receive(h, p)
    PROVE  ScansInv'
<1>1. TypeOK /\ UNCHANGED <<scans, tick, recs, merging, coverage>>
  BY DEF ScansInv, Receive, worker, recommendations
<1>2. PICK status \in {"received", "ignored"} :
         /\ status = IF IsPrimaryBranchPush(p) THEN "received" ELSE "ignored"
         /\ delivery' = [delivery EXCEPT ![p] = Recorded(delivery[p], status, TRUE)]
  BY DEF Receive
<1>3. delivery' \in [Pushes -> DeliveryRows] /\ \A q \in Pushes : delivery'[q] = delivery[q] \/ DeliveryOK(q)'
  <2>1. delivery[p] \in DeliveryRows
    BY <1>1, ScanTypes
  <2>2. PICK row \in DeliveryRows : row = Recorded(delivery[p], status, TRUE)
    BY <2>1, LogTypes
  <2>3. row = delivery[p] \/ row = [status |-> status, valid |-> TRUE]
    BY <2>1, <2>2, LogTypes
  <2>4. /\ delivery' \in [Pushes -> DeliveryRows] /\ delivery'[p] = row
        /\ \A q \in Pushes \ {p} : delivery'[q] = delivery[q]
    BY <1>1, <1>2, <2>2, SetDelivery
  <2>5. row = [status |-> status, valid |-> TRUE] => DeliveryOK(p)'
    <3> SUFFICES ASSUME row = [status |-> status, valid |-> TRUE], p \in Primary PROVE DeliveryOK(p)'
      BY DEF DeliveryOK
    <3>1. status = "received"
      BY <1>2 DEF IsPrimaryBranchPush
    <3>2. row.status = "received"
      BY <3>1
    <3>3. delivery'[p].status = "received"
      BY <2>4, <3>2
    <3> QED BY <3>3 DEF DeliveryOK
  <2> QED BY <2>3, <2>4, <2>5
<1>4. handler' \in [Handlers -> HandlerState] /\ \A g \in Handlers : handler'[g] = handler[g] \/ HandlerOK(g)'
  <2> DEFINE new == IF IsTerminal(delivery[p]) \/ ~IsPrimaryBranchPush(p) THEN IdleHandler
                    ELSE [pc |-> "decide", push |-> p, onto |-> 0]
  <2>1. new \in HandlerState /\ (new.pc = "idle" \/ (new.pc = "decide" /\ new.push \in Primary))
    BY IdleTypes DEF HandlerState, IsPrimaryBranchPush
  <2>2. handler' = [handler EXCEPT ![h] = new]
    BY DEF Receive
  <2> HIDE DEF new
  <2>3. /\ handler' \in [Handlers -> HandlerState] /\ handler'[h] = new
        /\ \A g \in Handlers \ {h} : handler'[g] = handler[g]
    BY <1>1, <2>1, <2>2 DEF TypeOK
  <2>4. HandlerOK(h)'
    BY <2>1, <2>3 DEF HandlerOK
  <2> QED BY <2>3, <2>4
<1>5. TypeOK'
  BY <1>1, <1>3, <1>4 DEF TypeOK
<1> QED BY <1>1, <1>3, <1>4, <1>5, InvOutside

LEMMA RejectKeeps ==
    ASSUME ScansInv, NEW p \in Pushes, Reject(p)
    PROVE  ScansInv'
<1>1. /\ TypeOK /\ UNCHANGED <<handler, scans, tick, recs, merging, coverage>>
      /\ delivery' = [delivery EXCEPT ![p] = Recorded(delivery[p], "ignored", FALSE)]
  BY DEF ScansInv, Reject, worker, recommendations
<1>2. delivery[p] \in DeliveryRows
  BY <1>1, ScanTypes
<1>3. PICK row \in DeliveryRows : row = Recorded(delivery[p], "ignored", FALSE)
  BY <1>2, LogTypes
<1>4. row = delivery[p] \/ row = [status |-> "ignored", valid |-> FALSE]
  BY <1>2, <1>3, LogTypes
<1>5. /\ delivery' \in [Pushes -> DeliveryRows] /\ delivery'[p] = row
      /\ \A q \in Pushes \ {p} : delivery'[q] = delivery[q]
  BY <1>1, <1>3, SetDelivery
<1>6. row = [status |-> "ignored", valid |-> FALSE] => DeliveryOK(p)'
  BY <1>5 DEF DeliveryOK
<1>7. TypeOK'
  BY <1>1, <1>5 DEF TypeOK
<1> QED BY <1>1, <1>4, <1>5, <1>6, <1>7, InvOutside

\* What a request may do with its push.
LEMMA HandlerTypes ==
    ASSUME ScansInv, NEW h \in Handlers, handler[h].pc # "idle"
    PROVE  handler[h].push \in Primary /\ handler[h].push \in Pushes /\ handler[h] \in HandlerState
<1>1. handler[h].push \in Primary /\ handler[h] \in HandlerState
  BY ScanTypes DEF ScansInv, HandlerOK
<1> QED BY <1>1, ScansAssumption DEF ScansAssumption

LEMMA DecideKeeps ==
    ASSUME ScansInv, NEW h \in Handlers, Decide(h)
    PROVE  ScansInv'
<1>1. /\ TypeOK /\ handler[h].pc = "decide" /\ UNCHANGED <<delivery, scans, tick, recs, merging, coverage>>
  BY DEF ScansInv, Decide, worker, recommendations
<1>2. PICK p \in Primary : p = handler[h].push
  BY <1>1, HandlerTypes
<1>3. PICK decision \in {"enqueue", "mark", "stamp"} : decision = Decision(p)
  BY DEF Decision
<1>4. Len(scans) \in Nat /\ DOMAIN scans = 1 .. Len(scans)
  BY <1>1, ScanTypes
<1>5. decision = "stamp" => LatestScan \in DOMAIN scans
  BY <1>3, <1>4 DEF Decision, LatestScan
<1>6. decision = "mark" => Kept(p)
  BY <1>3, <1>4 DEF Decision, LatestScan, Kept, HasScan
<1>7. PICK onto \in Nat : onto = IF decision = "stamp" THEN LatestScan ELSE 0
  BY <1>4 DEF LatestScan
<1>8. handler' = [handler EXCEPT ![h].pc = decision, ![h].onto = onto]
  BY <1>2, <1>3, <1>7 DEF Decide
<1>9. handler[h] \in HandlerState /\ handler \in [Handlers -> HandlerState]
  BY <1>1 DEF TypeOK
<1>10. /\ handler' \in [Handlers -> HandlerState]
       /\ \A g \in Handlers \ {h} : handler'[g] = handler[g]
       /\ handler'[h].pc = decision /\ handler'[h].onto = onto /\ handler'[h].push = p
  BY <1>2, <1>8, <1>9 DEF HandlerState
<1>11. Kept(p) => Kept(p)'
  BY <1>1, GrowsStill, KeptStays
<1>12. HandlerOK(h)'
  BY <1>1, <1>5, <1>6, <1>7, <1>10, <1>11 DEF HandlerOK
<1>13. TypeOK'
  BY <1>1, <1>10 DEF TypeOK
<1> QED BY <1>1, <1>10, <1>12, <1>13, InvOutside

\* A request that comes to its mark, or to enqueue.
LEMMA HandlerGoes ==
    ASSUME ScansInv, NEW h \in Handlers, NEW p \in Primary, handler[h].push = p,
           NEW pc \in {"enqueue", "mark"}, handler' = [handler EXCEPT ![h].pc = pc],
           pc = "mark" => Kept(p)'
    PROVE  /\ handler' \in [Handlers -> HandlerState]
           /\ \A g \in Handlers : handler'[g] = handler[g] \/ HandlerOK(g)'
<1>1. handler \in [Handlers -> HandlerState] /\ handler[h] \in HandlerState
  BY DEF ScansInv, TypeOK
<1>2. /\ handler' \in [Handlers -> HandlerState]
      /\ \A g \in Handlers \ {h} : handler'[g] = handler[g]
      /\ handler'[h].pc = pc /\ handler'[h].push = p
  BY <1>1 DEF HandlerState
<1>3. HandlerOK(h)'
  BY <1>1, <1>2 DEF HandlerOK
<1> QED BY <1>2, <1>3

LEMMA StampKeeps ==
    ASSUME ScansInv, NEW h \in Handlers, Stamp(h)
    PROVE  ScansInv'
<1>1. /\ TypeOK /\ OneEach /\ handler[h].pc = "stamp" /\ UNCHANGED <<delivery, tick, recs, merging, coverage>>
  BY DEF ScansInv, Stamp, worker, recommendations
<1>2. PICK p \in Primary : p = handler[h].push
  BY <1>1, HandlerTypes
<1>3. PICK s \in DOMAIN scans : s = handler[h].onto
  BY <1>1 DEF ScansInv, HandlerOK
<1>4. CASE ~InFlight(s)
  <2>1. handler' = [handler EXCEPT ![h].pc = "enqueue"] /\ UNCHANGED scans
    BY <1>3, <1>4 DEF Stamp
  <2>2. /\ handler' \in [Handlers -> HandlerState]
        /\ \A g \in Handlers : handler'[g] = handler[g] \/ HandlerOK(g)'
    <3>1. PICK pc \in {"enqueue", "mark"} : pc = "enqueue"
      OBVIOUS
    <3> QED BY <1>2, <2>1, <3>1, HandlerGoes
  <2>3. TypeOK'
    BY <1>1, <2>1, <2>2 DEF TypeOK
  <2> QED BY <1>1, <2>1, <2>2, <2>3, InvOutside
<1>5. CASE InFlight(s)
  <2>1. handler' = [handler EXCEPT ![h].pc = "mark"] /\ scans' = StampOn(s, p)
    BY <1>2, <1>3, <1>5 DEF Stamp
  <2> DEFINE late == \E t \in Ticks : tick[t].scan = s /\ tick[t].pc \in {"followup", "finish"}
             row == [scans[s] EXCEPT !.pending = p, !.stamps = scans[s].stamps \cup {p}, !.late = late]
  <2>2. scans[s] \in ScanState
    BY <1>1, ScanTypes
  <2>3. PICK l \in BOOLEAN : l = late
    OBVIOUS
  <2> HIDE DEF late
  <2>4. /\ row \in ScanState /\ row.sha = scans[s].sha /\ row.stamps = scans[s].stamps \cup {p}
        /\ row.state = scans[s].state /\ row.code = scans[s].code /\ row.flagged = scans[s].flagged
        /\ row.late = late
    BY <2>2, <2>3 DEF ScanState
  <2>5. scans' = [scans EXCEPT ![s] = row]
    BY <1>1, <1>3, <2>1, <2>2, <2>3 DEF StampOn, late
  <2> HIDE DEF row
  <2>6. /\ scans' \in Seq(ScanState) /\ DOMAIN scans' = DOMAIN scans
        /\ scans'[s] = row /\ \A r \in DOMAIN scans \ {s} : scans'[r] = scans[r]
    BY <1>1, <2>4, <2>5, SetRow
  <2>7. RowMoves(s) /\ Grows
    BY <2>4, <2>6, MovedGrows DEF RowMoves
  <2>8. Kept(p)'
    BY <2>4, <2>6 DEF Kept
  <2>9. /\ handler' \in [Handlers -> HandlerState]
        /\ \A g \in Handlers : handler'[g] = handler[g] \/ HandlerOK(g)'
    <3>1. PICK pc \in {"enqueue", "mark"} : pc = "mark"
      OBVIOUS
    <3> QED BY <1>2, <2>1, <2>8, <3>1, HandlerGoes
  <2>10. TypeOK'
    BY <1>1, <2>6, <2>9 DEF TypeOK
  <2>11. OneEach'
    BY <1>1, <2>4, <2>6 DEF OneEach, Mine
  <2>12. ASSUME NEW t \in Ticks PROVE TickOK(t)'
    <3>1. tick[t].scan = s /\ tick[t].pc \in {"followup", "finish"} => late
      BY DEF late
    <3>2. ASSUME NEW r \in DOMAIN scans, Mine(t) = r
          PROVE  /\ scans'[r].state = scans[r].state
                 /\ scans'[r].code = scans[r].code /\ scans'[r].flagged = scans[r].flagged
                 /\ tick[t].pc \in {"followup", "finish"} /\ ~scans'[r].late
                       => ~scans[r].late /\ scans'[r].pending = scans[r].pending
      <4>1. CASE r = s
        BY <2>4, <2>6, <3>1, <3>2, <4>1 DEF Mine
      <4>2. CASE r # s
        BY <2>6, <4>2
      <4> QED BY <4>1, <4>2
    <3> QED BY <1>1, <2>7, <3>2, TickStays DEF ScansInv
  <2>13. StampIsFollowed'
    <3>1. row.state # "succeeded"
      BY <1>5, <2>4 DEF InFlight
    <3>2. \A r \in DOMAIN scans' : \/ r \in DOMAIN scans /\ scans'[r] = scans[r]
                                   \/ scans'[r].state # "succeeded"
      BY <2>6, <3>1
    <3> QED BY <2>7, <3>2, FollowedStays DEF ScansInv
  <2> QED BY <1>1, <2>7, <2>9, <2>10, <2>11, <2>12, <2>13, InvFrom
<1> QED BY <1>4, <1>5

LEMMA EnqueueKeeps ==
    ASSUME ScansInv, NEW h \in Handlers, Enqueue(h)
    PROVE  ScansInv'
<1>1. /\ TypeOK /\ OneEach /\ handler[h].pc = "enqueue" /\ UNCHANGED <<delivery, tick, recs, merging, coverage>>
      /\ handler' = [handler EXCEPT ![h].pc = "mark"]
  BY DEF ScansInv, Enqueue, worker, recommendations
<1>2. PICK p \in Primary : p = handler[h].push
  BY <1>1, HandlerTypes
<1>3. scans' = WithScan(p)
  BY <1>2 DEF Enqueue
<1>4. /\ Grows /\ HasScan(p)'
      /\ \A s \in DOMAIN scans : scans'[s] = scans[s]
      /\ \A s \in DOMAIN scans' : s \in DOMAIN scans \/ scans'[s].state = "queued"
      /\ \A s, r \in DOMAIN scans' : scans'[s].sha = scans'[r].sha => s = r
  BY <1>1, <1>3, WithScanTypes
<1>5. /\ handler' \in [Handlers -> HandlerState]
      /\ \A g \in Handlers : handler'[g] = handler[g] \/ HandlerOK(g)'
  <2>1. PICK pc \in {"enqueue", "mark"} : pc = "mark"
    OBVIOUS
  <2>2. Kept(p)'
    BY <1>4 DEF Kept
  <2> QED BY <1>1, <1>2, <2>1, <2>2, HandlerGoes
<1>6. TypeOK'
  BY <1>1, <1>4, <1>5 DEF TypeOK, Grows
<1>7. OneEach'
  BY <1>1, <1>4 DEF OneEach, Mine
<1>8. \A t \in Ticks : TickOK(t)'
  BY <1>1, <1>4, TickStays DEF ScansInv
<1>9. StampIsFollowed'
  BY <1>4, FollowedStays DEF ScansInv
<1> QED BY <1>1, <1>4, <1>5, <1>6, <1>7, <1>8, <1>9, InvFrom

LEMMA MarkKeeps ==
    ASSUME ScansInv, NEW h \in Handlers, Mark(h)
    PROVE  ScansInv'
<1>1. /\ TypeOK /\ handler[h].pc = "mark" /\ UNCHANGED <<scans, tick, recs, merging, coverage>>
      /\ handler' = [handler EXCEPT ![h] = IdleHandler]
  BY DEF ScansInv, Mark, worker, recommendations
<1>2. PICK p \in Primary : p = handler[h].push /\ p \in Pushes
  BY <1>1, HandlerTypes
<1>3. delivery' = [delivery EXCEPT ![p] = Marked(delivery[p], "processed")]
  BY <1>2 DEF Mark
<1>4. delivery[p] \in DeliveryRows
  BY <1>1, <1>2, ScanTypes
<1>5. PICK row \in DeliveryRows : row = Marked(delivery[p], "processed") /\ row.status = "processed"
  BY <1>4, LogTypes
<1>6. /\ delivery' \in [Pushes -> DeliveryRows] /\ delivery'[p] = row
      /\ \A q \in Pushes \ {p} : delivery'[q] = delivery[q]
  BY <1>1, <1>2, <1>3, <1>5, SetDelivery
<1>7. Kept(p)'
  <2>1. Kept(p)
    BY <1>1, <1>2 DEF ScansInv, HandlerOK
  <2> QED BY <1>1, <2>1, GrowsStill, KeptStays
<1>8. DeliveryOK(p)'
  BY <1>5, <1>6, <1>7 DEF DeliveryOK
<1>9. /\ handler' \in [Handlers -> HandlerState] /\ handler'[h] = IdleHandler
      /\ \A g \in Handlers \ {h} : handler'[g] = handler[g]
  BY <1>1, IdleTypes DEF TypeOK
<1>10. HandlerOK(h)'
  BY <1>9, IdleTypes DEF HandlerOK
<1>11. TypeOK'
  BY <1>1, <1>6, <1>9 DEF TypeOK
<1> QED BY <1>1, <1>6, <1>8, <1>9, <1>10, <1>11, InvOutside

LEMMA HandlerFailsKeeps ==
    ASSUME ScansInv, NEW h \in Handlers, HandlerFails(h)
    PROVE  ScansInv'
<1>1. /\ TypeOK /\ handler[h].pc # "idle" /\ UNCHANGED <<scans, tick, recs, merging, coverage>>
      /\ handler' = [handler EXCEPT ![h] = IdleHandler]
  BY DEF ScansInv, HandlerFails, worker, recommendations
<1>2. PICK p \in Primary : p = handler[h].push /\ p \in Pushes
  BY <1>1, HandlerTypes
<1>3. UNCHANGED delivery \/ delivery' = [delivery EXCEPT ![p] = Marked(delivery[p], "failed")]
  BY <1>2 DEF HandlerFails
<1>4. delivery[p] \in DeliveryRows
  BY <1>1, <1>2, ScanTypes
<1>5. PICK row \in DeliveryRows : row = Marked(delivery[p], "failed") /\ row.status = "failed"
  BY <1>4, LogTypes
<1>6. delivery' \in [Pushes -> DeliveryRows] /\ \A q \in Pushes : delivery'[q] = delivery[q] \/ DeliveryOK(q)'
  <2>1. CASE UNCHANGED delivery
    BY <1>1, <2>1 DEF TypeOK
  <2>2. CASE delivery' = [delivery EXCEPT ![p] = Marked(delivery[p], "failed")]
    <3>1. /\ delivery' \in [Pushes -> DeliveryRows] /\ delivery'[p] = row
          /\ \A q \in Pushes \ {p} : delivery'[q] = delivery[q]
      BY <1>1, <1>2, <1>5, <2>2, SetDelivery
    <3>2. DeliveryOK(p)'
      BY <1>5, <3>1 DEF DeliveryOK
    <3> QED BY <3>1, <3>2
  <2> QED BY <1>3, <2>1, <2>2
<1>7. /\ handler' \in [Handlers -> HandlerState] /\ handler'[h] = IdleHandler
      /\ \A g \in Handlers \ {h} : handler'[g] = handler[g]
  BY <1>1, IdleTypes DEF TypeOK
<1>8. HandlerOK(h)'
  BY <1>7, IdleTypes DEF HandlerOK
<1>9. TypeOK'
  BY <1>1, <1>6, <1>7 DEF TypeOK
<1> QED BY <1>1, <1>6, <1>7, <1>8, <1>9, InvOutside

-----------------------------------------------------------------------------
(* The executor.                                                           *)

Recommendations == [Gaps -> {"none", "active", "outdated", "dismissed", "accepted"}]

\* A tick goes on with its scan, takes one or lets it go.
TickMoves(t, s) ==
    /\ tick' \in [Ticks -> TickState] /\ \A u \in Ticks \ {t} : tick'[u] = tick[u]
    /\ tick'[t].scan \in {0, s}
    /\ recs' \in Recommendations /\ merging' \subseteq Gaps /\ coverage' \subseteq Primary
    /\ UNCHANGED <<delivery, handler>>

LEMMA TickKeeps ==
    ASSUME ScansInv, NEW t \in Ticks, NEW s \in DOMAIN scans, \A u \in Ticks \ {t} : Mine(u) # s,
           RowMoves(s), TickMoves(t, s), TickOK(t)',
           scans'[s].state = "succeeded" =>
               \/ scans'[s].late \/ scans'[s].pending = 0
               \/ \E r \in DOMAIN scans : scans[r].sha = scans'[s].pending
    PROVE  ScansInv'
<1>1. /\ TypeOK /\ OneEach /\ Grows
      /\ tick' \in [Ticks -> TickState] /\ \A u \in Ticks \ {t} : tick'[u] = tick[u]
      /\ tick'[t].scan \in {0, s} /\ UNCHANGED <<delivery, handler>>
      /\ scans' \in Seq(ScanState) /\ DOMAIN scans' = DOMAIN scans
      /\ \A r \in DOMAIN scans \ {s} : scans'[r] = scans[r]
      /\ scans'[s].sha = scans[s].sha
  BY MovedGrows DEF ScansInv, TickMoves, RowMoves
<1>2. TypeOK'
  BY <1>1 DEF TypeOK, TickMoves, Recommendations
<1>3. \A r \in DOMAIN scans : scans'[r].sha = scans[r].sha
  BY <1>1
<1>4. OneEach'
  <2>1. \A q, r \in DOMAIN scans' : scans'[q].sha = scans'[r].sha => q = r
    BY <1>1, <1>3 DEF OneEach
  <2>2. ASSUME NEW u \in Ticks, NEW v \in Ticks, tick'[u].scan = tick'[v].scan, tick'[u].scan # 0
        PROVE  u = v
    BY <1>1, <2>2 DEF OneEach, Mine
  <2> QED BY <2>1, <2>2 DEF OneEach, Mine
<1>5. ASSUME NEW u \in Ticks PROVE TickOK(u)'
  <2>1. CASE u = t
    BY <2>1
  <2>2. CASE u # t
    <3>1. tick'[u] = tick[u] /\ Mine(u) # s
      BY <1>1, <2>2
    <3>2. \A r \in DOMAIN scans : Mine(u) = r => scans'[r] = scans[r]
      BY <1>1, <3>1
    <3> QED BY <1>1, <3>1, <3>2, TickStays DEF ScansInv
  <2> QED BY <2>1, <2>2
<1>6. StampIsFollowed'
  <2>1. ASSUME NEW q \in DOMAIN scans', scans'[q].state = "succeeded", scans'[q].pending # 0,
               ~scans'[q].late
        PROVE  \E r \in DOMAIN scans' : scans'[r].sha = scans'[q].pending
    <3>1. CASE q = s
      BY <1>1, <1>3, <2>1, <3>1
    <3>2. CASE q # s
      <4>1. q \in DOMAIN scans /\ scans'[q] = scans[q]
        BY <1>1, <3>2
      <4>2. \E r \in DOMAIN scans : scans[r].sha = scans[q].pending
        BY <2>1, <4>1 DEF ScansInv, StampIsFollowed, HasScan
      <4> QED BY <1>1, <1>3, <4>1, <4>2
    <3> QED BY <3>1, <3>2
  <2> QED BY <2>1 DEF StampIsFollowed, HasScan
<1> QED BY <1>1, <1>2, <1>4, <1>5, <1>6, InvFrom

\* The scan of a tick that has one is running, and its own.
LEMMA HeldTypes ==
    ASSUME ScansInv, NEW t \in Ticks, tick[t].pc # "idle"
    PROVE  /\ Mine(t) \in DOMAIN scans /\ Mine(t) \in Nat /\ MyScan(t) \in ScanState
           /\ MyScan(t).state = "running" /\ tick[t] \in TickState
           /\ \A u \in Ticks \ {t} : Mine(u) # Mine(t)
           /\ recs \in Recommendations /\ merging \subseteq Gaps /\ coverage \subseteq Primary
<1>1. TypeOK /\ OneEach /\ TickOK(t)
  BY DEF ScansInv
<1>2. /\ Mine(t) \in DOMAIN scans /\ MyScan(t).state = "running"
      /\ Len(scans) \in Nat /\ DOMAIN scans = 1 .. Len(scans)
      /\ scans[Mine(t)] \in ScanState /\ tick[t] \in TickState
  BY <1>1, ScanTypes DEF TickOK
<1>3. Mine(t) \in Nat /\ Mine(t) # 0
  BY <1>2
<1>4. \A u \in Ticks \ {t} : Mine(u) # Mine(t)
  BY <1>1, <1>3 DEF OneEach
<1> QED BY <1>1, <1>2, <1>3, <1>4 DEF MyScan, TypeOK, Recommendations

\* A tick goes to another statement.
Steps(t, pc) ==
    /\ tick' \in [Ticks -> TickState] /\ \A u \in Ticks \ {t} : tick'[u] = tick[u]
    /\ tick'[t].pc = pc /\ tick'[t].scan = tick[t].scan /\ tick'[t].pending = tick[t].pending

Statements == {"enumerate", "analyze", "rank", "upsert", "list", "outdate", "coverage", "pending",
               "followup", "finish"}

LEMMA GoSteps ==
    ASSUME TypeOK, NEW t \in Ticks, NEW pc \in Statements, Go(t, pc)
    PROVE  Steps(t, pc)
<1>1. tick \in [Ticks -> TickState] /\ tick[t] \in TickState
  BY DEF TypeOK
<1>2. /\ [tick[t] EXCEPT !.pc = pc] \in TickState
      /\ [tick[t] EXCEPT !.pc = pc].pc = pc
      /\ [tick[t] EXCEPT !.pc = pc].scan = tick[t].scan
      /\ [tick[t] EXCEPT !.pc = pc].pending = tick[t].pending
  BY <1>1 DEF TickState, Statements
<1>3. tick' = [tick EXCEPT ![t] = [tick[t] EXCEPT !.pc = pc]]
  BY <1>1 DEF Go
<1> QED BY <1>1, <1>2, <1>3 DEF Steps

LEMMA WorkSteps ==
    ASSUME TypeOK, NEW t \in Ticks, NEW pc \in Statements, NEW todo \in SUBSET Gaps,
           tick' = [tick EXCEPT ![t].pc = pc, ![t].todo = todo]
    PROVE  Steps(t, pc)
<1> DEFINE new == [tick[t] EXCEPT !.pc = pc, !.todo = todo]
<1>1. tick \in [Ticks -> TickState] /\ tick[t] \in TickState
  BY DEF TypeOK
<1>2. new \in TickState /\ new.pc = pc /\ new.scan = tick[t].scan /\ new.pending = tick[t].pending
  BY <1>1 DEF TickState, Statements
<1>3. tick' = [tick EXCEPT ![t] = new]
  BY <1>1
<1> HIDE DEF new
<1> QED BY <1>1, <1>2, <1>3 DEF Steps

\* The work of rank on the recommendations, which leaves the scans alone.
LEMMA RankingKeeps ==
    ASSUME ScansInv, NEW t \in Ticks, tick[t].pc \notin {"idle", "enumerate", "analyze"},
           NEW pc \in {"upsert", "list", "outdate", "coverage", "pending"}, Steps(t, pc),
           recs' \in Recommendations, merging' \subseteq Gaps, coverage' \subseteq Primary,
           UNCHANGED <<delivery, handler, scans>>
    PROVE  ScansInv'
<1>1. tick[t].pc # "idle"
  OBVIOUS
<1>2. PICK s \in DOMAIN scans : s = Mine(t)
  BY <1>1, HeldTypes
<1>3. /\ scans[s].state = "running" /\ scans[s].code # <<>> /\ scans[s].flagged # <<>>
      /\ \A u \in Ticks \ {t} : Mine(u) # s
  BY <1>1, <1>2, HeldTypes DEF ScansInv, TickOK, MyScan
<1>4. RowMoves(s)
  BY DEF RowMoves, ScansInv, TypeOK
<1>5. TickMoves(t, s) /\ tick'[t].pc = pc /\ tick'[t].scan = s
  BY <1>2 DEF TickMoves, Steps, Mine
<1>6. TickOK(t)'
  BY <1>3, <1>5 DEF TickOK, MyScan, Mine
<1> QED BY <1>3, <1>4, <1>5, <1>6, TickKeeps

LEMMA RankKeeps ==
    ASSUME ScansInv, NEW t \in Ticks, Rank(t)
    PROVE  ScansInv'
<1>1. /\ TypeOK /\ tick[t].pc = "rank" /\ UNCHANGED <<delivery, handler, scans, recs, merging, coverage>>
  BY DEF ScansInv, Rank, webhook, recommendations
<1>2. MyScan(t).flagged \in Findings /\ MyScan(t).flagged # <<>>
  BY <1>1, HeldTypes DEF ScansInv, TickOK, ScanState
<1>3. MyScan(t).flagged[2] \subseteq Gaps
  BY <1>2, ResultTypes
<1>4. PICK todo \in SUBSET Gaps : todo = MyScan(t).flagged[2]
  BY <1>3
<1>5. PICK pc \in {"upsert", "coverage"} : pc = IF MyScan(t).flagged[1] = "valid" THEN "upsert" ELSE "coverage"
  OBVIOUS
<1>6. tick' = [tick EXCEPT ![t].pc = pc, ![t].todo = todo]
  BY <1>4, <1>5 DEF Rank
<1>7. Steps(t, pc)
  BY <1>1, <1>6, WorkSteps DEF Statements
<1>8. recs' \in Recommendations /\ merging' \subseteq Gaps /\ coverage' \subseteq Primary
  BY <1>1, HeldTypes
<1>9. pc \in {"upsert", "list", "outdate", "coverage", "pending"}
  OBVIOUS
<1> QED BY <1>1, <1>7, <1>8, <1>9, RankingKeeps

\* A tick takes one gap off its list, or goes on when it is empty.
LEMMA ListSteps ==
    ASSUME TypeOK, NEW t \in Ticks, NEW next \in Statements, tick[t].pc \in Statements,
           \/ \E g \in tick[t].todo : tick' = [tick EXCEPT ![t].todo = @ \ {g}]
           \/ Go(t, next)
    PROVE  Steps(t, tick[t].pc) \/ Steps(t, next)
<1>1. CASE Go(t, next)
  BY <1>1, GoSteps
<1>2. ASSUME NEW g \in tick[t].todo, tick' = [tick EXCEPT ![t].todo = @ \ {g}]
      PROVE  Steps(t, tick[t].pc)
  <2> DEFINE new == [tick[t] EXCEPT !.todo = tick[t].todo \ {g}]
  <2>1. tick \in [Ticks -> TickState] /\ tick[t] \in TickState
    BY DEF TypeOK
  <2>2. /\ new \in TickState /\ new.pc = tick[t].pc /\ new.scan = tick[t].scan
        /\ new.pending = tick[t].pending
    BY <2>1 DEF TickState
  <2>3. tick' = [tick EXCEPT ![t] = new]
    BY <1>2, <2>1
  <2> HIDE DEF new
  <2> QED BY <2>1, <2>2, <2>3 DEF Steps
<1> QED BY <1>1, <1>2

\* What the executor writes over the state of a recommendation.
LEMMA RecommendationTypes ==
    ASSUME recs \in Recommendations, NEW g,
           \/ recs' = [recs EXCEPT ![g] = Recommended(recs[g])]
           \/ recs' = [recs EXCEPT ![g] = Outdated(recs[g])]
           \/ UNCHANGED recs
    PROVE  recs' \in Recommendations /\ \A r \in Gaps : recs[r] = "dismissed" => recs'[r] = "dismissed"
BY DEF Recommendations, Recommended, Outdated

LEMMA UpsertKeeps ==
    ASSUME ScansInv, NEW t \in Ticks, Upsert(t) \/ Outdate(t)
    PROVE  ScansInv' /\ \A r \in Gaps : recs[r] = "dismissed" => recs'[r] = "dismissed"
<1>1. /\ TypeOK /\ UNCHANGED <<delivery, handler, scans, merging, coverage>>
      /\ tick[t].pc \in {"upsert", "outdate"}
  BY DEF ScansInv, Upsert, Outdate, webhook, recommendations
<1>2. PICK next \in {"list", "coverage"} : next = IF tick[t].pc = "upsert" THEN "list" ELSE "coverage"
  OBVIOUS
<1>3. \/ \E g \in tick[t].todo : tick' = [tick EXCEPT ![t].todo = @ \ {g}]
      \/ Go(t, next)
  BY <1>2 DEF Upsert, Outdate
<1>4. Steps(t, tick[t].pc) \/ Steps(t, next)
  BY <1>1, <1>3, ListSteps DEF Statements
<1>5. PICK pc \in {"upsert", "list", "outdate", "coverage"} : Steps(t, pc)
  BY <1>1, <1>4
<1>6. recs \in Recommendations /\ merging \subseteq Gaps /\ coverage \subseteq Primary
  BY <1>1, HeldTypes
<1>7. PICK g : \/ recs' = [recs EXCEPT ![g] = Recommended(recs[g])]
               \/ recs' = [recs EXCEPT ![g] = Outdated(recs[g])]
               \/ UNCHANGED recs
  BY DEF Upsert, Outdate
<1>8. recs' \in Recommendations /\ \A r \in Gaps : recs[r] = "dismissed" => recs'[r] = "dismissed"
  BY <1>6, <1>7, RecommendationTypes
<1>9. pc \in {"upsert", "list", "outdate", "coverage", "pending"}
  OBVIOUS
<1> QED BY <1>1, <1>5, <1>6, <1>8, <1>9, RankingKeeps

LEMMA ListKeeps ==
    ASSUME ScansInv, NEW t \in Ticks, List(t)
    PROVE  ScansInv'
<1>1. /\ TypeOK /\ tick[t].pc = "list" /\ UNCHANGED <<delivery, handler, scans, recs, merging, coverage>>
  BY DEF ScansInv, List, webhook, recommendations
<1>2. MyScan(t).code \in Codes /\ MyScan(t).code # <<>>
  BY <1>1, HeldTypes DEF ScansInv, TickOK, ScanState
<1>3. ListActive(t) \subseteq Gaps
  BY <1>2, ResultTypes DEF ListActive
<1>4. PICK todo \in SUBSET Gaps : todo = ListActive(t) \ MyScan(t).flagged[2]
  BY <1>3
<1>5. tick' = [tick EXCEPT ![t].pc = "outdate", ![t].todo = todo]
  BY <1>4 DEF List
<1>6. PICK pc \in {"upsert", "list", "outdate", "coverage", "pending"} : pc = "outdate"
  OBVIOUS
<1>7. Steps(t, pc)
  BY <1>1, <1>5, <1>6, WorkSteps DEF Statements
<1>8. recs' \in Recommendations /\ merging' \subseteq Gaps /\ coverage' \subseteq Primary
  BY <1>1, HeldTypes
<1> QED BY <1>1, <1>7, <1>8, RankingKeeps

LEMMA EnqueueCoverageKeeps ==
    ASSUME ScansInv, NEW t \in Ticks, EnqueueCoverage(t)
    PROVE  ScansInv'
<1>1. /\ TypeOK /\ tick[t].pc = "coverage" /\ UNCHANGED <<delivery, handler, scans, recs, merging>>
      /\ coverage' = coverage \cup {MyScan(t).sha} /\ Go(t, "pending")
  BY DEF ScansInv, EnqueueCoverage, webhook, recommendations
<1>2. PICK pc \in {"upsert", "list", "outdate", "coverage", "pending"} : pc = "pending"
  OBVIOUS
<1>3. Steps(t, pc)
  BY <1>1, <1>2, GoSteps DEF Statements
<1>4. recs' \in Recommendations /\ merging' \subseteq Gaps /\ coverage' \subseteq Primary
  BY <1>1, HeldTypes DEF ScanState
<1> QED BY <1>1, <1>3, <1>4, RankingKeeps

\* The state of a scan is set, and nothing else of it.
LEMMA StateMoves ==
    ASSUME TypeOK, NEW s \in DOMAIN scans, NEW state \in {"queued", "running", "succeeded", "failed"},
           scans' = [scans EXCEPT ![s].state = state]
    PROVE  /\ RowMoves(s) /\ scans'[s].state = state
           /\ scans'[s].code = scans[s].code /\ scans'[s].flagged = scans[s].flagged
           /\ scans'[s].pending = scans[s].pending /\ scans'[s].late = scans[s].late
<1> DEFINE row == [scans[s] EXCEPT !.state = state]
<1>1. scans[s] \in ScanState
  BY ScanTypes
<1>2. /\ row \in ScanState /\ row.sha = scans[s].sha /\ row.stamps = scans[s].stamps
      /\ row.state = state /\ row.code = scans[s].code /\ row.flagged = scans[s].flagged
      /\ row.pending = scans[s].pending /\ row.late = scans[s].late
  BY <1>1 DEF ScanState
<1>3. scans' = [scans EXCEPT ![s] = row]
  BY <1>1
<1> HIDE DEF row
<1>4. /\ scans' \in Seq(ScanState) /\ DOMAIN scans' = DOMAIN scans
      /\ scans'[s] = row /\ \A r \in DOMAIN scans \ {s} : scans'[r] = scans[r]
  BY <1>2, <1>3, SetRow
<1> QED BY <1>2, <1>4 DEF RowMoves

LEMMA ClaimKeeps ==
    ASSUME ScansInv, NEW t \in Ticks, NEW s \in DOMAIN scans, Claim(t, s)
    PROVE  ScansInv'
<1>1. /\ TypeOK /\ \A u \in Ticks : Mine(u) # s
      /\ scans' = [scans EXCEPT ![s].state = "running"]
      /\ UNCHANGED <<delivery, handler, recs, merging, coverage>>
  BY DEF ScansInv, Claim, webhook, recommendations
<1>2. PICK state \in {"queued", "running", "succeeded", "failed"} : state = "running"
  OBVIOUS
<1>3. /\ RowMoves(s) /\ scans'[s].state = "running" /\ scans'[s].code = scans[s].code
      /\ scans'[s].flagged = scans[s].flagged
  BY <1>1, <1>2, StateMoves
<1>4. PICK pc \in {"enumerate", "analyze", "rank"} :
         pc = IF scans[s].code = <<>> THEN "enumerate"
              ELSE IF scans[s].flagged = <<>> THEN "analyze" ELSE "rank"
  OBVIOUS
<1> DEFINE new == [scan |-> s, pending |-> scans[s].pending, todo |-> {}, pc |-> pc]
<1>5. tick' = [tick EXCEPT ![t] = new]
  BY <1>4 DEF Claim
<1>6. new \in TickState /\ new.pc = pc /\ new.scan = s
  <2>1. s \in Nat /\ scans[s] \in ScanState
    BY <1>1, ScanTypes
  <2> QED BY <2>1 DEF TickState, ScanState
<1> HIDE DEF new
<1>7. /\ tick' \in [Ticks -> TickState] /\ tick'[t] = new
      /\ \A u \in Ticks \ {t} : tick'[u] = tick[u]
  BY <1>1, <1>5, <1>6 DEF TypeOK
<1>8. TickMoves(t, s)
  BY <1>1, <1>6, <1>7 DEF TickMoves, TypeOK, Recommendations
<1>9. TickOK(t)'
  <2>1. s \in DOMAIN scans'
    BY <1>3 DEF RowMoves
  <2>2. Mine(t)' = s /\ MyScan(t)' = scans'[s] /\ tick'[t].pc = pc
    BY <1>6, <1>7 DEF Mine, MyScan
  <2> QED BY <1>3, <1>4, <2>1, <2>2 DEF TickOK
<1> QED BY <1>1, <1>3, <1>8, <1>9, TickKeeps

\* A phase saves its result on the scan.
LEMMA ResultKeeps ==
    ASSUME ScansInv, NEW t \in Ticks, Enumerate(t) \/ Analyze(t)
    PROVE  ScansInv'
<1>1. TypeOK /\ tick[t].pc \in {"enumerate", "analyze"} /\ UNCHANGED <<delivery, handler, recs, merging, coverage>>
  BY DEF ScansInv, Enumerate, Analyze, webhook, recommendations
<1>2. PICK s \in DOMAIN scans : s = Mine(t)
  BY <1>1, HeldTypes
<1>3. /\ scans[s] \in ScanState /\ scans[s].state = "running"
      /\ recs \in Recommendations /\ merging \subseteq Gaps /\ coverage \subseteq Primary
      /\ \A u \in Ticks \ {t} : Mine(u) # s
      /\ tick[t].pc = "analyze" => scans[s].code # <<>>
  BY <1>1, <1>2, HeldTypes DEF MyScan, ScansInv, TickOK
<1>4. PICK pc \in {"analyze", "rank"} : /\ Go(t, pc)
                                        /\ pc = IF tick[t].pc = "enumerate" THEN "analyze" ELSE "rank"
  BY <1>1 DEF Enumerate, Analyze
<1>5. Steps(t, pc)
  BY <1>1, <1>4, GoSteps DEF Statements
<1>6. PICK row \in ScanState :
         /\ scans' = [scans EXCEPT ![s] = row] /\ row.sha = scans[s].sha
         /\ row.stamps = scans[s].stamps /\ row.state = "running"
         /\ row.code # <<>> /\ (pc = "rank" => row.flagged # <<>>)
  <2>1. CASE Enumerate(t)
    <3>1. PICK code \in CommitFiles : scans' = [scans EXCEPT ![s].code = <<code>>]
      BY <1>2, <2>1 DEF Enumerate, SaveCode
    <3>2. <<code>> \in Codes /\ <<code>> # <<>>
      BY ResultTypes
    <3>3. PICK c \in Codes : c = <<code>> /\ c # <<>>
      BY <3>2
    <3> DEFINE row == [scans[s] EXCEPT !.code = c]
    <3>4. /\ row \in ScanState /\ row.sha = scans[s].sha /\ row.stamps = scans[s].stamps
          /\ row.state = "running" /\ row.code # <<>>
      BY <1>3, <3>3 DEF ScanState
    <3>5. scans' = [scans EXCEPT ![s] = row]
      BY <1>3, <3>1, <3>3
    <3>6. pc = "analyze"
      BY <1>4, <2>1 DEF Enumerate
    <3> QED BY <3>4, <3>5, <3>6
  <2>2. CASE Analyze(t)
    <3>1. PICK answer \in Answers : scans' = [scans EXCEPT ![s].flagged = answer]
      BY <1>2, <2>2 DEF Analyze, SaveFindings
    <3>2. answer \in Findings /\ answer # <<>>
      BY ResultTypes
    <3> DEFINE row == [scans[s] EXCEPT !.flagged = answer]
    <3>3. scans[s].code # <<>>
      BY <1>3, <2>2 DEF Analyze
    <3>4. /\ row \in ScanState /\ row.sha = scans[s].sha /\ row.stamps = scans[s].stamps
          /\ row.state = "running" /\ row.code # <<>> /\ row.flagged # <<>>
      BY <1>3, <3>2, <3>3 DEF ScanState
    <3>5. scans' = [scans EXCEPT ![s] = row]
      BY <1>3, <3>1
    <3> QED BY <3>4, <3>5
  <2> QED BY <2>1, <2>2
<1>7. /\ scans' \in Seq(ScanState) /\ DOMAIN scans' = DOMAIN scans
      /\ scans'[s] = row /\ \A r \in DOMAIN scans \ {s} : scans'[r] = scans[r]
  BY <1>1, <1>6, SetRow
<1>8. RowMoves(s) /\ TickMoves(t, s)
  BY <1>1, <1>2, <1>3, <1>5, <1>6, <1>7, HeldTypes DEF RowMoves, TickMoves, Steps, Mine
<1>9. TickOK(t)'
  <2>1. Mine(t)' = s /\ s \in DOMAIN scans' /\ tick'[t].pc = pc /\ MyScan(t)' = row
    BY <1>2, <1>5, <1>7 DEF Steps, Mine, MyScan
  <2> QED BY <1>6, <2>1 DEF TickOK
<1>10. scans'[s].state # "succeeded"
  BY <1>6, <1>7
<1> QED BY <1>3, <1>8, <1>9, <1>10, TickKeeps

\* The stamp is read from the row.
LEMMA LoadPendingKeeps ==
    ASSUME ScansInv, NEW t \in Ticks, LoadPending(t)
    PROVE  ScansInv'
<1>1. TypeOK /\ tick[t].pc = "pending" /\ UNCHANGED <<delivery, handler, recs, merging, coverage>>
  BY DEF ScansInv, LoadPending, webhook, recommendations
<1>2. PICK s \in DOMAIN scans : s = Mine(t)
  BY <1>1, HeldTypes
<1>3. /\ scans[s] \in ScanState /\ scans[s].state = "running"
      /\ recs \in Recommendations /\ merging \subseteq Gaps /\ coverage \subseteq Primary
      /\ \A u \in Ticks \ {t} : Mine(u) # s
      /\ scans[s].code # <<>> /\ scans[s].flagged # <<>> /\ tick[t] \in TickState
  BY <1>1, <1>2, HeldTypes DEF MyScan, ScansInv, TickOK
<1>4. PICK p \in Primary \cup NoCommit : p = scans[s].pending
  BY <1>3 DEF ScanState
<1>5. PICK pc \in {"finish", "followup"} : pc = IF p \in {0, scans[s].sha} THEN "finish" ELSE "followup"
  OBVIOUS
<1> DEFINE new == [tick[t] EXCEPT !.pc = pc, !.pending = p]
           row == [scans[s] EXCEPT !.late = FALSE]
<1>6. new \in TickState /\ new.pc = pc /\ new.pending = p /\ new.scan = s
  BY <1>2, <1>3, <1>4 DEF TickState, Mine
<1>7. tick' = [tick EXCEPT ![t] = new]
  BY <1>1, <1>2, <1>4, <1>5 DEF LoadPending, LivePending, MyScan, TypeOK
<1>8. /\ row \in ScanState /\ row.sha = scans[s].sha /\ row.stamps = scans[s].stamps
      /\ row.state = "running" /\ row.code # <<>> /\ row.flagged # <<>> /\ row.pending = p
  BY <1>3, <1>4 DEF ScanState
<1>9. scans' = [scans EXCEPT ![s] = row]
  BY <1>1, <1>2, <1>3 DEF LoadPending
<1> HIDE DEF new, row
<1>10. /\ tick' \in [Ticks -> TickState] /\ tick'[t] = new
       /\ \A u \in Ticks \ {t} : tick'[u] = tick[u]
  BY <1>1, <1>6, <1>7 DEF TypeOK
<1>11. /\ scans' \in Seq(ScanState) /\ DOMAIN scans' = DOMAIN scans
       /\ scans'[s] = row /\ \A r \in DOMAIN scans \ {s} : scans'[r] = scans[r]
  BY <1>1, <1>8, <1>9, SetRow
<1>12. RowMoves(s) /\ TickMoves(t, s)
  <2>1. RowMoves(s)
    BY <1>8, <1>11 DEF RowMoves
  <2>2. tick'[t].scan \in {0, s} /\ recs' \in Recommendations /\ merging' \subseteq Gaps /\ coverage' \subseteq Primary
    <3>1. tick'[t].scan = s
      BY <1>6, <1>10
    <3>2. recs' = recs /\ merging' = merging /\ coverage' = coverage
      BY <1>1
    <3> QED BY <1>3, <3>1, <3>2
  <2> QED BY <1>1, <1>10, <2>1, <2>2 DEF TickMoves
<1>13. TickOK(t)'
  <2>1. /\ Mine(t)' = s /\ s \in DOMAIN scans' /\ MyScan(t)' = row
        /\ tick'[t].pc = pc /\ tick'[t].pending = p
    BY <1>6, <1>10, <1>11 DEF Mine, MyScan
  <2>2. pc = "followup" => p \in Primary
    BY <1>4, <1>5 DEF NoCommit
  <2>3. pc = "finish" => p = 0 \/ HasScan(p)'
    BY <1>5, <1>8, <1>11 DEF HasScan
  <2> QED BY <1>8, <2>1, <2>2, <2>3 DEF TickOK
<1>14. scans'[s].state # "succeeded"
  BY <1>8, <1>11
<1> QED BY <1>3, <1>12, <1>13, <1>14, TickKeeps

\* The follow-up of the stamp is enqueued.
LEMMA EnqueueFollowupKeeps ==
    ASSUME ScansInv, NEW t \in Ticks, EnqueueFollowup(t)
    PROVE  ScansInv'
<1>1. /\ TypeOK /\ OneEach /\ TickOK(t) /\ tick[t].pc = "followup" /\ Go(t, "finish")
      /\ UNCHANGED <<delivery, handler, recs, merging, coverage>>
  BY DEF ScansInv, EnqueueFollowup, webhook, recommendations
<1>2. PICK p \in Primary : p = tick[t].pending
  BY <1>1 DEF TickOK
<1>3. PICK s \in DOMAIN scans : s = Mine(t)
  BY <1>1, HeldTypes
<1>4. scans' = WithScan(p)
  BY <1>2 DEF EnqueueFollowup
<1>5. /\ Grows /\ HasScan(p)'
      /\ \A r \in DOMAIN scans : scans'[r] = scans[r]
      /\ \A r \in DOMAIN scans' : r \in DOMAIN scans \/ scans'[r].state = "queued"
      /\ \A q, r \in DOMAIN scans' : scans'[q].sha = scans'[r].sha => q = r
  BY <1>1, <1>4, WithScanTypes
<1>6. PICK pc \in Statements : pc = "finish"
  BY DEF Statements
<1>7. /\ tick' \in [Ticks -> TickState] /\ \A u \in Ticks \ {t} : tick'[u] = tick[u]
      /\ tick'[t].pc = "finish" /\ tick'[t].scan = s /\ tick'[t].pending = p
  BY <1>1, <1>2, <1>3, <1>6, GoSteps DEF Steps, Mine
<1>8. TypeOK'
  BY <1>1, <1>5, <1>7 DEF TypeOK, Grows
<1>9. OneEach'
  <2>1. \A u \in Ticks : tick'[u].scan = tick[u].scan
    BY <1>3, <1>7 DEF Mine
  <2> QED BY <1>1, <1>5, <2>1 DEF OneEach, Mine
<1>10. ASSUME NEW u \in Ticks PROVE TickOK(u)'
  <2>1. CASE u = t
    <3>1. Mine(t)' = s /\ s \in DOMAIN scans' /\ MyScan(t)' = scans[s] /\ MyScan(t) = scans[s]
      BY <1>3, <1>5, <1>7 DEF Mine, MyScan, Grows
    <3> QED BY <1>1, <1>2, <1>5, <1>7, <2>1, <3>1 DEF TickOK
  <2>2. CASE u # t
    BY <1>1, <1>5, <1>7, <2>2, TickStays DEF ScansInv
  <2> QED BY <2>1, <2>2
<1>11. StampIsFollowed'
  BY <1>5, FollowedStays DEF ScansInv
<1> QED BY <1>1, <1>5, <1>8, <1>9, <1>10, <1>11, InvFrom

\* A tick lets its scan go, in one state or another.
LEMMA LeavesKeeps ==
    ASSUME ScansInv, NEW t \in Ticks, tick[t].pc # "idle", tick' = [tick EXCEPT ![t] = IdleTick],
           NEW state \in {"queued", "running", "succeeded", "failed"},
           scans' = [scans EXCEPT ![Mine(t)].state = state],
           UNCHANGED <<delivery, handler, recs, merging, coverage>>,
           state = "succeeded" => tick[t].pc = "finish"
    PROVE  ScansInv'
<1>1. PICK s \in DOMAIN scans : s = Mine(t)
  BY HeldTypes
<1>2. /\ recs \in Recommendations /\ merging \subseteq Gaps /\ coverage \subseteq Primary
      /\ \A u \in Ticks \ {t} : Mine(u) # s
      /\ TypeOK
  BY <1>1, HeldTypes DEF ScansInv
<1>3. /\ RowMoves(s) /\ scans'[s].state = state /\ scans'[s].pending = scans[s].pending
      /\ scans'[s].late = scans[s].late
  BY <1>1, <1>2, StateMoves
<1>4. /\ tick' \in [Ticks -> TickState] /\ tick'[t] = IdleTick
      /\ \A u \in Ticks \ {t} : tick'[u] = tick[u]
  BY <1>2, IdleTypes DEF TypeOK
<1>5. TickMoves(t, s)
  <2>1. tick'[t].scan \in {0, s} /\ recs' \in Recommendations /\ merging' \subseteq Gaps /\ coverage' \subseteq Primary
    <3>1. tick'[t].scan = 0
      BY <1>4, IdleTypes
    <3>2. recs' = recs /\ merging' = merging /\ coverage' = coverage
      OBVIOUS
    <3> QED BY <1>2, <3>1, <3>2
  <2> QED BY <1>4, <2>1 DEF TickMoves
<1>6. TickOK(t)'
  BY <1>4, IdleTypes DEF TickOK, Mine
<1>7. state = "succeeded" =>
         \/ scans[s].late \/ scans[s].pending = 0
         \/ \E r \in DOMAIN scans : scans[r].sha = scans[s].pending
  BY <1>1 DEF ScansInv, TickOK, HasScan, MyScan
<1> QED BY <1>2, <1>3, <1>5, <1>6, <1>7, TickKeeps

LEMMA FinishKeeps ==
    ASSUME ScansInv, NEW t \in Ticks, Finish(t) \/ TickFails(t)
    PROVE  ScansInv'
<1>1. /\ tick[t].pc # "idle" /\ tick' = [tick EXCEPT ![t] = IdleTick]
      /\ UNCHANGED <<delivery, handler, recs, merging, coverage>>
  BY DEF Finish, TickFails, webhook, recommendations
<1>2. PICK state \in {"queued", "running", "succeeded", "failed"} :
         /\ scans' = [scans EXCEPT ![Mine(t)].state = state]
         /\ state = "succeeded" => tick[t].pc = "finish"
  BY DEF Finish, TickFails
<1> QED BY <1>1, <1>2, LeavesKeeps

-----------------------------------------------------------------------------
(* Members, and the beginning.                                             *)

LEMMA RetryScanKeeps ==
    ASSUME ScansInv, NEW s \in DOMAIN scans, RetryScan(s)
    PROVE  ScansInv'
<1>1. /\ TypeOK /\ OneEach /\ scans[s].state = "failed"
      /\ scans' = [scans EXCEPT ![s].state = "queued"]
      /\ UNCHANGED <<delivery, handler, tick, recs, merging, coverage>>
  BY DEF ScansInv, RetryScan, webhook, worker, recommendations
<1>2. PICK state \in {"queued", "running", "succeeded", "failed"} : state = "queued"
  OBVIOUS
<1>3. RowMoves(s) /\ scans'[s].state = "queued"
  BY <1>1, <1>2, StateMoves
<1>4. /\ Grows /\ DOMAIN scans' = DOMAIN scans /\ scans' \in Seq(ScanState)
      /\ \A r \in DOMAIN scans \ {s} : scans'[r] = scans[r]
      /\ \A r \in DOMAIN scans : scans'[r].sha = scans[r].sha
  BY <1>3, MovedGrows DEF RowMoves
<1>5. TypeOK'
  BY <1>1, <1>4 DEF TypeOK
<1>6. OneEach'
  BY <1>1, <1>4 DEF OneEach, Mine
<1>7. ASSUME NEW t \in Ticks PROVE TickOK(t)'
  <2>1. Mine(t) # s
    <3>1. tick[t].pc = "idle" => Mine(t) = 0
      BY DEF ScansInv, TickOK
    <3>2. tick[t].pc # "idle" => scans[Mine(t)].state = "running"
      BY HeldTypes DEF MyScan
    <3>3. s # 0
      BY <1>1, ScanTypes
    <3> QED BY <1>1, <3>1, <3>2, <3>3
  <2>2. \A r \in DOMAIN scans : Mine(t) = r => scans'[r] = scans[r]
    BY <1>4, <2>1
  <2> QED BY <1>1, <1>4, <2>2, TickStays DEF ScansInv
<1>8. StampIsFollowed'
  <2>1. \A r \in DOMAIN scans' : \/ r \in DOMAIN scans /\ scans'[r] = scans[r]
                                 \/ scans'[r].state # "succeeded"
    BY <1>3, <1>4
  <2> QED BY <1>4, <2>1, FollowedStays DEF ScansInv
<1> QED BY <1>1, <1>4, <1>5, <1>6, <1>7, <1>8, InvFrom

\* A write to the state of one recommendation, and to no other part of the system.
LEMMA WriteKeeps ==
    ASSUME ScansInv, NEW g \in Gaps, NEW state \in {"active", "dismissed", "accepted"},
           recs' = [recs EXCEPT ![g] = state], merging' \subseteq Gaps,
           UNCHANGED <<delivery, handler, scans, tick, coverage>>
    PROVE  ScansInv' /\ \A r \in Gaps \ {g} : recs'[r] = recs[r]
<1>1. /\ TypeOK
      /\ recs' \in [Gaps -> {"none", "active", "outdated", "dismissed", "accepted"}]
      /\ \A r \in Gaps \ {g} : recs'[r] = recs[r]
  BY DEF ScansInv, TypeOK
<1>2. TypeOK'
  BY <1>1 DEF TypeOK
<1> QED BY <1>1, <1>2, InvOutside

\* What a dismissed recommendation that is no longer dismissed went through.
Undone == \A r \in Gaps : recs[r] = "dismissed" /\ recs'[r] # "dismissed"
                => SetRecommendationState(r) \/ WriteMerged(r)

LEMMA MembersKeep ==
    ASSUME ScansInv, NEW g \in Gaps, SetRecommendationState(g)
    PROVE  ScansInv' /\ Undone
<1>1. merging' \subseteq Gaps /\ UNCHANGED <<delivery, handler, scans, tick, coverage>>
  BY DEF ScansInv, TypeOK, SetRecommendationState, webhook
<1>2. PICK move \in MemberMoves : recs[g] = move[1] /\ recs' = [recs EXCEPT ![g] = move[2]]
  BY DEF SetRecommendationState
<1>3. PICK state \in {"active", "dismissed", "accepted"} : recs' = [recs EXCEPT ![g] = state]
  <2>1. move[2] \in {"dismissed", "active"}
    BY DEF MemberMoves
  <2> QED BY <1>2, <2>1
<1>4. ScansInv' /\ \A r \in Gaps \ {g} : recs'[r] = recs[r]
  BY <1>1, <1>3, WriteKeeps
<1> QED BY <1>4 DEF Undone

LEMMA MergesKeep ==
    ASSUME ScansInv, NEW g \in Gaps, ReadMerged(g) \/ WriteMerged(g)
    PROVE  ScansInv' /\ Undone
<1>1. TypeOK /\ UNCHANGED <<delivery, handler, scans, tick, coverage>>
  BY DEF ScansInv, ReadMerged, WriteMerged, webhook
<1>2. merging' \subseteq Gaps
  BY <1>1 DEF TypeOK, ReadMerged, WriteMerged
<1>3. CASE ReadMerged(g)
  <2>1. UNCHANGED recs
    BY <1>3 DEF ReadMerged
  <2>2. TypeOK'
    BY <1>1, <1>2, <2>1 DEF TypeOK
  <2> QED BY <1>1, <2>1, <2>2, InvOutside DEF Undone
<1>4. CASE WriteMerged(g)
  <2>1. PICK state \in {"active", "dismissed", "accepted"} : recs' = [recs EXCEPT ![g] = state]
    BY <1>4 DEF WriteMerged
  <2>2. ScansInv' /\ \A r \in Gaps \ {g} : recs'[r] = recs[r]
    BY <1>1, <1>2, <2>1, WriteKeeps
  <2> QED BY <1>4, <2>2 DEF Undone
<1> QED BY <1>3, <1>4

LEMMA StutterKeeps ==
    ASSUME ScansInv, UNCHANGED vars
    PROVE  ScansInv'
<1>1. UNCHANGED <<delivery, handler, scans, tick, recs, merging, coverage>>
  BY DEF vars, recommendations
<1>2. TypeOK'
  BY <1>1 DEF ScansInv, TypeOK
<1> QED BY <1>1, <1>2, InvOutside

LEMMA InitKeeps ==
    ASSUME Init
    PROVE  ScansInv
<1>1. scans = <<>> /\ scans \in Seq(ScanState) /\ DOMAIN scans = {}
  BY EmptySeq DEF Init
<1>2. Unseen \in DeliveryRows /\ Unseen.status \notin {"processed", "ignored"}
  BY DEF Unseen, DeliveryRows
<1>3. \A p \in Pushes : DeliveryOK(p)
  BY <1>2 DEF Init, DeliveryOK
<1>4. \A h \in Handlers : HandlerOK(h)
  BY IdleTypes DEF Init, HandlerOK
<1>5. \A t \in Ticks : TickOK(t) /\ Mine(t) = 0
  BY IdleTypes DEF Init, TickOK, Mine
<1>6. TypeOK
  BY <1>1, <1>2, IdleTypes DEF Init, TypeOK
<1>7. OneEach /\ StampIsFollowed
  BY <1>1, <1>5 DEF OneEach, StampIsFollowed
<1> QED BY <1>3, <1>4, <1>5, <1>6, <1>7 DEF ScansInv

-----------------------------------------------------------------------------
(* The invariant, and the properties.                                      *)

LEMMA HandleKeeps ==
    ASSUME ScansInv, NEW h \in Handlers, Handle(h)
    PROVE  ScansInv' /\ UNCHANGED recs
<1>1. ASSUME NEW p \in Pushes, Receive(h, p) PROVE ScansInv' /\ UNCHANGED recs
  BY <1>1, ReceiveKeeps DEF Receive, worker, recommendations
<1>2. CASE Decide(h)
  BY <1>2, DecideKeeps DEF Decide, worker, recommendations
<1>3. CASE Stamp(h)
  BY <1>3, StampKeeps DEF Stamp, worker, recommendations
<1>4. CASE Enqueue(h)
  BY <1>4, EnqueueKeeps DEF Enqueue, worker, recommendations
<1>5. CASE Mark(h)
  BY <1>5, MarkKeeps DEF Mark, worker, recommendations
<1>6. CASE HandlerFails(h)
  BY <1>6, HandlerFailsKeeps DEF HandlerFails, worker, recommendations
<1> QED BY <1>1, <1>2, <1>3, <1>4, <1>5, <1>6 DEF Handle

LEMMA ExecuteKeeps ==
    ASSUME ScansInv, NEW t \in Ticks, Execute(t)
    PROVE  ScansInv' /\ \A g \in Gaps : recs[g] = "dismissed" => recs'[g] = "dismissed"
<1>1. ASSUME NEW s \in DOMAIN scans, Claim(t, s) PROVE ScansInv' /\ UNCHANGED recs
  BY <1>1, ClaimKeeps DEF Claim, recommendations
<1>2. CASE Enumerate(t) \/ Analyze(t)
  BY <1>2, ResultKeeps DEF Enumerate, Analyze, recommendations
<1>3. CASE Rank(t)
  BY <1>3, RankKeeps DEF Rank, recommendations
<1>4. CASE Upsert(t) \/ Outdate(t)
  BY <1>4, UpsertKeeps
<1>5. CASE List(t)
  BY <1>5, ListKeeps DEF List, recommendations
<1>6. CASE EnqueueCoverage(t)
  BY <1>6, EnqueueCoverageKeeps DEF EnqueueCoverage, recommendations
<1>7. CASE LoadPending(t)
  BY <1>7, LoadPendingKeeps DEF LoadPending, recommendations
<1>8. CASE EnqueueFollowup(t)
  BY <1>8, EnqueueFollowupKeeps DEF EnqueueFollowup, recommendations
<1>9. CASE Finish(t) \/ TickFails(t)
  BY <1>9, FinishKeeps DEF Finish, TickFails, recommendations
<1> QED BY <1>1, <1>2, <1>3, <1>4, <1>5, <1>6, <1>7, <1>8, <1>9 DEF Execute

LEMMA NextKeeps ==
    ASSUME ScansInv, [Next]_vars
    PROVE  ScansInv' /\ Undone
<1>1. ASSUME NEW h \in Handlers, Handle(h) PROVE ScansInv' /\ UNCHANGED recs
  BY <1>1, HandleKeeps
<1>2. ASSUME NEW p \in Pushes, Reject(p) PROVE ScansInv' /\ UNCHANGED recs
  BY <1>2, RejectKeeps DEF Reject, worker, recommendations
<1>3. ASSUME NEW t \in Ticks, Execute(t)
      PROVE  ScansInv' /\ \A g \in Gaps : recs[g] = "dismissed" => recs'[g] = "dismissed"
  BY <1>3, ExecuteKeeps
<1>4. ASSUME NEW s \in DOMAIN scans, RetryScan(s) PROVE ScansInv' /\ UNCHANGED recs
  BY <1>4, RetryScanKeeps DEF RetryScan, worker, recommendations
<1>5. ASSUME NEW g \in Gaps, SetRecommendationState(g) \/ ReadMerged(g) \/ WriteMerged(g)
      PROVE  ScansInv' /\ Undone
  BY <1>5, MembersKeep, MergesKeep
<1>6. CASE UNCHANGED vars
  BY <1>6, StutterKeeps DEF vars, recommendations, Undone
<1> QED BY <1>1, <1>2, <1>3, <1>4, <1>5, <1>6 DEF Next, Undone

LEMMA ScansInvariant == Spec => []ScansInv
<1>1. Init => ScansInv
  BY InitKeeps
<1>2. ScansInv /\ [Next]_vars => ScansInv'
  BY NextKeeps
<1> QED BY <1>1, <1>2, PTL DEF Spec

\* A push to the primary branch that was reported processed is scanned or stamped on a scan,
\* for every number of requests, ticks, redeliveries and failures, also when the scan in
\* flight ended between the decision and the stamp (github-webhook/index.ts:174-176).
THEOREM ProcessedPushesKept == Spec => []ProcessedPushIsKept
<1>1. ScansInv => ProcessedPushIsKept
  BY ScansAssumption DEF ScansAssumption, ScansInv, DeliveryOK, Kept, ProcessedPushIsKept
<1> QED BY <1>1, ScansInvariant, PTL

\* A scan that succeeded has left a scan of the stamp it carries, however often it was killed,
\* retried and stamped before, unless the stamp came after it had read its own
\* (agent-scan.ts:247-249).
THEOREM StampsFollowed == Spec => []StampIsFollowed
<1>1. ScansInv => StampIsFollowed
  BY DEF ScansInv
<1> QED BY <1>1, ScansInvariant, PTL

\* No scan takes a dismissal back, whether it flags the gap again or has it on a stale list of
\* active recommendations: only a member who restores it does, and a merge that read the
\* recommendation as active before (scan-store.ts:199-205, 243-244).
THEOREM DismissalsStand == Spec => DismissalIsRespected
<1>1. ScansInv /\ [Next]_vars =>
         [\A g \in Gaps : recs[g] = "dismissed" /\ recs'[g] # "dismissed"
              => SetRecommendationState(g) \/ WriteMerged(g)]_vars
  BY NextKeeps DEF Undone
<1> QED BY <1>1, ScansInvariant, PTL DEF Spec, DismissalIsRespected
=============================================================================
