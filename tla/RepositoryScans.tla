-------------------------- MODULE RepositoryScans --------------------------
(***************************************************************************)
(* Pushes to the primary branch of one repository and the scans they cause *)
(* (functions/github-webhook/index.ts and decideScan of                    *)
(* lib/github-webhook.ts, lib/agent-scan.ts, functions/_shared/            *)
(* scan-store.ts).  A push that finds a scan in flight is stamped on it,   *)
(* and the scan enqueues one follow-up for the stamp when it ranks; the    *)
(* scans keep the instrumentation recommendations of the repository, which *)
(* members dismiss and restore meanwhile, and which the merge of a         *)
(* generated pull request accepts.                                         *)
(*                                                                         *)
(* A commit is the number of the push it heads.  The job around the phases *)
(* is reduced to what the executor sees of it (module JobEngine).          *)
(***************************************************************************)
EXTENDS Naturals, Sequences, FiniteSets, GithubDelivery

CONSTANTS
    Handlers,       \* webhook requests served at once
    Ticks,          \* worker ticks that execute scans
    Pushes,         \* push deliveries, by the commit they head; 0 is no commit
    Primary,        \* those to the primary branch
    Gaps,           \* instrumentation gaps the model may flag
    MaxSends,       \* deliveries and redeliveries of pushes
    MaxFaults       \* failures and kills, of handlers and ticks together

ASSUME ScansAssumption ==
    /\ Pushes \subseteq Nat \ {0} /\ Primary \subseteq Pushes
    /\ MaxSends \in Nat /\ MaxFaults \in Nat

VARIABLES
    delivery,       \* the delivery log
    handler,        \* local state of each request
    scans,          \* proactive_scan jobs, in the order of their creation
    tick,           \* local state of each executor
    recs,           \* state of the recommendation of each gap
    merging,        \* gaps whose recommendation the delivery of a merge has read as active
    coverage,       \* commits with an alert-coverage job
    sent, faults

recommendations == <<recs, merging>>
vars == <<delivery, handler, scans, tick, recommendations, coverage, sent, faults>>
webhook == <<delivery, handler, sent>>
worker == <<tick, recommendations, coverage>>

IdleHandler == [pc |-> "idle", push |-> 0, onto |-> 0]
IdleTick == [pc |-> "idle", scan |-> 0, pending |-> 0, todo |-> {}]

\* code and flagged are the evidence rows of the scan: the gaps in the files of the
\* commit, and the gaps the model flagged; empty until saved.
NewScan(sha) ==
    [sha |-> sha, state |-> "queued", pending |-> 0, code |-> <<>>, flagged |-> <<>>,
     stamps |-> {}, late |-> FALSE]

InFlight(s) == scans[s].state \in {"queued", "running"}

HasScan(sha) == \E s \in DOMAIN scans : scans[s].sha = sha

LatestScan == Len(scans)

-----------------------------------------------------------------------------
(* The webhook.                                                            *)

\* One scan per commit, whoever asks first.
WithScan(sha) == IF HasScan(sha) THEN scans ELSE Append(scans, NewScan(sha))

\* A commit pushed to the primary branch, which is not a deletion and not a tag.
IsPrimaryBranchPush(p) == p \in Primary

\* A push arrives, or arrives again, and is recorded; terminal deliveries are not repeated
\* and pushes to other branches are ignored.
Receive(h, p) ==
    /\ handler[h].pc = "idle" /\ sent < MaxSends
    /\ sent' = sent + 1
    /\ delivery' = [delivery EXCEPT ![p] =
                      Recorded(@, IF IsPrimaryBranchPush(p) THEN "received" ELSE "ignored", TRUE)]
    /\ handler' = [handler EXCEPT ![h] =
                     IF IsTerminal(delivery[p]) \/ ~IsPrimaryBranchPush(p) THEN IdleHandler
                     ELSE [pc |-> "decide", push |-> p, onto |-> 0]]
    /\ UNCHANGED <<scans, worker, faults>>

\* Without the right secret the delivery is recorded as rejected, and not handled.
Reject(p) ==
    /\ sent < MaxSends /\ faults < MaxFaults
    /\ sent' = sent + 1 /\ faults' = faults + 1
    /\ delivery' = [delivery EXCEPT ![p] = Recorded(@, "ignored", FALSE)]
    /\ UNCHANGED <<handler, scans, worker>>

\* decideScan on the latest scan: skip its own commit, coalesce onto a scan in flight,
\* else enqueue (after the cooldown, which only delays the claim).
Decision(push) ==
    IF LatestScan = 0 THEN "enqueue"
    ELSE IF scans[LatestScan].sha = push THEN "mark"
    ELSE IF InFlight(LatestScan) THEN "stamp" ELSE "enqueue"

Decide(h) ==
    LET decision == Decision(handler[h].push) IN
    /\ handler[h].pc = "decide"
    /\ handler' = [handler EXCEPT ![h].pc = decision,
                                  ![h].onto = IF decision = "stamp" THEN LatestScan ELSE 0]
    /\ UNCHANGED <<delivery, scans, worker, sent, faults>>

\* The stamp, and whether the tick that runs the scan has read the stamps already.
StampOn(s, sha) ==
    [scans EXCEPT ![s].pending = sha, ![s].stamps = @ \cup {sha},
                  ![s].late = \E t \in Ticks : tick[t].scan = s /\ tick[t].pc \in {"followup", "finish"}]

\* (Mutant) The answer of markScanPending is not looked at.
StampAnyway(h) ==
    /\ handler[h].pc = "stamp"
    /\ scans' = IF InFlight(handler[h].onto) THEN StampOn(handler[h].onto, handler[h].push) ELSE scans
    /\ handler' = [handler EXCEPT ![h].pc = "mark"]
    /\ UNCHANGED <<delivery, worker, sent, faults>>

\* markScanPending: conditional on the state; a scan that ended meanwhile is not stamped
\* and the push is enqueued instead.
Stamp(h) ==
    /\ handler[h].pc = "stamp"
    /\ \/ /\ InFlight(handler[h].onto)
          /\ scans' = StampOn(handler[h].onto, handler[h].push)
          /\ handler' = [handler EXCEPT ![h].pc = "mark"]
       \/ /\ ~InFlight(handler[h].onto)
          /\ handler' = [handler EXCEPT ![h].pc = "enqueue"]
          /\ UNCHANGED scans
    /\ UNCHANGED <<delivery, worker, sent, faults>>

Enqueue(h) ==
    /\ handler[h].pc = "enqueue"
    /\ scans' = WithScan(handler[h].push)
    /\ handler' = [handler EXCEPT ![h].pc = "mark"]
    /\ UNCHANGED <<delivery, worker, sent, faults>>

Mark(h) ==
    /\ handler[h].pc = "mark"
    /\ delivery' = [delivery EXCEPT ![handler[h].push] = Marked(@, "processed")]
    /\ handler' = [handler EXCEPT ![h] = IdleHandler]
    /\ UNCHANGED <<scans, worker, sent, faults>>

\* The catch block marks the delivery failed; a killed request leaves it as it is.
HandlerFails(h) ==
    /\ handler[h].pc # "idle" /\ faults < MaxFaults
    /\ faults' = faults + 1
    /\ delivery' \in {delivery, [delivery EXCEPT ![handler[h].push] = Marked(@, "failed")]}
    /\ handler' = [handler EXCEPT ![h] = IdleHandler]
    /\ UNCHANGED <<scans, worker, sent>>

-----------------------------------------------------------------------------
(* The executor.                                                           *)

Mine(t) == tick[t].scan
MyScan(t) == scans[Mine(t)]
Go(t, pc) == tick' = [tick EXCEPT ![t].pc = pc]

\* A due scan, or one whose tick was killed; it resumes at the first phase without result.
Claim(t, s) ==
    /\ tick[t].pc = "idle" /\ InFlight(s) /\ \A u \in Ticks : Mine(u) # s
    /\ scans' = [scans EXCEPT ![s].state = "running"]
    /\ tick' = [tick EXCEPT ![t] =
         [scan |-> s, pending |-> scans[s].pending, todo |-> {},
          pc |-> IF scans[s].code = <<>> THEN "enumerate"
                 ELSE IF scans[s].flagged = <<>> THEN "analyze" ELSE "rank"]]
    /\ UNCHANGED <<webhook, recommendations, coverage, faults>>

\* The files of a commit, by the gaps in them; text that cannot be parsed names none.
CommitFiles == SUBSET Gaps

\* saveCode: the evidence row of the scan, inserted once or replaced.
SaveCode(t, code) == scans' = [scans EXCEPT ![Mine(t)].code = <<code>>]

Enumerate(t) ==
    /\ tick[t].pc = "enumerate"
    /\ \E code \in CommitFiles : SaveCode(t, code)
    /\ Go(t, "analyze")
    /\ UNCHANGED <<webhook, recommendations, coverage, faults>>

\* What the model may answer: gaps, or findings that fail the schema.
Answers == {<<"valid", gaps>> : gaps \in SUBSET Gaps} \cup {<<"invalid", {}>>}

\* saveFindings: the evidence row of the scan, inserted once or replaced.
SaveFindings(t, answer) == scans' = [scans EXCEPT ![Mine(t)].flagged = answer]

Analyze(t) ==
    /\ tick[t].pc = "analyze"
    /\ \E answer \in Answers : SaveFindings(t, answer)
    /\ Go(t, "rank")
    /\ UNCHANGED <<webhook, recommendations, coverage, faults>>

\* rank reads the findings back; an invalid answer touches no recommendation.
Rank(t) ==
    /\ tick[t].pc = "rank"
    /\ tick' = [tick EXCEPT ![t].pc = IF MyScan(t).flagged[1] = "valid" THEN "upsert" ELSE "coverage",
                            ![t].todo = MyScan(t).flagged[2]]
    /\ UNCHANGED <<webhook, scans, recommendations, coverage, faults>>

\* (Mutant) The update of a recommendation there has all the fields of the insert.
RecommendedAnew(state) == "active"

\* A flagged gap: a recommendation there already keeps its state, whatever that is.
Recommended(state) == IF state = "none" THEN "active" ELSE state

Upsert(t) ==
    /\ tick[t].pc = "upsert"
    /\ \/ \E g \in tick[t].todo :
             /\ recs' = [recs EXCEPT ![g] = Recommended(@)]
             /\ tick' = [tick EXCEPT ![t].todo = @ \ {g}]
       \/ tick[t].todo = {} /\ Go(t, "list") /\ UNCHANGED recs
    /\ UNCHANGED <<webhook, scans, merging, coverage, faults>>

\* The active recommendations in the files that the scan examined.
ListActive(t) == {g \in MyScan(t).code[1] : recs[g] = "active"}

\* Those whose gap was not flagged again.
List(t) ==
    /\ tick[t].pc = "list"
    /\ tick' = [tick EXCEPT ![t].pc = "outdate",
          ![t].todo = ListActive(t) \ MyScan(t).flagged[2]]
    /\ UNCHANGED <<webhook, scans, recommendations, coverage, faults>>

\* outdateRecommendation: guarded by the state, which the list only saw earlier.
Outdated(state) == IF state = "active" THEN "outdated" ELSE state

Outdate(t) ==
    /\ tick[t].pc = "outdate"
    /\ \/ \E g \in tick[t].todo :
             /\ recs' = [recs EXCEPT ![g] = Outdated(@)]
             /\ tick' = [tick EXCEPT ![t].todo = @ \ {g}]
       \/ tick[t].todo = {} /\ Go(t, "coverage") /\ UNCHANGED recs
    /\ UNCHANGED <<webhook, scans, merging, coverage, faults>>

\* One alert-coverage job per commit, behind its unique key.
EnqueueCoverage(t) ==
    /\ tick[t].pc = "coverage"
    /\ coverage' = coverage \cup {MyScan(t).sha}
    /\ Go(t, "pending")
    /\ UNCHANGED <<webhook, scans, recommendations, faults>>

\* (Mutant) The stamp of the claimed row.
FrozenPending(t) == tick[t].pending

\* The stamp on the row now: a push may have come after the claim.
LivePending(t) == MyScan(t).pending

LoadPending(t) ==
    /\ tick[t].pc = "pending"
    /\ tick' = [tick EXCEPT ![t].pc = IF LivePending(t) \in {0, MyScan(t).sha} THEN "finish" ELSE "followup",
                            ![t].pending = LivePending(t)]
    /\ scans' = [scans EXCEPT ![Mine(t)].late = FALSE]
    /\ UNCHANGED <<webhook, recommendations, coverage, faults>>

EnqueueFollowup(t) ==
    /\ tick[t].pc = "followup"
    /\ scans' = WithScan(tick[t].pending)
    /\ Go(t, "finish")
    /\ UNCHANGED <<webhook, recommendations, coverage, faults>>

Finish(t) ==
    /\ tick[t].pc = "finish"
    /\ scans' = [scans EXCEPT ![Mine(t)].state = "succeeded"]
    /\ tick' = [tick EXCEPT ![t] = IdleTick]
    /\ UNCHANGED <<webhook, recommendations, coverage, faults>>

\* A phase throws (another attempt, or the budget is spent), or the tick is killed.
TickFails(t) ==
    /\ tick[t].pc # "idle" /\ faults < MaxFaults
    /\ faults' = faults + 1
    /\ \E state \in {"queued", "failed", "running"} :
          scans' = [scans EXCEPT ![Mine(t)].state = state]
    /\ tick' = [tick EXCEPT ![t] = IdleTick]
    /\ UNCHANGED <<webhook, recommendations, coverage>>

-----------------------------------------------------------------------------
(* Members.                                                                *)

\* The manual retry of a failed scan.
RetryScan(s) ==
    /\ scans[s].state = "failed"
    /\ scans' = [scans EXCEPT ![s].state = "queued"]
    /\ UNCHANGED <<webhook, worker, faults>>

MemberMoves == {<<"active", "dismissed">>, <<"dismissed", "active">>}

\* A member dismisses or restores a recommendation.
SetRecommendationState(g) ==
    /\ \E move \in MemberMoves : recs[g] = move[1] /\ recs' = [recs EXCEPT ![g] = move[2]]
    /\ UNCHANGED <<webhook, scans, tick, merging, coverage, faults>>

-----------------------------------------------------------------------------
(* The merge of a generated pull request, whose recommendation has no      *)
(* other step (markGeneratedPrMerged; module Generation has its steps).    *)

ReadMerged(g) ==
    /\ recs[g] = "active" /\ g \notin merging
    /\ merging' = merging \cup {g}
    /\ UNCHANGED <<webhook, scans, tick, recs, coverage, faults>>

\* Accepted by id alone, whatever a member or a scan made of it since the read.
WriteMerged(g) ==
    /\ g \in merging
    /\ recs' = [recs EXCEPT ![g] = "accepted"]
    /\ merging' = merging \ {g}
    /\ UNCHANGED <<webhook, scans, tick, coverage, faults>>

-----------------------------------------------------------------------------

Init ==
    /\ delivery = [p \in Pushes |-> Unseen]
    /\ handler = [h \in Handlers |-> IdleHandler]
    /\ scans = <<>>
    /\ tick = [t \in Ticks |-> IdleTick]
    /\ recs = [g \in Gaps |-> "none"] /\ merging = {}
    /\ coverage = {}
    /\ sent = 0 /\ faults = 0

Handle(h) ==
    \/ \E p \in Pushes : Receive(h, p)
    \/ Decide(h) \/ Stamp(h) \/ Enqueue(h) \/ Mark(h) \/ HandlerFails(h)

Execute(t) ==
    \/ \E s \in DOMAIN scans : Claim(t, s)
    \/ Enumerate(t) \/ Analyze(t) \/ Rank(t) \/ Upsert(t) \/ List(t) \/ Outdate(t)
    \/ EnqueueCoverage(t) \/ LoadPending(t) \/ EnqueueFollowup(t) \/ Finish(t) \/ TickFails(t)

Next ==
    \/ \E h \in Handlers : Handle(h)
    \/ \E p \in Pushes : Reject(p)
    \/ \E t \in Ticks : Execute(t)
    \/ \E s \in DOMAIN scans : RetryScan(s)
    \/ \E g \in Gaps : SetRecommendationState(g) \/ ReadMerged(g) \/ WriteMerged(g)

Spec == Init /\ [][Next]_vars

-----------------------------------------------------------------------------
(* Properties.                                                             *)

\* A push that is reported processed is not dropped between the webhook and the scans: it
\* has a scan, or was stamped on one while that was in flight, even when the scan ended
\* between the two statements (github-webhook/index.ts:174-176).
ProcessedPushIsKept ==
    \A p \in Primary : delivery[p].status = "processed" =>
        HasScan(p) \/ \E s \in DOMAIN scans : p \in scans[s].stamps

\* The stamp a scan carries when it has succeeded is scanned too, unless it was put there
\* after the scan read it (agent-scan.ts:247-249).
StampIsFollowed ==
    \A s \in DOMAIN scans :
        scans[s].state = "succeeded" /\ scans[s].pending # 0 /\ ~scans[s].late
            => HasScan(scans[s].pending)

\* A recommendation that a member dismissed stays dismissed until a member restores it, or a
\* merge that had read it as active overwrites it: no scan takes the dismissal back, neither
\* one that flags the gap again (scan-store.ts:199-205) nor one that finds it gone and has it
\* on an older list of active recommendations (scan-store.ts:243-244).
DismissalIsRespected ==
    [][\A g \in Gaps : recs[g] = "dismissed" /\ recs'[g] # "dismissed"
            => SetRecommendationState(g) \/ WriteMerged(g)]_vars

-----------------------------------------------------------------------------
(* What makes them inductive.                                              *)

NoCommit == {0}
Codes == {<<>>} \cup {<<code>> : code \in CommitFiles}
Findings == {<<>>} \cup Answers

HandlerState ==
    [pc : {"idle", "decide", "stamp", "enqueue", "mark"}, push : Primary \cup NoCommit, onto : Nat]

ScanState ==
    [sha : Primary, state : {"queued", "running", "succeeded", "failed"},
     pending : Primary \cup NoCommit, code : Codes, flagged : Findings,
     stamps : SUBSET Primary, late : BOOLEAN]

TickState ==
    [pc : {"idle", "enumerate", "analyze", "rank", "upsert", "list", "outdate", "coverage",
           "pending", "followup", "finish"},
     scan : Nat, pending : Primary \cup NoCommit, todo : SUBSET Gaps]

TypeOK ==
    /\ delivery \in [Pushes -> DeliveryRows]
    /\ handler \in [Handlers -> HandlerState]
    /\ scans \in Seq(ScanState)
    /\ tick \in [Ticks -> TickState]
    /\ recs \in [Gaps -> {"none", "active", "outdated", "dismissed", "accepted"}]
    /\ merging \subseteq Gaps
    /\ coverage \subseteq Primary

\* One scan per commit, and one tick per scan.
OneEach ==
    /\ \A s, r \in DOMAIN scans : scans[s].sha = scans[r].sha => s = r
    /\ \A t, u \in Ticks : Mine(t) = Mine(u) /\ Mine(t) # 0 => t = u

\* A commit is scanned, or stamped on a scan.
Kept(p) == HasScan(p) \/ \E s \in DOMAIN scans : p \in scans[s].stamps

DeliveryOK(p) ==
    p \in Primary =>
        /\ delivery[p].status = "processed" => Kept(p)
        /\ delivery[p].status = "ignored" => ~delivery[p].valid

\* A request keeps its push before it reports it processed.
HandlerOK(h) ==
    /\ handler[h].pc # "idle" => handler[h].push \in Primary
    /\ handler[h].pc = "stamp" => handler[h].onto \in DOMAIN scans
    /\ handler[h].pc = "mark" => Kept(handler[h].push)

\* A tick that holds a scan has the results of its earlier phases; one that has read the
\* stamp knows it as it is, or as it was before a late push.
TickOK(t) ==
    IF tick[t].pc = "idle" THEN Mine(t) = 0
    ELSE /\ Mine(t) \in DOMAIN scans /\ MyScan(t).state = "running"
         /\ tick[t].pc # "enumerate" => MyScan(t).code # <<>>
         /\ tick[t].pc \notin {"enumerate", "analyze"} => MyScan(t).flagged # <<>>
         /\ tick[t].pc \in {"followup", "finish"} /\ ~MyScan(t).late
                => tick[t].pending = MyScan(t).pending
         /\ tick[t].pc = "followup" => tick[t].pending \in Primary
         /\ tick[t].pc = "finish" => tick[t].pending = 0 \/ HasScan(tick[t].pending)

ScansInv ==
    /\ TypeOK /\ OneEach
    /\ \A p \in Pushes : DeliveryOK(p)
    /\ \A h \in Handlers : HandlerOK(h)
    /\ \A t \in Ticks : TickOK(t)
    /\ StampIsFollowed
=============================================================================
