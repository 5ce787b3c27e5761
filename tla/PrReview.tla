------------------------------ MODULE PrReview ------------------------------
(***************************************************************************)
(* Review comments on one pull request: the jobs that analyse its          *)
(* revisions, the claim / post / finalize protocol of the compose phase    *)
(* over pr_review_comments and external_write_actions, GitHub's pending    *)
(* review, and the webhook's close and reopen (server/lib/agent-pr.ts,     *)
(* functions/_shared/pr-review-store.ts, github-webhook-store.ts).         *)
(*                                                                         *)
(* One step is one database statement or one provider call.  A finding is  *)
(* the gap it reports (the semantic fingerprint) and the file line it is   *)
(* placed on; its revision fingerprint adds the head the job reviews.      *)
(* Job h reviews head h.                                                   *)
(***************************************************************************)
EXTENDS Integers, Sequences, FiniteSets

CONSTANTS
    Ticks,              \* worker ticks that may run at the same time
    NumHeads,           \* bound: revisions pushed
    Gaps, Lines,
    BadLines,           \* lines GitHub refuses a comment on
    Reports,            \* finding lists a valid model answer may hold
    Exclusive,          \* the engine runs a job in one tick at a time
    MaxAttempts,        \* attempt budget of a job
    MaxFailures,        \* bound: crashes and failed statements
    MaxLostReads,       \* bound: reads that fail and whose error is ignored
    MaxProviderFaults,  \* bound: GitHub calls that fail or go unanswered
    MaxCloses           \* bound: times the pull request is closed

Finding == [gap : Gaps, line : Lines]

ASSUME PrReviewAssumption ==
    /\ NumHeads \in Nat \ {0} /\ MaxAttempts \in Nat \ {0}
    /\ BadLines \subseteq Lines /\ Reports \subseteq Seq(Finding)
    /\ Exclusive \in BOOLEAN
    /\ MaxFailures \in Nat /\ MaxLostReads \in Nat
    /\ MaxProviderFaults \in Nat /\ MaxCloses \in Nat

VARIABLES
    jobs,           \* the github_pr_review_analysis jobs, one per head
    rows,           \* pr_review_comments, in the order of insertion
    writes,         \* external_write_actions, one per revision fingerprint
    recommendation, \* state of the pull request's recommendation
    published,      \* GitHub: comments anyone can see
    pending,        \* GitHub: the reviewer's one pending review
    added,          \* GitHub: comments added to a pending review so far
    tick,           \* local state of each tick's compose
    pull,           \* GitHub: the pull request and its newest head
    hook,           \* what is left of the lifecycle delivery being handled
    failures, lostReads, providerFaults, closes

reviewTables == <<rows, writes, recommendation>>
provider == <<published, pending, added>>
bounds == <<failures, lostReads, providerFaults, closes>>
reviewVars == <<jobs, reviewTables, provider, tick, pull, hook, bounds>>

Heads == 1 .. NumHeads
Revision == [gap : Gaps, head : Heads, line : Lines]

JobState == {"absent", "queued", "fetched", "superseded", "analyzed", "done", "failed"}
WriteState == {"absent", "planned", "succeeded", "failed", "skipped_duplicate"}

NoOne == "none"
NoComment == 0
NoReview == [open |-> FALSE, comments |-> {}]
EmptyReview == [open |-> TRUE, comments |-> {}]

TickAt(pc, head, next) ==
    [pc |-> pc, head |-> head, next |-> next, row |-> 0, resumed |-> FALSE,
     comment |-> NoComment, retryable |-> FALSE]

Idle == TickAt("idle", 0, 0)

\* loadFindings: what analyze saved, when it was valid.
LoadFindings(h) == jobs[h].findings

Mine(t) == LoadFindings(tick[t].head)[tick[t].next]

Rev(t) == [gap |-> Mine(t).gap, head |-> tick[t].head, line |-> Mine(t).line]

Goto(t, pc) == tick' = [tick EXCEPT ![t].pc = pc]

AfterFinding(t) == TickAt("claim", tick[t].head, tick[t].next + 1)

NextFinding(t) == tick' = [tick EXCEPT ![t] = AfterFinding(t)]

-----------------------------------------------------------------------------
(* The job around compose.                                                 *)

\* The webhook of a push (or of opening the pull request) enqueues one job per head.
Push ==
    /\ pull.open /\ pull.head < NumHeads
    /\ pull' = [pull EXCEPT !.head = @ + 1]
    /\ jobs' = [jobs EXCEPT ![pull.head + 1].state = "queued"]
    /\ UNCHANGED <<reviewTables, provider, tick, hook, bounds>>

\* The live head that readDiff makes out in the pull request's metadata, or none.
NoHead == 0
LiveHeads == {pull.head, NoHead}

\* The pull request has moved past the job's head.  An unreadable head counts as unmoved.
Superseded(h, live) == live # NoHead /\ live # h

\* hasDiff, saveDiff: the diff is stored once, with the verdict on the head.
SaveDiff(h, superseded) ==
    jobs' = [jobs EXCEPT ![h].state = IF superseded THEN "superseded" ELSE "fetched"]

FetchDiff(h) ==
    /\ jobs[h].state = "queued"
    /\ \E live \in LiveHeads : SaveDiff(h, Superseded(h, live))
    /\ UNCHANGED <<reviewTables, provider, tick, pull, hook, bounds>>

\* A superseded job asks no model, and an answer that fails its schema has no findings.
AnalysisResults(h) == {<<>>} \cup (IF jobs[h].state = "fetched" THEN Reports ELSE {})

\* saveFindings: kept once, for every later run of compose.
SaveFindings(h, report) ==
    jobs' = [jobs EXCEPT ![h] = [@ EXCEPT !.state = "analyzed", !.findings = report]]

Analyze(h) ==
    /\ jobs[h].state \in {"fetched", "superseded"}
    /\ \E report \in AnalysisResults(h) : SaveFindings(h, report)
    /\ UNCHANGED <<reviewTables, provider, tick, pull, hook, bounds>>

\* A claimed job enters compose, which does nothing without findings.
StartCompose(t, h) ==
    /\ tick[t].pc = "idle" /\ jobs[h].state = "analyzed"
    /\ Exclusive => \A u \in Ticks : tick[u].head # h
    /\ jobs[h].attempt < MaxAttempts + MaxFailures
    /\ jobs' = [jobs EXCEPT ![h].owner = t, ![h].attempt = @ + 1]
    /\ tick' = [tick EXCEPT ![t] =
          TickAt(IF LoadFindings(h) = <<>> THEN "claim" ELSE "recommend", h, 1)]
    /\ UNCHANGED <<reviewTables, provider, pull, hook, bounds>>

\* The owner-guarded write that ends the phase; a tick without the lease just leaves.
Settle(t, state) ==
    /\ jobs' = [jobs EXCEPT ![tick[t].head] =
          IF @.owner = t THEN [@ EXCEPT !.state = state, !.owner = NoOne] ELSE @]
    /\ tick' = [tick EXCEPT ![t] = Idle]

Finish(t) ==
    /\ tick[t].pc = "claim" /\ tick[t].next > Len(LoadFindings(tick[t].head))
    /\ Settle(t, "done")
    /\ UNCHANGED <<reviewTables, provider, pull, hook, bounds>>

\* A retryable error leaves compose: the job is retried while its budget lasts.
Throw(t) ==
    Settle(t, IF jobs[tick[t].head].attempt < MaxAttempts THEN "analyzed" ELSE "failed")

-----------------------------------------------------------------------------
(* compose: the recommendation, then one finding after the other.          *)

\* upsertRecommendation finds the row or inserts it, and makes it active either way.
UpsertRecommendation(t) ==
    /\ tick[t].pc = "recommend"
    /\ recommendation' = "active"
    /\ Goto(t, "claim")
    /\ UNCHANGED <<jobs, rows, writes, provider, pull, hook, bounds>>

SameRevision(rev) == {i \in DOMAIN rows : rows[i].rev = rev}

PostedRows(gap) == {i \in DOMAIN rows : rows[i].rev.gap = gap /\ rows[i].status = "posted"}

\* The unique constraint on the revision and the partial one on the posted gap.
Conflicts(rev) == SameRevision(rev) # {} \/ PostedRows(rev.gap) # {}

LastRow == Len(rows)

\* The id the insert returns.
NewRow == Len(rows) + 1

\* claimPostedComment, the insert.
Claim(t) ==
    /\ tick[t].pc = "claim" /\ tick[t].next <= Len(LoadFindings(tick[t].head))
    /\ ~Conflicts(Rev(t))
    /\ rows' = Append(rows, [rev |-> Rev(t), status |-> "posted", comment |-> NoComment])
    /\ tick' = [tick EXCEPT ![t].pc = "lookup", ![t].row = NewRow]
    /\ UNCHANGED <<jobs, writes, recommendation, provider, pull, hook, bounds>>

ClaimConflicts(t) ==
    /\ tick[t].pc = "claim" /\ tick[t].next <= Len(LoadFindings(tick[t].head))
    /\ Conflicts(Rev(t))
    /\ Goto(t, "sameRevision")
    /\ UNCHANGED <<jobs, reviewTables, provider, pull, hook, bounds>>

IsAnyClaim(row) == TRUE

\* A claim whose comment is known needs nothing more.
IsFinalized(row) == row.comment # NoComment

\* The select of the row with our own revision, whatever its status.
FindSameRevision(t) ==
    /\ tick[t].pc = "sameRevision"
    /\ \/ \E i \in SameRevision(Rev(t)) :
             IF IsFinalized(rows[i]) THEN NextFinding(t)
             ELSE tick' = [tick EXCEPT ![t].pc = "lookup", ![t].row = i, ![t].resumed = TRUE]
       \/ SameRevision(Rev(t)) = {} /\ Goto(t, "posted")
    /\ UNCHANGED <<jobs, reviewTables, provider, pull, hook, bounds>>

\* The select of another posted row for the gap: "exists", or else "lost".
FindPosted(t) ==
    /\ tick[t].pc = "posted"
    /\ \/ \E i \in PostedRows(Mine(t).gap) :
             tick' = [tick EXCEPT ![t].pc = "refresh", ![t].row = i]
       \/ PostedRows(Mine(t).gap) = {} /\ Goto(t, "skip")
    /\ UNCHANGED <<jobs, reviewTables, provider, pull, hook, bounds>>

\* Both selects ignore their error: a failed one looks like no row.
SelectUnanswered(t) ==
    /\ tick[t].pc \in {"sameRevision", "posted"} /\ lostReads < MaxLostReads
    /\ Goto(t, IF tick[t].pc = "posted" THEN "skip" ELSE "posted")
    /\ lostReads' = lostReads + 1
    /\ UNCHANGED <<jobs, reviewTables, provider, pull, hook, failures, providerFaults, closes>>

\* refreshCommentPlacement by id; the revision it sets may be taken by now.
RefreshPlacement(t) ==
    /\ tick[t].pc = "refresh"
    /\ IF SameRevision(Rev(t)) \subseteq {tick[t].row}
       THEN /\ rows' = [rows EXCEPT ![tick[t].row].rev = Rev(t)]
            /\ Goto(t, "skip")
            /\ UNCHANGED jobs
       ELSE Throw(t) /\ UNCHANGED rows
    /\ UNCHANGED <<writes, recommendation, provider, pull, hook, bounds>>

\* insertExternalWrite returns the existing row when the key is taken.
Inserted(rev, state) ==
    [writes EXCEPT ![rev] =
        IF @.state = "absent" THEN [state |-> state, comment |-> NoComment] ELSE @]

RecordSkippedWrite(t) ==
    /\ tick[t].pc = "skip"
    /\ writes' = Inserted(Rev(t), "skipped_duplicate")
    /\ NextFinding(t)
    /\ UNCHANGED <<jobs, rows, recommendation, provider, pull, hook, bounds>>

-----------------------------------------------------------------------------
(* postAndFinalize.                                                        *)

NeverReconciles(t, prior) == FALSE

\* Only a prior attempt can have posted already.
Reconciles(t, prior) == tick[t].resumed \/ prior.state # "absent"

\* findExternalWrite: a write that succeeded is reused.
FindExternalWrite(t) ==
    LET prior == writes[Rev(t)]
    IN  /\ tick[t].pc = "lookup"
        /\ IF prior.state = "succeeded"
           THEN tick' = [tick EXCEPT ![t].pc = "finalize", ![t].comment = prior.comment]
           ELSE Goto(t, IF Reconciles(t, prior) THEN "reconcile" ELSE "plan")
        /\ UNCHANGED <<jobs, reviewTables, provider, pull, hook, bounds>>

MarkedAnywhere(finding) == published

\* findMarkerComment: Instrument's marker on the finding's file and line.
MarkerComments(finding) == {c \in published : c.line = finding.line}

FindExistingComment(t) ==
    /\ tick[t].pc = "reconcile"
    /\ \/ \E c \in MarkerComments(Mine(t)) :
             tick' = [tick EXCEPT ![t].pc = "plan", ![t].comment = c.id]
       \/ MarkerComments(Mine(t)) = {} /\ Goto(t, "plan")
    /\ UNCHANGED <<jobs, reviewTables, provider, pull, hook, bounds>>

\* The reconciling read is best effort: one that reports an error finds nothing.
FindExistingRefused(t) ==
    /\ tick[t].pc = "reconcile" /\ lostReads < MaxLostReads
    /\ Goto(t, "plan")
    /\ lostReads' = lostReads + 1
    /\ UNCHANGED <<jobs, reviewTables, provider, pull, hook, failures, providerFaults, closes>>

\* One that goes unanswered throws, and the claim stays as it is.
FindExistingThrows(t) ==
    /\ tick[t].pc = "reconcile" /\ providerFaults < MaxProviderFaults
    /\ Throw(t)
    /\ providerFaults' = providerFaults + 1
    /\ UNCHANGED <<reviewTables, provider, pull, hook, failures, lostReads, closes>>

InsertExternalWrite(t) ==
    /\ tick[t].pc = "plan"
    /\ writes' = Inserted(Rev(t), "planned")
    /\ Goto(t, IF tick[t].comment = NoComment THEN "create" ELSE "succeed")
    /\ UNCHANGED <<jobs, rows, recommendation, provider, pull, hook, bounds>>

MarkFailed(t) ==
    /\ tick[t].pc = "fail"
    /\ writes' = [writes EXCEPT ![Rev(t)].state = "failed"]
    /\ Goto(t, "release")
    /\ UNCHANGED <<jobs, rows, recommendation, provider, pull, hook, bounds>>

\* outdateComment, then on to the next finding or out with the error.
OutdateComment(t) ==
    /\ tick[t].pc = "release"
    /\ rows' = [rows EXCEPT ![tick[t].row].status = "outdated"]
    /\ IF tick[t].retryable THEN Throw(t) ELSE NextFinding(t) /\ UNCHANGED jobs
    /\ UNCHANGED <<writes, recommendation, provider, pull, hook, bounds>>

MarkSucceeded(t) ==
    /\ tick[t].pc = "succeed"
    /\ writes' = [writes EXCEPT ![Rev(t)] = [state |-> "succeeded", comment |-> tick[t].comment]]
    /\ Goto(t, "finalize")
    /\ UNCHANGED <<jobs, rows, recommendation, provider, pull, hook, bounds>>

\* finalizeComment sets the comment's id and leaves the status alone.
FinalizeComment(t) ==
    /\ tick[t].pc = "finalize"
    /\ rows' = [rows EXCEPT ![tick[t].row].comment = tick[t].comment]
    /\ NextFinding(t)
    /\ UNCHANGED <<jobs, writes, recommendation, provider, pull, hook, bounds>>

-----------------------------------------------------------------------------
(* postReviewComment: four calls on the one pending review that GitHub     *)
(* keeps per reviewer and pull request, a service seen through its calls.  *)

Fails(t, retryable) == tick' = [tick EXCEPT ![t].pc = "fail", ![t].retryable = retryable]

AddsTo(t) == pending.open /\ Mine(t).line \notin BadLines

WithComment(t) == pending.comments \cup
    {[id |-> added + 1, gap |-> Mine(t).gap, line |-> Mine(t).line]}

\* What GitHub does with a call, answered or not.
Applied(t) ==
    \/ /\ tick[t].pc \in {"create", "recreate"} /\ ~pending.open
       /\ pending' = EmptyReview
       /\ UNCHANGED <<published, added>>
    \/ /\ tick[t].pc = "add" /\ AddsTo(t)
       /\ pending' = [pending EXCEPT !.comments = WithComment(t)]
       /\ added' = added + 1
       /\ UNCHANGED published
    \/ /\ tick[t].pc = "submit" /\ pending.open
       /\ published' = published \cup pending.comments
       /\ pending' = NoReview
       /\ UNCHANGED added

CreateReview(t) ==
    /\ tick[t].pc \in {"create", "recreate"}
    /\ IF ~pending.open THEN Goto(t, "add") /\ Applied(t)
       ELSE /\ IF tick[t].pc = "create" THEN Goto(t, "clear") ELSE Fails(t, TRUE)
            /\ UNCHANGED provider
    /\ UNCHANGED <<jobs, reviewTables, pull, hook, bounds>>

\* delete_pending before the second create, or after a refused comment; its own
\* failure is ignored.
DeletePending(t) ==
    /\ tick[t].pc \in {"clear", "undo"}
    /\ \/ pending' = NoReview /\ UNCHANGED providerFaults
       \/ /\ providerFaults < MaxProviderFaults
          /\ providerFaults' = providerFaults + 1 /\ UNCHANGED pending
    /\ IF tick[t].pc = "clear" THEN Goto(t, "recreate") ELSE Fails(t, FALSE)
    /\ UNCHANGED <<jobs, reviewTables, published, added, pull, hook, failures, lostReads, closes>>

\* add_comment_to_pending_review: GitHub refuses a line outside the diff, and a
\* comment without a pending review.
AddComment(t) ==
    /\ tick[t].pc = "add"
    /\ IF AddsTo(t)
       THEN /\ Applied(t)
            /\ tick' = [tick EXCEPT ![t].pc = "submit", ![t].comment = added + 1]
       ELSE Goto(t, "undo") /\ UNCHANGED provider
    /\ UNCHANGED <<jobs, reviewTables, pull, hook, bounds>>

SubmitReview(t) ==
    /\ tick[t].pc = "submit"
    /\ IF pending.open THEN Goto(t, "succeed") /\ Applied(t)
       ELSE Fails(t, TRUE) /\ UNCHANGED provider
    /\ UNCHANGED <<jobs, reviewTables, pull, hook, bounds>>

\* A call that fails or goes unanswered throws, whether or not GitHub applied it:
\* timeouts and server errors are retryable, other refusals are not.
CallFails(t) ==
    /\ tick[t].pc \in {"create", "recreate", "add", "submit"}
    /\ providerFaults < MaxProviderFaults
    /\ providerFaults' = providerFaults + 1
    /\ \/ UNCHANGED provider /\ \E retryable \in BOOLEAN : Fails(t, retryable)
       \/ Fails(t, TRUE) /\ Applied(t)
    /\ UNCHANGED <<jobs, reviewTables, pull, hook, failures, lostReads, closes>>

-----------------------------------------------------------------------------
(* Faults, and the pull request's lifecycle.                               *)

\* The function is killed and the engine reclaims the job when its lease is over.
Crash(t) ==
    /\ tick[t].pc # "idle" /\ failures < MaxFailures
    /\ failures' = failures + 1
    /\ tick' = [tick EXCEPT ![t] = Idle]
    /\ UNCHANGED <<jobs, reviewTables, provider, pull, hook, lostReads, providerFaults, closes>>

\* A statement fails and its retryable error leaves compose.
StatementFails(t) ==
    /\ tick[t].pc \in {"recommend", "claim", "refresh", "skip", "lookup", "plan", "fail",
                       "release", "succeed", "finalize"}
    /\ failures < MaxFailures
    /\ failures' = failures + 1
    /\ Throw(t)
    /\ UNCHANGED <<reviewTables, provider, pull, hook, lostReads, providerFaults, closes>>

\* Someone closes the pull request (or merges it, or reopens it); GitHub delivers
\* that to the webhook.
ClosePr ==
    /\ pull.open /\ pull.head > 0 /\ hook = "none" /\ closes < MaxCloses
    /\ pull' = [pull EXCEPT !.open = FALSE]
    /\ hook' = "comments"
    /\ closes' = closes + 1
    /\ UNCHANGED <<jobs, reviewTables, provider, tick, failures, lostReads, providerFaults>>

ReopenPr ==
    /\ ~pull.open /\ hook = "none"
    /\ pull' = [pull EXCEPT !.open = TRUE]
    /\ hook' = "reactivate"
    /\ UNCHANGED <<jobs, reviewTables, provider, tick, bounds>>

\* outdatePrReviewRecommendation, first its comments ...
OutdateComments ==
    /\ hook = "comments"
    /\ rows' = [i \in DOMAIN rows |-> [rows[i] EXCEPT !.status = "outdated"]]
    /\ hook' = "recommendation"
    /\ UNCHANGED <<jobs, writes, recommendation, provider, tick, pull, bounds>>

\* ... then the recommendation, if there is one.  Compose only ever activates it, so
\* the select and the update it guards act as one step.
OutdateRecommendation ==
    /\ hook = "recommendation"
    /\ recommendation' = IF recommendation = "absent" THEN "absent" ELSE "outdated"
    /\ hook' = "none"
    /\ UNCHANGED <<jobs, rows, writes, provider, tick, pull, bounds>>

ReactivateRecommendation ==
    /\ hook = "reactivate"
    /\ recommendation' = IF recommendation = "outdated" THEN "active" ELSE recommendation
    /\ hook' = "none"
    /\ UNCHANGED <<jobs, rows, writes, provider, tick, pull, bounds>>

-----------------------------------------------------------------------------
ReviewInit ==
    /\ jobs = [h \in Heads |->
          [state |-> "absent", owner |-> NoOne, attempt |-> 0, findings |-> <<>>]]
    /\ rows = <<>>
    /\ writes = [rev \in Revision |-> [state |-> "absent", comment |-> NoComment]]
    /\ recommendation = "absent"
    /\ published = {} /\ pending = NoReview /\ added = 0
    /\ tick = [t \in Ticks |-> Idle]
    /\ pull = [open |-> TRUE, head |-> 0]
    /\ hook = "none"
    /\ failures = 0 /\ lostReads = 0 /\ providerFaults = 0 /\ closes = 0

ComposeStep(t) ==
    \/ \E h \in Heads : StartCompose(t, h)
    \/ UpsertRecommendation(t) \/ Claim(t) \/ ClaimConflicts(t)
    \/ FindSameRevision(t) \/ FindPosted(t) \/ RefreshPlacement(t) \/ RecordSkippedWrite(t)
    \/ FindExternalWrite(t) \/ FindExistingComment(t) \/ InsertExternalWrite(t)
    \/ CreateReview(t) \/ DeletePending(t) \/ AddComment(t) \/ SubmitReview(t)
    \/ MarkFailed(t) \/ OutdateComment(t) \/ MarkSucceeded(t) \/ FinalizeComment(t)
    \/ Finish(t)

ComposeFault(t) ==
    \/ SelectUnanswered(t) \/ FindExistingRefused(t) \/ FindExistingThrows(t) \/ CallFails(t)
    \/ StatementFails(t) \/ Crash(t)

Lifecycle ==
    \/ Push \/ ClosePr \/ ReopenPr
    \/ OutdateComments \/ OutdateRecommendation \/ ReactivateRecommendation

ReviewNext ==
    \/ \E t \in Ticks : ComposeStep(t) \/ ComposeFault(t)
    \/ \E h \in Heads : FetchDiff(h) \/ Analyze(h)
    \/ Lifecycle

ReviewSpec == ReviewInit /\ [][ReviewNext]_reviewVars

-----------------------------------------------------------------------------
(* Properties.                                                             *)

PC == {"idle", "recommend", "claim", "sameRevision", "posted", "refresh", "skip", "lookup",
       "reconcile", "plan", "create", "clear", "recreate", "add", "undo", "submit",
       "fail", "release", "succeed", "finalize"}

Comment == [id : Nat, gap : Gaps, line : Lines]

\* Between two findings, and while the row of the current one is not known yet.
Unbound == {"idle", "recommend", "claim"}
Unclaimed == Unbound \cup {"sameRevision", "posted", "skip"}

TickOK(t) ==
    /\ tick[t].pc \notin Unbound => tick[t].next \in DOMAIN jobs[tick[t].head].findings
    /\ tick[t].pc \notin Unclaimed =>
          tick[t].row \in DOMAIN rows /\ rows[tick[t].row].rev.gap = Mine(t).gap

\* Every table, GitHub and every tick hold values of their kind, and a tick works on
\* a finding that exists and on a row of its gap.
ReviewTypeOK ==
    /\ jobs \in [Heads -> [state : JobState, owner : Ticks \cup {NoOne}, attempt : Nat,
                           findings : {<<>>} \cup Reports]]
    /\ rows \in Seq([rev : Revision, status : {"posted", "outdated"}, comment : Nat])
    /\ writes \in [Revision -> [state : WriteState, comment : Nat]]
    /\ recommendation \in {"absent", "active", "outdated"}
    /\ published \subseteq Comment /\ added \in Nat
    /\ pending \in [open : BOOLEAN, comments : SUBSET Comment]
    /\ tick \in [Ticks -> [pc : PC, head : Heads \cup {0}, next : Nat, row : Nat,
                           resumed : BOOLEAN, comment : Nat, retryable : BOOLEAN]]
    /\ \A t \in Ticks : TickOK(t)
    /\ pull \in [open : BOOLEAN, head : 0 .. NumHeads]
    /\ hook \in {"none", "comments", "recommendation", "reactivate"}
    /\ failures \in Nat /\ lostReads \in Nat /\ providerFaults \in Nat /\ closes \in Nat

\* agent-pr.ts:15-17, :364: the same gap is never commented on twice.
AtMostOneComment ==
    \A c, d \in published : c.gap = d.gap => c = d

\* The audit row and the comment row that say a finding was posted name a comment
\* that is on the pull request and is about that gap (agent-pr.ts:433-434).
IsPublished(id, gap) == \E c \in published : c.id = id /\ c.gap = gap

AuditIsTrue ==
    /\ \A rev \in Revision :
          writes[rev].state = "succeeded" => IsPublished(writes[rev].comment, rev.gap)
    /\ \A i \in DOMAIN rows :
          IsFinalized(rows[i]) => IsPublished(rows[i].comment, rows[i].rev.gap)

Settled == \A h \in Heads : jobs[h].state \in {"absent", "done", "failed"}

Answered(h, f) ==
    \/ \E c \in published : c.gap = f.gap
    \/ writes[[gap |-> f.gap, head |-> h, line |-> f.line]].state = "failed"

\* Once every job has settled, each finding of a job that succeeded has a comment on
\* its gap, or an audit row that says GitHub refused it (agent-pr.ts:363, :383-388).
EveryFindingAnswered ==
    Settled => \A h \in Heads : jobs[h].state = "done" =>
        \A n \in DOMAIN jobs[h].findings : Answered(h, jobs[h].findings[n])

-----------------------------------------------------------------------------
(* What makes them inductive.                                              *)

\* A head that was not pushed has no job, and a job that is worked on has its findings.
WorkOK ==
    /\ \A h \in Heads : h > pull.head => jobs[h].state = "absent"
    /\ \A t \in Ticks : tick[t].pc # "idle" =>
          /\ tick[t].head \in Heads /\ tick[t].next # 0
          /\ jobs[tick[t].head].state \in {"analyzed", "done", "failed"}

ReviewInv == ReviewTypeOK /\ WorkOK

\* What a model may report at all; a line tells which gap a comment is about.
Reported == UNION {{r[n] : n \in DOMAIN r} : r \in Reports}
LinesTell == \A f, g \in Reported : f.line = g.line => f.gap = g.gap

\* One tick at a time works on the pull request.
OneAtATime == (\A t, u \in Ticks : t = u) \/ (NumHeads = 1 /\ Exclusive)
OneAtWork == \A t, u \in Ticks : tick[t].pc # "idle" /\ tick[u].pc # "idle" => t = u

\* Before a tick has looked for a comment it knows of none.
Unposted == {"recommend", "claim", "sameRevision", "posted", "refresh", "skip", "lookup", "reconcile",
             "create", "clear", "recreate", "add", "undo"}

\* A tick that is about to record a comment has published it, or is about to.
CommentOK(t) ==
    /\ tick[t].pc \in Unposted => tick[t].comment = NoComment
    /\ tick[t].pc = "submit" =>
          \E c \in pending.comments : c.id = tick[t].comment /\ c.gap = Mine(t).gap
    /\ tick[t].pc \in {"succeed", "finalize"} \/ (tick[t].pc = "plan" /\ tick[t].comment # NoComment)
          => IsPublished(tick[t].comment, Mine(t).gap)

\* GitHub shows and holds only what some model reported.
OnlyReported ==
    \A c \in published \cup pending.comments : [gap |-> c.gap, line |-> c.line] \in Reported

AuditInv ==
    /\ ReviewInv /\ OneAtWork /\ OnlyReported
    /\ \A t \in Ticks : CommentOK(t)
    /\ AuditIsTrue

\* One revision is reviewed, each gap is reported once, and no read is lost.
OneRevision ==
    /\ NumHeads = 1 /\ Exclusive /\ MaxLostReads = 0
    /\ \A r \in Reports : \A m, n \in DOMAIN r : r[m].gap = r[n].gap => m = n

RevisionOf(f) == [gap |-> f.gap, head |-> 1, line |-> f.line]

\* Nobody can see a comment on the gap.
Uncommented(gap) == \A c \in published : c.gap # gap

\* Each claim is of a finding that is saved, and each comment is on a claimed one.
ClaimsOK ==
    /\ jobs[1].state \notin {"analyzed", "done", "failed"} => jobs[1].findings = <<>>
    /\ \A i \in DOMAIN rows : \E n \in DOMAIN jobs[1].findings : rows[i].rev = RevisionOf(jobs[1].findings[n])
    /\ \A c \in published \cup pending.comments :
          c.id # NoComment /\ \E i \in DOMAIN rows : rows[i].rev = RevisionOf(c)

\* A tick posts what is claimed by it and not to be seen, and leaves answers behind.
PostOK(t) ==
    /\ tick[t].pc \notin {"posted", "refresh", "skip"}
    /\ tick[t].pc \notin Unclaimed => rows[tick[t].row].rev = Rev(t)
    /\ tick[t].pc = "sameRevision" => SameRevision(Rev(t)) # {}
    /\ \/ tick[t].pc = "lookup" /\ ~ tick[t].resumed
       \/ tick[t].pc = "plan" /\ tick[t].comment = NoComment
       \/ tick[t].pc \in {"create", "clear", "recreate", "add", "undo", "submit"}
       => Uncommented(Mine(t).gap)
    /\ tick[t].pc = "add" => pending = EmptyReview
    /\ tick[t].pc = "submit" => \A c, d \in pending.comments : c = d
    /\ tick[t].pc = "release" => writes[Rev(t)].state = "failed"
    /\ tick[t].pc # "idle" =>
          \A n \in 1 .. tick[t].next - 1 : Answered(1, jobs[1].findings[n])

\* The job that is done has an answer to each finding.
DoneOK ==
    jobs[1].state = "done" => \A n \in DOMAIN jobs[1].findings : Answered(1, jobs[1].findings[n])

PostInv ==
    /\ AuditInv /\ ClaimsOK /\ AtMostOneComment /\ DoneOK
    /\ \A t \in Ticks : PostOK(t)
=============================================================================
