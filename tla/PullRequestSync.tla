-------------------------- MODULE PullRequestSync --------------------------
(***************************************************************************)
(* GitHub's deliveries about one pull request of an allowlisted repository *)
(* (functions/github-webhook/index.ts, lib/github-webhook.ts,              *)
(* functions/_shared/github-webhook-store.ts): the row of the pull request,*)
(* the review job of each head, and the review recommendation with its     *)
(* comments that closing archives and reopening restores.                  *)
(*                                                                         *)
(* GitHub delivers late, in any order, and again on request.  The review   *)
(* is reduced to what it leaves (module PrReview), and a merge also        *)
(* completes generated steps (module Generation).                          *)
(***************************************************************************)
EXTENDS Naturals, Sequences, FiniteSets, GithubDelivery

CONSTANTS
    Handlers,       \* webhook requests served at once
    MaxEvents,      \* things that happen to the pull request
    MaxSends,       \* deliveries and redeliveries
    MaxFaults       \* failures and kills

ASSUME SyncAssumption == MaxEvents \in Nat /\ MaxSends \in Nat /\ MaxFaults \in Nat

VARIABLES
    pr,             \* GitHub: the pull request
    events,         \* GitHub: what happened to it, a delivery each
    scope,          \* the workspace and the repository have reviews enabled
    delivery,       \* the delivery log
    handler,        \* local state of each request
    row,            \* the github_pull_requests row: none, or state and head
    reviews,        \* heads with a github_pr_review_analysis job
    rec,            \* state of the review recommendation
    comments,       \* states of the pr_review_comments, in the order of posting
    answered,       \* deliveries that were answered as handled
    unscoped,       \* deliveries handled while reviews were not enabled
    sent, faults

github == <<pr, events>>
tables == <<row, reviews, rec, comments>>
history == <<answered, unscoped>>
vars == <<github, scope, delivery, handler, tables, history, sent, faults>>

Deliveries == 1 .. MaxEvents
AnalysisActions == {"opened", "reopened", "synchronize", "ready_for_review"}

IdleHandler == [pc |-> "idle", event |-> 0, scope |-> FALSE]

Event(h) == events[handler[h].event]
At(h, pc) == handler[h].pc = pc
Go(h, pc) == handler' = [handler EXCEPT ![h].pc = pc]

Posted == {n \in DOMAIN comments : comments[n] = "posted"}

-----------------------------------------------------------------------------
(* GitHub, the reviewer and the members.                                   *)

\* What happens to the pull request is delivered with a snapshot of it; posted are the
\* comments there were.
Happens(action, state, head) ==
    /\ Len(events) < MaxEvents
    /\ pr' = [state |-> state, head |-> head]
    /\ events' = Append(events, [action |-> action, state |-> state, head |-> head, posted |-> Posted])
    /\ UNCHANGED <<scope, delivery, handler, tables, history, sent, faults>>

Opened == events = <<>> /\ Happens("opened", "open", 1)

OpenNow == events # <<>> /\ pr.state = "open"

Synchronize == OpenNow /\ Happens("synchronize", "open", pr.head + 1)

Closed == OpenNow /\ \E state \in {"closed", "merged"} : Happens("closed", state, pr.head)

\* A merged pull request cannot be reopened.
Reopened == events # <<>> /\ pr.state = "closed" /\ Happens("reopened", "open", pr.head)

\* Drafts, titles and labels.
Edited == OpenNow /\ \E action \in {"ready_for_review", "edited"} : Happens(action, "open", pr.head)

\* A review job makes the recommendation active and posts on a gap without posted comment.
Review ==
    /\ reviews # {} /\ Posted = {} /\ Len(comments) < MaxEvents
    /\ rec' = "active"
    /\ comments' = Append(comments, "posted")
    /\ UNCHANGED <<github, scope, delivery, handler, row, reviews, history, sent, faults>>

\* setRecommendationState.
DismissOrRestore ==
    /\ \/ rec = "active" /\ rec' = "dismissed"
       \/ rec = "dismissed" /\ rec' = "active"
    /\ UNCHANGED <<github, scope, delivery, handler, row, reviews, comments, history, sent, faults>>

SetScope ==
    /\ scope' = ~scope
    /\ UNCHANGED <<github, delivery, handler, tables, history, sent, faults>>

-----------------------------------------------------------------------------
(* The webhook.                                                            *)

\* A delivery arrives, for the first time or again: the flags of the repository are read
\* and the delivery recorded.  A terminal one is answered as handled.
Receive(h, e) ==
    /\ At(h, "idle") /\ sent < MaxSends
    /\ sent' = sent + 1
    /\ delivery' = [delivery EXCEPT ![e] = Recorded(@, "received", TRUE)]
    /\ IF IsTerminal(delivery[e])
       THEN answered' = answered \cup {e} /\ UNCHANGED <<handler, unscoped>>
       ELSE /\ handler' = [handler EXCEPT ![h] = [pc |-> "select", event |-> e, scope |-> scope]]
            /\ unscoped' = IF scope THEN unscoped ELSE unscoped \cup {e}
            /\ UNCHANGED answered
    /\ UNCHANGED <<github, scope, tables, faults>>

\* Without the right secret the delivery is recorded as rejected, and not handled.
Reject(e) ==
    /\ sent < MaxSends /\ faults < MaxFaults
    /\ sent' = sent + 1 /\ faults' = faults + 1
    /\ delivery' = [delivery EXCEPT ![e] = Recorded(@, "ignored", FALSE)]
    /\ UNCHANGED <<github, scope, handler, tables, history>>

\* upsertPullRequest: the row is looked for ...
SelectRow(h) ==
    /\ At(h, "select")
    /\ Go(h, IF row = <<>> THEN "insert" ELSE "update")
    /\ UNCHANGED <<github, scope, delivery, tables, history, sent, faults>>

Snapshot(h) == <<[state |-> Event(h).state, head |-> Event(h).head]>>

\* ... and inserted, unless another request did so meanwhile ...
InsertRow(h) ==
    /\ At(h, "insert")
    /\ IF row = <<>> THEN row' = Snapshot(h) /\ Go(h, "enqueue")
       ELSE Go(h, "update") /\ UNCHANGED row
    /\ UNCHANGED <<github, scope, delivery, reviews, rec, comments, history, sent, faults>>

\* ... or overwritten, whatever it says.
UpdateRow(h) ==
    /\ At(h, "update")
    /\ row' = Snapshot(h)
    /\ Go(h, "enqueue")
    /\ UNCHANGED <<github, scope, delivery, reviews, rec, comments, history, sent, faults>>

\* (Mutant) The comments after the recommendation.
ThenArchiveFirst(h, pc) ==
    CASE pc = "enqueue" /\ Event(h).action \in {"closed", "reopened"} -> "find"
      [] pc = "archive" /\ Event(h).action = "closed"                -> "clear"
      [] OTHER                                                       -> "mark"

\* A closure clears the comments, and then archives the recommendation.
Then(h, pc) ==
    CASE pc = "enqueue" /\ Event(h).action = "closed"   -> "clear"
      [] pc = "enqueue" /\ Event(h).action = "reopened" -> "find"
      [] pc = "clear"                                   -> "find"
      [] OTHER                                          -> "mark"

\* One review job per head, behind its unique key, while both scopes are enabled.
Enqueue(h) ==
    /\ At(h, "enqueue")
    /\ reviews' = IF Event(h).action \in AnalysisActions /\ handler[h].scope
                  THEN reviews \cup {Event(h).head} ELSE reviews
    /\ Go(h, Then(h, "enqueue"))
    /\ UNCHANGED <<github, scope, delivery, row, rec, comments, history, sent, faults>>

\* outdatePrReviewRecommendation: the posted comments first, and always.
ClearComments(h) ==
    /\ At(h, "clear")
    /\ comments' = [n \in DOMAIN comments |-> "outdated"]
    /\ Go(h, Then(h, "clear"))
    /\ UNCHANGED <<github, scope, delivery, row, reviews, rec, history, sent, faults>>

\* The recommendation is read: an archived one stays, and only that one is reactivated.
FindRecommendation(h) ==
    /\ At(h, "find")
    /\ Go(h, IF rec # "absent" /\ (rec = "outdated" <=> Event(h).action = "reopened")
             THEN "archive" ELSE "mark")
    /\ UNCHANGED <<github, scope, delivery, tables, history, sent, faults>>

\* The state is set by id, whatever it is by now.
ArchiveOrReactivate(h) ==
    /\ At(h, "archive")
    /\ rec' = IF Event(h).action = "closed" THEN "outdated" ELSE "active"
    /\ Go(h, Then(h, "archive"))
    /\ UNCHANGED <<github, scope, delivery, row, reviews, comments, history, sent, faults>>

Mark(h) ==
    LET e == handler[h].event IN
    /\ At(h, "mark")
    /\ delivery' = [delivery EXCEPT ![e] = Marked(@, "processed")]
    /\ answered' = answered \cup {e}
    /\ handler' = [handler EXCEPT ![h] = IdleHandler]
    /\ UNCHANGED <<github, scope, tables, unscoped, sent, faults>>

\* The catch block marks the delivery failed; a killed request leaves it as it is.
HandlerFails(h) ==
    /\ ~At(h, "idle") /\ faults < MaxFaults
    /\ faults' = faults + 1
    /\ delivery' \in {delivery, [delivery EXCEPT ![handler[h].event] = Marked(@, "failed")]}
    /\ handler' = [handler EXCEPT ![h] = IdleHandler]
    /\ UNCHANGED <<github, scope, tables, history, sent>>

-----------------------------------------------------------------------------

Init ==
    /\ pr = [state |-> "open", head |-> 0]
    /\ events = <<>>
    /\ scope \in BOOLEAN
    /\ delivery = [e \in Deliveries |-> Unseen]
    /\ handler = [h \in Handlers |-> IdleHandler]
    /\ row = <<>> /\ reviews = {} /\ rec = "absent" /\ comments = <<>>
    /\ answered = {} /\ unscoped = {}
    /\ sent = 0 /\ faults = 0

Handle(h) ==
    \/ SelectRow(h) \/ InsertRow(h) \/ UpdateRow(h) \/ Enqueue(h)
    \/ ClearComments(h) \/ FindRecommendation(h) \/ ArchiveOrReactivate(h)
    \/ Mark(h) \/ HandlerFails(h)

Next ==
    \/ Opened \/ Synchronize \/ Closed \/ Reopened \/ Edited
    \/ Review \/ DismissOrRestore \/ SetScope
    \/ \E e \in DOMAIN events : Reject(e) \/ \E h \in Handlers : Receive(h, e)
    \/ \E h \in Handlers : Handle(h)

Spec == Init /\ [][Next]_vars

-----------------------------------------------------------------------------
(* Properties.                                                             *)

\* A delivery that was answered as handled has had its effect, through failures, kills,
\* rejected attempts and overlapping redeliveries: the pull request is known, and its head
\* has a review job unless reviews were not enabled (github-webhook-store.ts:118-121).
AnsweredIsHandled ==
    \A e \in answered :
        /\ row # <<>>
        /\ events[e].action \in AnalysisActions /\ e \notin unscoped => events[e].head \in reviews

\* Once a closure was answered as handled, no comment that it found posted blocks its gap
\* any more, in whatever order the closures and reopenings arrived and however often the
\* recommendation was archived before (github-webhook-store.ts:245-249).
ClosureClearsComments ==
    \A e \in answered : events[e].action = "closed" =>
        \A n \in events[e].posted : comments[n] = "outdated"

-----------------------------------------------------------------------------
(* What makes them inductive.                                              *)

EventState ==
    [action : AnalysisActions \cup {"closed", "edited"}, state : {"open", "closed", "merged"},
     head : Nat, posted : SUBSET Nat]

HandlerState ==
    [pc : {"idle", "select", "insert", "update", "enqueue", "clear", "find", "archive", "mark"},
     event : Nat, scope : BOOLEAN]

\* Types, and events that refer to comments there are.
TypeOK ==
    /\ pr \in [state : {"open", "closed", "merged"}, head : Nat]
    /\ events \in Seq(EventState) /\ Len(events) <= MaxEvents
    /\ scope \in BOOLEAN
    /\ delivery \in [Deliveries -> DeliveryRows]
    /\ handler \in [Handlers -> HandlerState]
    /\ row \in Seq([state : {"open", "closed", "merged"}, head : Nat]) /\ Len(row) <= 1
    /\ reviews \subseteq Nat
    /\ rec \in {"absent", "active", "dismissed", "outdated"}
    /\ comments \in Seq({"posted", "outdated"})
    /\ answered \subseteq DOMAIN events /\ unscoped \subseteq DOMAIN events
    /\ \A e \in DOMAIN events : events[e].posted \subseteq DOMAIN comments

\* The effects of a delivery.
Known == row # <<>>
Reviewed(e) == events[e].action \in AnalysisActions /\ e \notin unscoped => events[e].head \in reviews
Cleared(e) == events[e].action = "closed" => \A n \in events[e].posted : comments[n] = "outdated"

InEffect(e) == Known /\ Reviewed(e) /\ Cleared(e)

\* A request has had the effects whose statements are behind it.
EffectsOf(h) ==
    LET e == handler[h].event IN
    /\ e \in DOMAIN events
    /\ handler[h].scope \/ e \in unscoped
    /\ handler[h].pc \notin {"select", "insert", "update"} => Known
    /\ handler[h].pc \in {"clear", "find", "archive", "mark"} => Reviewed(e)
    /\ handler[h].pc \in {"find", "archive", "mark"} => Cleared(e)

\* Only a handled delivery is terminal.
SyncInv ==
    /\ TypeOK
    /\ \A h \in Handlers : At(h, "idle") \/ EffectsOf(h)
    /\ \A e \in Deliveries :
          /\ delivery[e].status = "processed" => e \in DOMAIN events /\ InEffect(e)
          /\ delivery[e].status = "ignored" => ~delivery[e].valid
    /\ \A e \in answered : InEffect(e)
=============================================================================
