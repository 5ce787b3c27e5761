----------------------------- MODULE Generation -----------------------------
(***************************************************************************)
(* Pull requests generated for an approved step (lib/agent-prgen.ts,       *)
(* functions/_shared/prgen-store.ts), while members revoke and retry       *)
(* (Approvals) and the generated pull request is merged at GitHub and its  *)
(* webhook completes the step (markGeneratedPrMerged of                    *)
(* github-webhook-store.ts).                                               *)
(*                                                                         *)
(* The console approves the ids of the step and the action, so all         *)
(* approvals of the step share one payload hash and with it the keys of    *)
(* their writes.  The job around the phases is reduced to what the         *)
(* executor sees of it (module JobEngine).                                 *)
(***************************************************************************)
EXTENDS Approvals

CONSTANTS
    Ticks,          \* worker ticks that execute generations
    MaxPrs,         \* pull requests GitHub ever holds for the branch
    MaxFaults       \* failures and kills

ASSUME GenerationAssumption == MaxPrs \in Nat /\ MaxFaults \in Nat

VARIABLES
    evidence,       \* baseline and patch persisted by each job
    write,          \* external_write_actions of the step
    github,         \* what the provider holds: branch, whose file, pull requests
    tick,           \* local state of each executor
    webhook,        \* the delivery of a merged or closed pull request
    late,           \* provider writes of each job after its approval was revoked
    faults

genVars == <<evidence, write, github, tick, webhook, late, faults>>
vars == <<memberVars, genVars>>
rows == <<approval, rec, member, calls>>

Phases == <<"plan", "compose_patch", "handoff">>
Writes == <<"branch", "file", "pr">>
Kinds == {Writes[n] : n \in DOMAIN Writes}

NoWrite == [state |-> "absent", pr |-> 0]
IdleTick == [pc |-> "idle", id |-> 0, n |-> 1, set |-> "", pr |-> 0, copy |-> <<>>]
IdleWebhook == [pc |-> "idle", pr |-> 0, copy |-> <<>>, rec |-> ""]

Mine(t) == tick[t].id
Go(t, pc) == tick' = [tick EXCEPT ![t].pc = pc]
Kind(t) == Writes[tick[t].n]
OpenPrs == {n \in DOMAIN github.prs : github.prs[n] = "open"}

-----------------------------------------------------------------------------
(* The job around a phase.                                                 *)

\* The phase the job goes on with; a job requeued after its last one has none left.
Resumed(id, phase) ==
    [IdleTick EXCEPT !.pc = IF phase \in DOMAIN Phases THEN Phases[phase] ELSE "done", !.id = id]

\* One tick works on a job, as if no lease ran out under it (module JobEngine).
Claim(t, id) ==
    /\ tick[t].pc = "idle" /\ job[id].state \in {"queued", "running"}
    /\ \A u \in Ticks : Mine(u) # id
    /\ job' = [job EXCEPT ![id].state = "running"]
    /\ tick' = [tick EXCEPT ![t] = Resumed(id, job[id].phase)]
    /\ UNCHANGED <<rows, step, evidence, write, github, webhook, late, faults>>

\* updateOwnedJob: a job that was requeued under the tick is no longer its own.
Owns(t) == job[Mine(t)].state = "running"

EndsIn(t, state) ==
    /\ job' = IF Owns(t) THEN [job EXCEPT ![Mine(t)].state = state] ELSE job
    /\ tick' = [tick EXCEPT ![t] = IdleTick]

PhaseDone(t) ==
    LET id   == Mine(t)
        next == job[id].phase + 1
    IN  /\ tick[t].pc = "done"
        /\ \/ /\ Owns(t) /\ next <= Len(Phases)
              /\ job' = [job EXCEPT ![id].phase = next]
              /\ tick' = [tick EXCEPT ![t] = Resumed(id, next)]
           \/ /\ Owns(t) /\ next > Len(Phases)
              /\ job' = [job EXCEPT ![id] = [state |-> "succeeded", phase |-> Len(Phases) + 1]]
              /\ tick' = [tick EXCEPT ![t] = IdleTick]
           \/ /\ ~Owns(t)
              /\ tick' = [tick EXCEPT ![t] = IdleTick] /\ UNCHANGED job
        /\ UNCHANGED <<rows, step, evidence, write, github, webhook, late, faults>>

\* An error that is not retryable fails the job, and leaves the step as it is.
Refuse(t) == EndsIn(t, "failed")

\* A retryable one does so once the budget is spent.
Throw(t) == \E state \in {"queued", "failed"} : EndsIn(t, state)

\* updateStep: the steps are read and written back with one field set.
SetStep(t, what) == tick' = [tick EXCEPT ![t].pc = "read_steps", ![t].set = what]

ReadStep(t) ==
    /\ tick[t].pc = "read_steps"
    /\ tick' = [tick EXCEPT ![t].pc = "write_steps", ![t].copy = <<step>>]
    /\ UNCHANGED <<rows, job, step, evidence, write, github, webhook, late, faults>>

\* The link to the pull request is set before the step is ready.
WriteStep(t) ==
    LET local == tick[t] IN
    /\ local.pc = "write_steps"
    /\ IF local.set = "link"
       THEN /\ step' = [local.copy[1] EXCEPT !.made = local.pr]
            /\ SetStep(t, "ready")
       ELSE /\ step' = [local.copy[1] EXCEPT !.state = local.set]
            /\ Go(t, "done")
    /\ UNCHANGED <<rows, job, evidence, write, github, webhook, late, faults>>

-----------------------------------------------------------------------------
(* The phases.                                                             *)

\* What reading the target file may give: its content, or nothing readable.
FileReads == {"content", "missing"}

\* The patches that validate: one that holds the target file, and one that does not.
Patches == {"patch", "other"}

\* Evidence of a job is inserted once, and read back.
Keep(id, item) == evidence' = [evidence EXCEPT ![id] = @ \cup {item}]
Kept(id, items) == evidence[id] \cap items

\* plan: an approved plan only; the baseline of the file is read once.
Plan(t) ==
    LET kept == Kept(Mine(t), {"baseline"}) IN
    /\ tick[t].pc = "plan"
    /\ \/ ~Approved(Mine(t)) /\ Refuse(t) /\ UNCHANGED evidence
       \/ kept # {} /\ Approved(Mine(t)) /\ Go(t, "done") /\ UNCHANGED <<job, evidence>>
       \/ /\ kept = {} /\ Approved(Mine(t))
          /\ \E file \in FileReads :
                IF file = "missing" THEN Refuse(t) /\ UNCHANGED evidence
                ELSE Keep(Mine(t), "baseline") /\ SetStep(t, "generating") /\ UNCHANGED job
    /\ UNCHANGED <<rows, step, write, github, webhook, late, faults>>

\* compose_patch: an answer that does not validate is not kept.
ComposePatch(t) ==
    LET kept == Kept(Mine(t), Patches) IN
    /\ tick[t].pc = "compose_patch"
    /\ \/ kept # {} /\ Go(t, "done") /\ UNCHANGED <<job, evidence>>
       \/ kept = {} /\ ~Approved(Mine(t)) /\ Refuse(t) /\ UNCHANGED evidence
       \/ kept = {} /\ Approved(Mine(t)) /\ Throw(t) /\ UNCHANGED evidence
       \/ /\ kept = {} /\ Approved(Mine(t))
          /\ \E patch \in Patches : Keep(Mine(t), patch)
          /\ Go(t, "done") /\ UNCHANGED job
    /\ UNCHANGED <<rows, step, write, github, webhook, late, faults>>

\* The one file that was approved, whatever else the patch holds.
TargetFile(id) == "patch" \in Kept(id, Patches)

\* handoff: re-verified; without the target file the step has failed and nothing is written.
Handoff(t) ==
    /\ tick[t].pc = "handoff"
    /\ \/ ~Approved(Mine(t)) /\ Refuse(t)
       \/ /\ Approved(Mine(t)) /\ UNCHANGED job
          /\ IF TargetFile(Mine(t)) THEN Go(t, "find") ELSE SetStep(t, "failed")
    /\ UNCHANGED <<rows, step, evidence, write, github, webhook, late, faults>>

\* The writes one after the other; the last one names the pull request.
Written(t, pr) ==
    IF Kind(t) = "pr"
    THEN tick' = [tick EXCEPT ![t].pc = "read_steps", ![t].set = "link", ![t].pr = pr]
    ELSE tick' = [tick EXCEPT ![t].pc = "find", ![t].n = @ + 1]

\* execWrite: a write that succeeded before is reused, its pull request with it.
FindWrite(t) ==
    LET row == write[Kind(t)] IN
    /\ tick[t].pc = "find"
    /\ IF row.state = "succeeded" THEN Written(t, row.pr) ELSE Go(t, "assert")
    /\ UNCHANGED <<rows, job, step, evidence, write, github, webhook, late, faults>>

\* (Mutant) Verified once, when the phase began.
AssertOnce(t) ==
    /\ tick[t].pc = "assert"
    /\ Go(t, "insert")
    /\ UNCHANGED <<rows, job, step, evidence, write, github, webhook, late, faults>>

\* The approval is verified again before each write.
AssertApproved(t) ==
    /\ tick[t].pc = "assert"
    /\ IF Approved(Mine(t)) THEN Go(t, "insert") /\ UNCHANGED job ELSE Refuse(t)
    /\ UNCHANGED <<rows, step, evidence, write, github, webhook, late, faults>>

\* (Mutant) The audit row is only written once the outcome is known.
Unplanned(row) == row

\* An audit row, unless an earlier attempt left one.
Planned(row) == IF row.state = "absent" THEN [row EXCEPT !.state = "planned"] ELSE row

InsertWrite(t) ==
    /\ tick[t].pc = "insert"
    /\ write' = [write EXCEPT ![Kind(t)] = Planned(@)]
    /\ Go(t, "op")
    /\ UNCHANGED <<rows, job, step, evidence, github, webhook, late, faults>>

\* GitHub accepts: the branch is there already or created, the file replaced, a pull request
\* opened.
Accepted(t) ==
    CASE Kind(t) = "branch" -> [github EXCEPT !.branch = TRUE]
      [] Kind(t) = "file"   -> [github EXCEPT !.file = Mine(t)]
      [] Kind(t) = "pr"     -> [github EXCEPT !.prs = IF OpenPrs = {} THEN Append(@, "open") ELSE @]

\* The provider write.  createPr recovers the open pull request of the branch.
Perform(t) ==
    /\ tick[t].pc = "op"
    /\ Kind(t) = "pr" /\ OpenPrs = {} => Len(github.prs) < MaxPrs
    /\ github' = Accepted(t)
    /\ late' = [late EXCEPT ![Mine(t)] = IF Approved(Mine(t)) THEN @ ELSE @ + 1]
    /\ tick' = [tick EXCEPT ![t].pc = "mark",
          ![t].pr = IF Kind(t) # "pr" THEN 0
                    ELSE IF OpenPrs = {} THEN Len(github.prs) + 1 ELSE CHOOSE n \in OpenPrs : TRUE]
    /\ UNCHANGED <<rows, job, step, evidence, write, webhook, faults>>

\* The write fails, done or not; the row is marked and the error thrown.
PerformFails(t) ==
    /\ tick[t].pc = "op" /\ faults < MaxFaults
    /\ faults' = faults + 1
    /\ \/ UNCHANGED <<github, late>>
       \/ /\ Kind(t) = "pr" /\ OpenPrs = {} => Len(github.prs) < MaxPrs
          /\ github' = Accepted(t)
          /\ late' = [late EXCEPT ![Mine(t)] = IF Approved(Mine(t)) THEN @ ELSE @ + 1]
    /\ write' = [write EXCEPT ![Kind(t)].state = "failed"]
    /\ Throw(t)
    /\ UNCHANGED <<rows, step, evidence, webhook>>

MarkWrite(t) ==
    /\ tick[t].pc = "mark"
    /\ write' = [write EXCEPT ![Kind(t)] = [state |-> "succeeded", pr |-> tick[t].pr]]
    /\ Written(t, tick[t].pr)
    /\ UNCHANGED <<rows, job, step, evidence, github, webhook, late, faults>>

\* A statement fails with a retryable error, or the tick is killed.
TickFails(t) ==
    /\ tick[t].pc # "idle" /\ faults < MaxFaults
    /\ faults' = faults + 1
    /\ \/ Throw(t)
       \/ tick' = [tick EXCEPT ![t] = IdleTick] /\ UNCHANGED job
    /\ UNCHANGED <<rows, step, evidence, write, github, webhook, late>>

-----------------------------------------------------------------------------
(* GitHub and its webhook.                                                 *)

\* Somebody merges or closes the pull request.
ClosePr(n) ==
    /\ n \in OpenPrs
    /\ \E state \in {"merged", "closed"} : github' = [github EXCEPT !.prs[n] = state]
    /\ UNCHANGED <<memberVars, evidence, write, tick, webhook, late, faults>>

\* (Mutant) Any closed pull request completes the step.
CompletesClosed(n) == github.prs[n] # "open"

\* Only a merged one does.
Completes(n) == github.prs[n] = "merged"

\* A delivery, or a redelivery, of a pull request that a step links: the recommendation is
\* read.  Where no step links it (yet) there is nothing to do.
ReadMerged(n) ==
    /\ webhook.pc = "idle" /\ Completes(n) /\ step.made = n
    /\ webhook' = [pc |-> "write", pr |-> n, copy |-> <<step>>, rec |-> rec]
    /\ UNCHANGED <<memberVars, evidence, write, github, tick, late, faults>>

\* The step is done, and an active recommendation whose steps are all done is accepted: both
\* as they were read.
WriteMerged ==
    /\ webhook.pc = "write"
    /\ step' = [webhook.copy[1] EXCEPT !.state = "done"]
    /\ rec' = IF webhook.rec = "active" THEN "accepted" ELSE rec
    /\ webhook' = IdleWebhook
    /\ UNCHANGED <<approval, job, member, calls, evidence, write, github, tick, late, faults>>

-----------------------------------------------------------------------------

Init ==
    /\ MembersInit
    /\ step = [state |-> "available", made |-> 0]
    /\ evidence = [id \in Ids |-> {}]
    /\ write = [k \in Kinds |-> NoWrite]
    /\ github = [branch |-> FALSE, file |-> 0, prs |-> <<>>]
    /\ tick = [t \in Ticks |-> IdleTick]
    /\ webhook = IdleWebhook
    /\ late = [id \in Ids |-> 0]
    /\ faults = 0

Execute(t) ==
    \/ \E id \in Ids : Claim(t, id)
    \/ PhaseDone(t) \/ ReadStep(t) \/ WriteStep(t)
    \/ Plan(t) \/ ComposePatch(t) \/ Handoff(t)
    \/ FindWrite(t) \/ AssertApproved(t) \/ InsertWrite(t)
    \/ Perform(t) \/ PerformFails(t) \/ MarkWrite(t) \/ TickFails(t)

Next ==
    \/ \E m \in Members : Request(m) /\ UNCHANGED genVars
    \/ \E t \in Ticks : Execute(t)
    \/ \E n \in DOMAIN github.prs : ClosePr(n) \/ ReadMerged(n)
    \/ WriteMerged

Spec == Init /\ [][Next]_vars

-----------------------------------------------------------------------------
(* Properties.                                                             *)

Steps == [state : {"available", "generating", "ready", "failed", "done"}, made : Nat]

TickState ==
    [pc : {"idle", "done", "read_steps", "write_steps", "find", "assert", "insert", "op", "mark"}
          \cup {Phases[n] : n \in DOMAIN Phases},
     id : 0 .. MaxApprovals, n : DOMAIN Writes,
     set : {"", "generating", "link", "ready", "failed"}, pr : Nat, copy : Seq(Steps)]

\* Types of the tables, of what GitHub holds, and of the executors' local state.
TypeOK ==
    /\ MembersTypeOK(Steps) /\ \A id \in Ids : job[id].phase \in 1 .. Len(Phases) + 1
    /\ step \in Steps
    /\ evidence \in [Ids -> SUBSET ({"baseline"} \cup Patches)]
    /\ write \in [Kinds -> [state : {"absent", "planned", "failed", "succeeded"}, pr : Nat]]
    /\ github \in [branch : BOOLEAN, file : 0 .. MaxApprovals, prs : Seq({"open", "merged", "closed"})]
    /\ tick \in [Ticks -> TickState]
    /\ webhook \in [pc : {"idle", "write"}, pr : Nat, copy : Seq(Steps),
                    rec : {"", "active", "dismissed", "accepted"}]
    /\ late \in [Ids -> Nat] /\ faults \in 0 .. MaxFaults

\* Once an approval is revoked its job performs one more provider write at most, the one it
\* had verified already, however often it is resumed or retried (agent-prgen.ts:221-225).
OneWriteAfterRevocation == \A id \in Ids : late[id] <= 1

\* What is at the provider has an audit row, through crashes and lost answers, and what the
\* audit says succeeded is there (agent-prgen.ts:265-269).
EveryWriteIsAudited ==
    /\ github.branch => write["branch"].state # "absent"
    /\ github.file # 0 => write["file"].state # "absent"
    /\ github.prs # <<>> => write["pr"].state # "absent"
    /\ write["branch"].state = "succeeded" => github.branch
    /\ write["file"].state = "succeeded" => github.file # 0
    /\ write["pr"].state = "succeeded" => write["pr"].pr \in DOMAIN github.prs

Merged == \E n \in DOMAIN github.prs : github.prs[n] = "merged"

\* A step is done, and a recommendation accepted, because a generated pull request was
\* merged (github-webhook-store.ts:303-309).
DoneMeansMerged ==
    step.state = "done" \/ rec = "accepted" => Merged

\* What the comment at the merge says: a recommendation is accepted from active only.  The
\* state is checked on the row that was read, and the update goes by id
\* (github-webhook-store.ts:327-333).
AcceptedFromActive ==
    [][rec # "accepted" /\ rec' = "accepted" => rec = "active"]_vars

-----------------------------------------------------------------------------
(* What makes the safety properties inductive.                             *)

\* A job has one tick, and a tick the approval of a job and a field to set when it sets one.
TicksOK ==
    /\ \A t, u \in Ticks : Mine(t) = Mine(u) /\ Mine(t) # 0 => t = u
    /\ \A t \in Ticks : tick[t].pc # "idle" => Mine(t) \in Requested
    /\ \A t \in Ticks : tick[t].pc \in {"read_steps", "write_steps"} => tick[t].set # ""

\* A late write has used up the verification; the next one would be refused, since an
\* approval is not approved twice.
LateOK ==
    /\ \A id \in Ids : late[id] > 0 => id \in Requested /\ approval[id] = "revoked"
    /\ \A t \in Ticks : tick[t].pc \in {"insert", "op"} =>
          approval[Mine(t)] \in {"approved", "revoked"} /\ late[Mine(t)] = 0

\* What a write leaves at the provider.
AtGithub(kind, pr) ==
    CASE kind = "branch" -> github.branch
      [] kind = "file"   -> github.file # 0
      [] kind = "pr"     -> pr \in DOMAIN github.prs

\* A write is planned before it is performed, and performed before it is marked.
AuditFollows ==
    \A t \in Ticks :
        /\ tick[t].pc \in {"op", "mark"} => write[Kind(t)].state # "absent"
        /\ tick[t].pc = "mark" => AtGithub(Kind(t), tick[t].pr)

\* A copy of the step that says it is done was read after the pull request was merged.
CopiesOK ==
    /\ \A m \in Members : member[m].pc = "write_steps" /\ member[m].copy[1].state = "done" => Merged
    /\ \A t \in Ticks : tick[t].pc = "write_steps" =>
          Len(tick[t].copy) = 1 /\ (tick[t].copy[1].state = "done" => Merged)
    /\ webhook.pc = "write" => Len(webhook.copy) = 1 /\ Merged

\* Every link is to a pull request that GitHub holds, one of them open at most.
Linked == 0 .. Len(github.prs)

LinksExist ==
    /\ step.made \in Linked /\ write["pr"].pr \in Linked
    /\ \A m \in Members : member[m].pc = "write_steps" => member[m].copy[1].made \in Linked
    /\ \A t \in Ticks :
          tick[t].pr \in Linked /\ (tick[t].pc = "write_steps" => tick[t].copy[1].made \in Linked)
    /\ webhook.pc = "write" => webhook.copy[1].made \in Linked
    /\ \A m, n \in OpenPrs : m = n

GenerationInv ==
    /\ TypeOK /\ MembersInv(Steps) /\ TicksOK
    /\ OneWriteAfterRevocation /\ LateOK
    /\ EveryWriteIsAudited /\ AuditFollows
    /\ DoneMeansMerged /\ CopiesOK /\ LinksExist
=============================================================================
