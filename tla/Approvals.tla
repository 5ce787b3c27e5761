----------------------------- MODULE Approvals -----------------------------
(***************************************************************************)
(* Members of a workspace, and the one step of a recommendation they can   *)
(* have generated (lib/actions.ts, lib/transitions.ts): approvals are      *)
(* requested, decided and turned into a generation job, a failed job is    *)
(* retried, the recommendation is dismissed and restored.  Every action    *)
(* reads first and writes later.                                           *)
(*                                                                         *)
(* Generation and MonitorGeneration add the executors.  A job is           *)
(* named by its approval, since its idempotency key is.                    *)
(***************************************************************************)
EXTENDS Naturals, Sequences, FiniteSets

CONSTANTS
    Members,        \* console requests served at once
    MaxApprovals,   \* approvals ever requested
    MaxCalls        \* console calls ever made

ASSUME ApprovalsAssumption == MaxApprovals \in Nat \ {0} /\ MaxCalls \in Nat

VARIABLES
    approval,       \* states of the approvals, in the order of their request
    job,            \* generation jobs, by approval
    rec,            \* state of the recommendation
    step,           \* its step: state, what was generated, proposed payload
    member,         \* local state of each console request
    calls

memberVars == <<approval, job, rec, step, member, calls>>

Ids == 1 .. MaxApprovals
Requested == DOMAIN approval

IdleMember == [pc |-> "idle", id |-> 0, to |-> "", seen |-> "", copy |-> <<>>]

NoJob == [state |-> "absent", phase |-> 1]

\* APPROVAL_TRANSITIONS; nothing in the code executes an approval.
ApprovalMoves == {<<"requested", "approved">>, <<"requested", "rejected">>, <<"approved", "revoked">>}

\* The moves of RECOMMENDATION_TRANSITIONS a member may ask for.
RecommendationMoves == {<<"active", "dismissed">>, <<"dismissed", "active">>}

Active(id) == approval[id] \in {"requested", "approved"}

Approved(id) == approval[id] = "approved"

Call(m, local) ==
    /\ member[m].pc = "idle" /\ calls < MaxCalls
    /\ calls' = calls + 1
    /\ member' = [member EXCEPT ![m] = local]

Then(m, pc) == member' = [member EXCEPT ![m].pc = pc]
Return(m) == member' = [member EXCEPT ![m] = IdleMember]

\* requestApproval, of a step that is there: the active approval of the target, or a new one
\* behind the unique index.  The console goes on to approve it (approveAndGenerate).
RequestApproval(m) ==
    /\ \/ \E id \in Requested :
             /\ Active(id)
             /\ Call(m, [IdleMember EXCEPT !.pc = "decide", !.id = id, !.to = "approved"])
             /\ UNCHANGED approval
       \/ /\ \A id \in Requested : ~Active(id)
          /\ step.state # "absent"
          /\ Len(approval) < MaxApprovals
          /\ approval' = Append(approval, "requested")
          /\ Call(m, [IdleMember EXCEPT !.pc = "decide", !.id = Len(approval) + 1, !.to = "approved"])
    /\ UNCHANGED <<job, rec, step>>

\* A member decides against an approval.
Oppose(m, id) ==
    /\ \E to \in {"rejected", "revoked"} :
          Call(m, [IdleMember EXCEPT !.pc = "decide", !.id = id, !.to = to])
    /\ UNCHANGED <<approval, job, rec, step>>

\* decideApproval reads the approval: decided so already, not allowed, or to be updated.
ReadApproval(m) ==
    LET id == member[m].id IN
    /\ member[m].pc = "decide"
    /\ member' = [member EXCEPT ![m] =
         IF approval[id] = member[m].to /\ member[m].to = "approved" THEN [@ EXCEPT !.pc = "enqueue"]
         ELSE IF <<approval[id], member[m].to>> \in ApprovalMoves
              THEN [@ EXCEPT !.pc = "update", !.seen = approval[id]]
              ELSE IdleMember]
    /\ UNCHANGED <<approval, job, rec, step, calls>>

\* (Mutant) Updated by id alone.
UpdateAnyway(m) == member[m].pc = "update"

\* The update is conditional on the state that was validated.
MayUpdate(m) == member[m].pc = "update" /\ approval[member[m].id] = member[m].seen

UpdateApproval(m) ==
    /\ \/ /\ MayUpdate(m)
          /\ approval' = [approval EXCEPT ![member[m].id] = member[m].to]
          /\ IF member[m].to = "approved" THEN Then(m, "enqueue") ELSE Return(m)
       \/ /\ member[m].pc = "update" /\ ~MayUpdate(m)
          /\ Return(m)
          /\ UNCHANGED approval
    /\ UNCHANGED <<job, rec, step, calls>>

\* enqueueGeneration reads the approval first ...
CheckApproved(m) ==
    /\ member[m].pc = "enqueue"
    /\ IF Approved(member[m].id) THEN Then(m, "find") ELSE Return(m)
    /\ UNCHANGED <<approval, job, rec, step, calls>>

\* canRetryJob
CanRetry(id) == job[id].state = "failed"

\* ... then the job of the approval: to be created, resumed if it failed, or there already.
FindJob(m) ==
    LET id == member[m].id IN
    /\ member[m].pc = "find"
    /\ \/ job[id].state = "absent" /\ Then(m, "insert")
       \/ CanRetry(id) /\ Then(m, "requeue")
       \/ job[id].state # "absent" /\ ~CanRetry(id) /\ Return(m)
    /\ UNCHANGED <<approval, job, rec, step, calls>>

Queued(id) == [job EXCEPT ![id].state = "queued"]

\* insertJob: behind the unique key, so that the job of a racing request is taken as it is.
InsertJob(m) ==
    LET id == member[m].id IN
    /\ member[m].pc = "insert"
    /\ job' = IF job[id].state = "absent" THEN Queued(id) ELSE job
    /\ Return(m)
    /\ UNCHANGED <<approval, rec, step, calls>>

\* retryJob reads the job, not its approval.
RetryJob(m, id) ==
    /\ CanRetry(id)
    /\ Call(m, [IdleMember EXCEPT !.pc = "requeue", !.id = id])
    /\ UNCHANGED <<approval, job, rec, step>>

\* requeueFailedJob: updated by id alone, whatever became of the job since it was read.
RequeueJob(m) ==
    /\ member[m].pc = "requeue"
    /\ job' = Queued(member[m].id)
    /\ Then(m, "read_steps")
    /\ UNCHANGED <<approval, rec, step, calls>>

\* markStepGenerating reads the steps and writes them back.
ReadSteps(m) ==
    /\ member[m].pc = "read_steps"
    /\ member' = [member EXCEPT ![m].pc = "write_steps", ![m].copy = <<step>>]
    /\ UNCHANGED <<approval, job, rec, step, calls>>

WriteSteps(m) ==
    /\ member[m].pc = "write_steps"
    /\ step' = [member[m].copy[1] EXCEPT !.state = "generating"]
    /\ Return(m)
    /\ UNCHANGED <<approval, job, rec, calls>>

\* setRecommendationState: conditional on the state that was read, so one step.
SetRecommendationState(m) ==
    /\ \E move \in RecommendationMoves : rec = move[1] /\ rec' = move[2]
    /\ Call(m, IdleMember)
    /\ UNCHANGED <<approval, job, step>>

MembersInit ==
    /\ approval = <<>>
    /\ job = [id \in Ids |-> NoJob]
    /\ rec = "active"
    /\ member = [m \in Members |-> IdleMember]
    /\ calls = 0

Request(m) ==
    \/ RequestApproval(m) \/ ReadApproval(m) \/ UpdateApproval(m)
    \/ CheckApproved(m) \/ FindJob(m) \/ InsertJob(m) \/ RequeueJob(m)
    \/ ReadSteps(m) \/ WriteSteps(m)
    \/ SetRecommendationState(m)
    \/ \E id \in Requested : Oppose(m, id)
    \/ \E id \in Ids : RetryJob(m, id)

ApprovalStates == {"requested", "approved", "rejected", "revoked"}

MemberState(Steps) ==
    [pc : {"idle", "decide", "update", "enqueue", "find", "insert", "requeue", "read_steps", "write_steps"},
     id : 0 .. MaxApprovals, to : ApprovalStates \cup {""}, seen : ApprovalStates \cup {""},
     copy : Seq(Steps)]

\* Types of the members' tables and of their requests, over what a step may be.
MembersTypeOK(Steps) ==
    /\ approval \in Seq(ApprovalStates) /\ Len(approval) <= MaxApprovals
    /\ job \in [Ids -> [state : {"absent", "queued", "running", "failed", "succeeded"}, phase : Nat]]
    /\ rec \in {"active", "dismissed", "accepted"}
    /\ member \in [Members -> MemberState(Steps)]
    /\ calls \in 0 .. MaxCalls

\* Decisions are final: no approval comes back from a rejection or a revocation, and none
\* is rejected once it was approved, however two members' decisions interleave
\* (transitions.ts:31-37, actions.ts:336-345).
DecisionsAreFinal ==
    [][\A id \in Requested :
          approval'[id] # approval[id] => <<approval[id], approval'[id]>> \in ApprovalMoves]_memberVars

-----------------------------------------------------------------------------
(* What the properties of the executors rest on.                           *)

\* The unique index: one active approval at most (core-tables.sql:217).
OneActiveApproval == \A i, j \in Requested : Active(i) /\ Active(j) => i = j

JobsRequested == \A id \in Ids : job[id].state # "absent" => id \in Requested

\* A request is about an approval that is there, and about a job it found, and updates the
\* approval by a move it validated.
RequestOK(m) ==
    LET local == member[m] IN
    /\ local.pc # "idle" => local.id \in Requested
    /\ local.pc = "update" => <<local.seen, local.to>> \in ApprovalMoves
    /\ local.pc = "write_steps" => Len(local.copy) = 1

MembersInv(Steps) ==
    /\ MembersTypeOK(Steps) /\ OneActiveApproval /\ JobsRequested
    /\ \A m \in Members : RequestOK(m)
=============================================================================
