-------------------------- MODULE ApprovalsProofs --------------------------
(***************************************************************************)
(* What the members may do to the approvals, whatever executes them: the   *)
(* proofs of Generation and MonitorGeneration build on these lemmas.       *)
(***************************************************************************)
EXTENDS Approvals, TLAPS, SequenceTheorems

LEMMA MemberTypes ==
    ASSUME NEW S, MembersTypeOK(S)
    PROVE  /\ approval \in Seq(ApprovalStates) /\ Len(approval) \in Nat
           /\ Requested = 1 .. Len(approval) /\ Requested \subseteq Ids
           /\ \A id \in Requested : approval[id] \in ApprovalStates
           /\ \A m \in Members : member[m] \in MemberState(S)
           /\ \A id \in Requested : id \in 0 .. MaxApprovals
           /\ MaxApprovals \in Nat
<1>1. approval \in Seq(ApprovalStates) /\ Len(approval) <= MaxApprovals /\ MaxApprovals \in Nat
  BY ApprovalsAssumption DEF MembersTypeOK, ApprovalsAssumption
<1>2. Len(approval) \in Nat /\ Requested = 1 .. Len(approval)
  BY <1>1, LenProperties DEF Requested
<1>3. \A id \in Requested : approval[id] \in ApprovalStates
  BY <1>1, <1>2, ElementOfSeq
<1> QED BY <1>1, <1>2, <1>3 DEF MembersTypeOK, Ids

LEMMA OneStep ==
    ASSUME NEW S, NEW s \in S
    PROVE  /\ <<>> \in Seq(S) /\ <<s>> \in Seq(S) /\ Len(<<s>>) = 1 /\ <<s>>[1] = s
OBVIOUS

\* What a request may do to the approvals: add one when none is active, or move one.
ApprovalsMove ==
    \/ UNCHANGED approval
    \/ /\ \A id \in Requested : ~ Active(id)
       /\ Len(approval) < MaxApprovals
       /\ approval' = Append(approval, "requested")
    \/ \E id \in Requested : \E to \in ApprovalStates :
          /\ <<approval[id], to>> \in ApprovalMoves
          /\ approval' = [approval EXCEPT ![id] = to]

LEMMA MovesByRequest ==
    ASSUME NEW S, MembersInv(S), NEW m \in Members, Request(m)
    PROVE  ApprovalsMove
<1>0. MembersTypeOK(S) /\ RequestOK(m)
  BY DEF MembersInv
<1>1. CASE RequestApproval(m)
  BY <1>1 DEF RequestApproval, ApprovalsMove
<1>2. CASE UpdateApproval(m)
  <2>1. CASE UNCHANGED approval
    BY <2>1 DEF ApprovalsMove
  <2>2. CASE MayUpdate(m) /\ approval' = [approval EXCEPT ![member[m].id] = member[m].to]
    <3> DEFINE id == member[m].id
               to == member[m].to
    <3>1. /\ id \in Requested /\ <<approval[id], to>> \in ApprovalMoves
          /\ approval' = [approval EXCEPT ![id] = to]
      BY <1>0, <2>2 DEF MayUpdate, RequestOK
    <3> HIDE DEF id, to
    <3>2. to \in ApprovalStates
      BY <3>1 DEF ApprovalMoves, ApprovalStates
    <3> QED BY <3>1, <3>2 DEF ApprovalsMove
  <2> QED BY <1>2, <2>1, <2>2 DEF UpdateApproval
<1>3. CASE UNCHANGED approval
  BY <1>3 DEF ApprovalsMove
<1> QED BY <1>1, <1>2, <1>3 DEF Request, ReadApproval, CheckApproved, FindJob, InsertJob,
        RequeueJob, ReadSteps, WriteSteps, SetRecommendationState, Oppose, RetryJob

\* Approvals are never withdrawn, and each moves forward.
LEMMA ApprovalsForward ==
    ASSUME NEW S, MembersTypeOK(S), ApprovalsMove
    PROVE  /\ approval' \in Seq(ApprovalStates) /\ Len(approval') <= MaxApprovals
           /\ Requested \subseteq Requested' /\ Requested' = 1 .. Len(approval')
           /\ \A id \in Requested :
                 approval'[id] # approval[id] => <<approval[id], approval'[id]>> \in ApprovalMoves
           /\ \A id \in Requested' \ Requested :
                 approval'[id] = "requested" /\ \A i \in Requested : ~ Active(i)
<1>0. /\ approval \in Seq(ApprovalStates) /\ Len(approval) \in Nat /\ MaxApprovals \in Nat
      /\ Requested = 1 .. Len(approval) /\ Len(approval) <= MaxApprovals
      /\ \A id \in Requested : approval[id] \in ApprovalStates
  BY MemberTypes DEF MembersTypeOK
<1>1. CASE UNCHANGED approval
  BY <1>0, <1>1 DEF Requested
<1>2. CASE /\ \A id \in Requested : ~ Active(id)
           /\ Len(approval) < MaxApprovals
           /\ approval' = Append(approval, "requested")
  <2>1. "requested" \in ApprovalStates
    BY DEF ApprovalStates
  <2>2. /\ approval' \in Seq(ApprovalStates) /\ Len(approval') = Len(approval) + 1
        /\ \A id \in 1 .. Len(approval) : approval'[id] = approval[id]
        /\ approval'[Len(approval) + 1] = "requested"
    BY <1>0, <1>2, <2>1, AppendProperties
  <2>3. DOMAIN approval' = 1 .. Len(approval')
    BY <2>2, LenProperties
  <2>4. Requested' = 1 .. (Len(approval) + 1)
    BY <2>2, <2>3 DEF Requested
  <2>5. \A id \in Requested' \ Requested : id = Len(approval) + 1
    BY <1>0, <2>4
  <2>6. Len(approval') <= MaxApprovals
    BY <1>0, <1>2, <2>2
  <2>7. Requested \subseteq Requested' /\ Requested' = 1 .. Len(approval')
    BY <1>0, <2>2, <2>4
  <2> QED BY <1>0, <1>2, <2>2, <2>5, <2>6, <2>7
<1>3. ASSUME NEW id \in Requested, NEW to \in ApprovalStates,
             <<approval[id], to>> \in ApprovalMoves, approval' = [approval EXCEPT ![id] = to]
      PROVE  /\ approval' \in Seq(ApprovalStates) /\ Len(approval') <= MaxApprovals
             /\ Requested \subseteq Requested' /\ Requested' = 1 .. Len(approval')
             /\ \A i \in Requested :
                   approval'[i] # approval[i] => <<approval[i], approval'[i]>> \in ApprovalMoves
             /\ Requested' \ Requested = {}
  <2>1. /\ approval' \in Seq(ApprovalStates) /\ Len(approval') = Len(approval)
        /\ \A i \in 1 .. Len(approval) : approval'[i] = IF i = id THEN to ELSE approval[i]
    BY <1>0, <1>3, ExceptSeq
  <2>2. Requested' = 1 .. Len(approval')
    BY <2>1, LenProperties DEF Requested
  <2> QED BY <1>0, <1>3, <2>1, <2>2
<1> QED BY <1>1, <1>2, <1>3 DEF ApprovalsMove

LEMMA OneActiveKept ==
    ASSUME NEW S, MembersTypeOK(S), OneActiveApproval, ApprovalsMove
    PROVE  OneActiveApproval'
<1>1. /\ Requested \subseteq Requested' /\ Requested' = 1 .. Len(approval')
      /\ \A id \in Requested :
            approval'[id] # approval[id] => <<approval[id], approval'[id]>> \in ApprovalMoves
      /\ \A id \in Requested' \ Requested :
            approval'[id] = "requested" /\ \A i \in Requested : ~ Active(i)
  BY ApprovalsForward
<1>2. \A id \in Requested : Active(id)' => Active(id)
  BY <1>1 DEF Active, ApprovalMoves
<1>3. \A i, j \in Requested' \ Requested : i = j
  <2>1. CASE UNCHANGED approval
    BY <2>1 DEF Requested
  <2>2. CASE approval' = Append(approval, "requested")
    <3>1. /\ approval \in Seq(ApprovalStates) /\ Requested = 1 .. Len(approval) /\ Len(approval) \in Nat
      BY MemberTypes
    <3>2. "requested" \in ApprovalStates
      BY DEF ApprovalStates
    <3>3. Len(approval') = Len(approval) + 1
      BY <2>2, <3>1, <3>2, AppendProperties
    <3> QED BY <1>1, <3>1, <3>3
  <2>3. CASE \E id \in Requested : \E to \in ApprovalStates : approval' = [approval EXCEPT ![id] = to]
    BY <2>3 DEF Requested
  <2> QED BY <2>1, <2>2, <2>3 DEF ApprovalsMove
<1>4. SUFFICES ASSUME NEW i \in Requested', NEW j \in Requested', Active(i)', Active(j)'
               PROVE  i = j
  BY DEF OneActiveApproval
<1>5. CASE i \in Requested /\ j \in Requested
  BY <1>2, <1>4, <1>5 DEF OneActiveApproval
<1>6. CASE i \notin Requested /\ j \notin Requested
  BY <1>3, <1>6
<1>7. CASE i \notin Requested /\ j \in Requested
  BY <1>1, <1>2, <1>4, <1>7
<1>8. CASE i \in Requested /\ j \notin Requested
  BY <1>1, <1>2, <1>4, <1>8
<1> QED BY <1>5, <1>6, <1>7, <1>8

-----------------------------------------------------------------------------
(* The invariant of the members' side.                                     *)

\* What a request may do to its own state.
Moved(S, m) ==
    /\ member'[m] \in MemberState(S)
    /\ \A o \in Members \ {m} : member'[o] = member[o]
    /\ member' \in [Members -> MemberState(S)]
    /\ member'[m].pc # "idle" => member'[m].id \in Requested'
    /\ member'[m].pc = "update" => <<member'[m].seen, member'[m].to>> \in ApprovalMoves
    /\ member'[m].pc = "write_steps" => member'[m].copy = <<step>> /\ Len(member'[m].copy) = 1
    /\ calls' \in 0 .. MaxCalls

LEMMA MovedTo ==
    ASSUME NEW S, MembersTypeOK(S), step \in S, NEW m \in Members, NEW local \in MemberState(S),
           member' = [member EXCEPT ![m] = local],
           calls' \in {calls, calls + 1}, calls' # calls => calls < MaxCalls,
           local.pc # "idle" => local.id \in Requested',
           local.pc = "update" => <<local.seen, local.to>> \in ApprovalMoves,
           local.pc = "write_steps" => local.copy = <<step>>
    PROVE  Moved(S, m)
<1>1. /\ member \in [Members -> MemberState(S)] /\ calls \in 0 .. MaxCalls /\ MaxCalls \in Nat
      /\ Len(<<step>>) = 1
  BY ApprovalsAssumption, OneStep DEF MembersTypeOK, ApprovalsAssumption
<1>2. member'[m] = local /\ \A o \in Members \ {m} : member'[o] = member[o]
  BY <1>1
<1>3. member' \in [Members -> MemberState(S)]
  BY <1>1
<1>4. calls' \in 0 .. MaxCalls
  BY <1>1
<1> QED BY <1>1, <1>2, <1>3, <1>4 DEF Moved

LEMMA IdleMemberType ==
    ASSUME NEW S
    PROVE  IdleMember \in MemberState(S) /\ IdleMember.pc = "idle"
<1>1. 0 \in 0 .. MaxApprovals /\ <<>> \in Seq(S)
  BY ApprovalsAssumption DEF ApprovalsAssumption
<1> QED BY <1>1 DEF IdleMember, MemberState

LEMMA MovedByGoto ==
    ASSUME NEW S, MembersTypeOK(S), step \in S, NEW m \in Members, RequestOK(m),
           NEW pc \in {"enqueue", "find", "insert", "requeue", "read_steps"}, Then(m, pc),
           member[m].pc # "idle", UNCHANGED calls, Requested \subseteq Requested'
    PROVE  Moved(S, m)
<1> DEFINE local == [member[m] EXCEPT !.pc = pc]
<1>0. member[m] \in MemberState(S)
  BY MemberTypes
<1>1. local \in MemberState(S) /\ local.pc = pc /\ local.id = member[m].id
  BY <1>0 DEF MemberState
<1>2. member' = [member EXCEPT ![m] = local]
  BY DEF Then
<1>3. local.id \in Requested'
  BY <1>1 DEF RequestOK
<1> HIDE DEF local
<1> QED BY <1>1, <1>2, <1>3, MovedTo

LEMMA MovedByCall ==
    ASSUME NEW S, MembersTypeOK(S), step \in S, NEW m \in Members,
           NEW id \in Requested', id \in 0 .. MaxApprovals, NEW to \in ApprovalStates \cup {""},
           NEW pc \in {"decide", "requeue"},
           Call(m, [IdleMember EXCEPT !.pc = pc, !.id = id, !.to = to])
    PROVE  Moved(S, m)
<1> DEFINE local == [IdleMember EXCEPT !.pc = pc, !.id = id, !.to = to]
<1>1. IdleMember \in MemberState(S)
  BY IdleMemberType
<1>2. local \in MemberState(S) /\ local.pc = pc /\ local.id = id
  BY <1>1 DEF MemberState
<1>3. member' = [member EXCEPT ![m] = local] /\ calls' = calls + 1 /\ calls < MaxCalls
  BY DEF Call
<1> HIDE DEF local
<1> QED BY <1>2, <1>3, MovedTo

LEMMA MemberMoves ==
    ASSUME NEW S, MembersInv(S), step \in S, NEW m \in Members, Request(m)
    PROVE  Moved(S, m)
<1>0. /\ MembersTypeOK(S) /\ RequestOK(m) /\ JobsRequested /\ member[m] \in MemberState(S)
      /\ Requested \subseteq Requested' /\ \A id \in Requested : id \in 0 .. MaxApprovals
  BY MemberTypes, MovesByRequest, ApprovalsForward DEF MembersInv
<1>1. CASE Return(m) /\ UNCHANGED calls
  BY <1>0, <1>1, IdleMemberType, MovedTo DEF Return
<1>2. CASE \E pc \in {"enqueue", "find", "insert", "requeue", "read_steps"} :
            Then(m, pc) /\ member[m].pc # "idle" /\ UNCHANGED calls
  BY <1>0, <1>2, MovedByGoto
<1>3. CASE RequestApproval(m)
  <2>1. CASE \E id \in Requested :
               Call(m, [IdleMember EXCEPT !.pc = "decide", !.id = id, !.to = "approved"])
    <3>1. PICK id \in Requested :
               Call(m, [IdleMember EXCEPT !.pc = "decide", !.id = id, !.to = "approved"])
      BY <2>1
    <3>2. id \in Requested' /\ id \in 0 .. MaxApprovals /\ "approved" \in ApprovalStates \cup {""}
      BY <1>0 DEF ApprovalStates
    <3> QED BY <1>0, <3>1, <3>2, MovedByCall
  <2>2. CASE /\ Len(approval) < MaxApprovals /\ approval' = Append(approval, "requested")
             /\ Call(m, [IdleMember EXCEPT !.pc = "decide", !.id = Len(approval) + 1, !.to = "approved"])
    <3> DEFINE id == Len(approval) + 1
    <3>1. id \in Requested' /\ id \in 0 .. MaxApprovals /\ "approved" \in ApprovalStates \cup {""}
      <4>1. approval \in Seq(ApprovalStates) /\ Len(approval) \in Nat /\ MaxApprovals \in Nat
            /\ "requested" \in ApprovalStates
        BY <1>0, MemberTypes DEF ApprovalStates
      <4>2. approval' \in Seq(ApprovalStates) /\ Len(approval') = Len(approval) + 1
        BY <2>2, <4>1, AppendProperties
      <4>3. Requested' = 1 .. (Len(approval) + 1)
        BY <4>2, LenProperties DEF Requested
      <4> QED BY <2>2, <4>1, <4>3 DEF ApprovalStates
    <3>2. Call(m, [IdleMember EXCEPT !.pc = "decide", !.id = id, !.to = "approved"])
      BY <2>2
    <3> HIDE DEF id
    <3> QED BY <1>0, <3>1, <3>2, MovedByCall
  <2> QED BY <1>3, <2>1, <2>2 DEF RequestApproval
<1>4. CASE \E id \in Requested : Oppose(m, id)
  <2>1. PICK id \in Requested : Oppose(m, id)
    BY <1>4
  <2>2. PICK to \in {"rejected", "revoked"} :
            Call(m, [IdleMember EXCEPT !.pc = "decide", !.id = id, !.to = to])
    BY <2>1 DEF Oppose
  <2>3. id \in Requested' /\ id \in 0 .. MaxApprovals /\ to \in ApprovalStates \cup {""}
    BY <1>0 DEF ApprovalStates
  <2> QED BY <1>0, <2>2, <2>3, MovedByCall
<1>5. CASE ReadApproval(m)
  <2> DEFINE updating == [member[m] EXCEPT !.pc = "update", !.seen = approval[member[m].id]]
             enqueuing == [member[m] EXCEPT !.pc = "enqueue"]
  <2>0. member[m].id \in Requested /\ approval[member[m].id] \in ApprovalStates /\ UNCHANGED calls
    BY <1>0, <1>5, MemberTypes DEF ReadApproval, RequestOK
  <2>1. updating \in MemberState(S) /\ updating.pc = "update" /\ updating.id = member[m].id
        /\ updating.seen = approval[member[m].id] /\ updating.to = member[m].to
    BY <1>0, <2>0 DEF MemberState
  <2>2. enqueuing \in MemberState(S) /\ enqueuing.pc = "enqueue" /\ enqueuing.id = member[m].id
    BY <1>0 DEF MemberState
  <2>3. \/ member' = [member EXCEPT ![m] = enqueuing]
        \/ /\ <<approval[member[m].id], member[m].to>> \in ApprovalMoves
           /\ member' = [member EXCEPT ![m] = updating]
        \/ member' = [member EXCEPT ![m] = IdleMember]
    BY <1>5 DEF ReadApproval
  <2> HIDE DEF updating, enqueuing
  <2>4. CASE member' = [member EXCEPT ![m] = enqueuing]
    BY <1>0, <2>0, <2>2, <2>4, MovedTo
  <2>5. CASE /\ <<approval[member[m].id], member[m].to>> \in ApprovalMoves
             /\ member' = [member EXCEPT ![m] = updating]
    BY <1>0, <2>0, <2>1, <2>5, MovedTo
  <2>6. CASE member' = [member EXCEPT ![m] = IdleMember]
    BY <1>0, <2>0, <2>6, IdleMemberType, MovedTo
  <2> QED BY <2>3, <2>4, <2>5, <2>6
<1>6. CASE ReadSteps(m)
  <2> DEFINE reading == [member[m] EXCEPT !.pc = "write_steps", !.copy = <<step>>]
  <2>0. member[m].id \in Requested /\ UNCHANGED calls /\ <<step>> \in Seq(S)
    BY <1>0, <1>6, OneStep DEF ReadSteps, RequestOK
  <2>1. reading \in MemberState(S) /\ reading.pc = "write_steps" /\ reading.id = member[m].id
        /\ reading.copy = <<step>>
    BY <1>0, <2>0 DEF MemberState
  <2>2. member' = [member EXCEPT ![m] = reading]
    BY <1>0, <1>6 DEF ReadSteps, MembersTypeOK
  <2> HIDE DEF reading
  <2> QED BY <1>0, <2>0, <2>1, <2>2, MovedTo
<1>7. CASE SetRecommendationState(m)
  BY <1>0, <1>7, IdleMemberType, MovedTo DEF SetRecommendationState, Call
<1>8. CASE \E id \in Ids : RetryJob(m, id)
  <2>1. PICK id \in Ids : RetryJob(m, id)
    BY <1>8
  <2>2. Call(m, [IdleMember EXCEPT !.pc = "requeue", !.id = id]) /\ id \in Requested
    BY <1>0, <2>1 DEF RetryJob, CanRetry, JobsRequested
  <2> DEFINE local == [IdleMember EXCEPT !.pc = "requeue", !.id = id]
  <2>3. IdleMember \in MemberState(S)
    BY IdleMemberType
  <2>4. local \in MemberState(S) /\ local.pc = "requeue" /\ local.id = id
    BY <1>0, <2>2, <2>3 DEF MemberState
  <2>5. member' = [member EXCEPT ![m] = local] /\ calls' = calls + 1 /\ calls < MaxCalls
    BY <2>2 DEF Call
  <2> HIDE DEF local
  <2> QED BY <1>0, <2>2, <2>4, <2>5, MovedTo
<1>9. CASE UpdateApproval(m)
  BY <1>0, <1>1, <1>2, <1>9 DEF UpdateApproval, MayUpdate
<1>10. CASE CheckApproved(m)
  BY <1>0, <1>1, <1>2, <1>10 DEF CheckApproved
<1>11. CASE InsertJob(m)
  BY <1>0, <1>1, <1>2, <1>11 DEF InsertJob
<1>12. CASE WriteSteps(m)
  BY <1>0, <1>1, <1>12 DEF WriteSteps
<1>13. CASE FindJob(m) \/ RequeueJob(m)
  BY <1>0, <1>1, <1>2, <1>13 DEF FindJob, RequeueJob
<1> QED BY <1>3, <1>4, <1>5, <1>6, <1>7, <1>8, <1>9, <1>10, <1>11, <1>12, <1>13 DEF Request

\* What a request may do to the jobs, the step and the recommendation.
LEMMA RestByRequest ==
    ASSUME NEW S, MembersInv(S), NEW m \in Members, Request(m)
    PROVE  /\ job' \in [Ids -> [state : {"absent", "queued", "running", "failed", "succeeded"}, phase : Nat]]
           /\ \A id \in Ids : job'[id].phase = job[id].phase
           /\ \A id \in Ids : job'[id].state # "absent" => id \in Requested
           /\ rec' \in {"active", "dismissed", "accepted"} /\ (rec' = "accepted" => rec = "accepted")
           /\ \/ UNCHANGED step
              \/ /\ member[m].pc = "write_steps"
                 /\ step' = [member[m].copy[1] EXCEPT !.state = "generating"]
<1>0. /\ MembersTypeOK(S) /\ RequestOK(m) /\ JobsRequested /\ Requested \subseteq Ids
      /\ job \in [Ids -> [state : {"absent", "queued", "running", "failed", "succeeded"}, phase : Nat]]
      /\ rec \in {"active", "dismissed", "accepted"}
  BY MemberTypes DEF MembersInv, MembersTypeOK
<1>1. \/ UNCHANGED job
      \/ \E id \in Requested : job' = [job EXCEPT ![id].state = "queued"]
  <2>1. CASE InsertJob(m)
    BY <1>0, <2>1 DEF InsertJob, Queued, RequestOK
  <2>2. CASE RequeueJob(m)
    BY <1>0, <2>2 DEF RequeueJob, Queued, RequestOK
  <2>3. CASE UNCHANGED job
    BY <2>3
  <2> QED BY <2>1, <2>2, <2>3 DEF Request, RequestApproval, ReadApproval, UpdateApproval,
          CheckApproved, FindJob, ReadSteps, WriteSteps, SetRecommendationState, Oppose, RetryJob
<1>2. /\ job' \in [Ids -> [state : {"absent", "queued", "running", "failed", "succeeded"}, phase : Nat]]
      /\ \A id \in Ids : job'[id].phase = job[id].phase
      /\ \A id \in Ids : job'[id].state # "absent" => id \in Requested
  <2>1. CASE UNCHANGED job
    BY <1>0, <2>1 DEF JobsRequested
  <2>2. ASSUME NEW id \in Requested, job' = [job EXCEPT ![id].state = "queued"]
        PROVE  /\ job' \in [Ids -> [state : {"absent", "queued", "running", "failed", "succeeded"}, phase : Nat]]
               /\ \A i \in Ids : job'[i].phase = job[i].phase
               /\ \A i \in Ids : job'[i].state # "absent" => i \in Requested
    <3> DEFINE row == [job[id] EXCEPT !.state = "queued"]
    <3>1. /\ row \in [state : {"absent", "queued", "running", "failed", "succeeded"}, phase : Nat]
          /\ row.phase = job[id].phase /\ id \in Ids
      BY <1>0
    <3>2. job' = [job EXCEPT ![id] = row]
      BY <2>2
    <3> HIDE DEF row
    <3> QED BY <1>0, <3>1, <3>2 DEF JobsRequested
  <2> QED BY <1>1, <2>1, <2>2
<1>3. rec' \in {"active", "dismissed", "accepted"} /\ (rec' = "accepted" => rec = "accepted")
  <2>1. CASE SetRecommendationState(m)
    BY <2>1 DEF SetRecommendationState, RecommendationMoves
  <2>2. CASE UNCHANGED rec
    BY <1>0, <2>2
  <2> QED BY <2>1, <2>2 DEF Request, RequestApproval, ReadApproval, UpdateApproval, CheckApproved,
          FindJob, InsertJob, RequeueJob, ReadSteps, WriteSteps, Oppose, RetryJob
<1>4. \/ UNCHANGED step
      \/ /\ member[m].pc = "write_steps"
         /\ step' = [member[m].copy[1] EXCEPT !.state = "generating"]
  BY DEF Request, RequestApproval, ReadApproval, UpdateApproval, CheckApproved, FindJob, InsertJob,
     RequeueJob, ReadSteps, WriteSteps, SetRecommendationState, Oppose, RetryJob
<1> QED BY <1>2, <1>3, <1>4

LEMMA MembersStep ==
    ASSUME NEW S, MembersInv(S), step \in S, NEW m \in Members, Request(m)
    PROVE  MembersInv(S)'
<1>0. MembersTypeOK(S) /\ OneActiveApproval /\ \A o \in Members : RequestOK(o)
  BY DEF MembersInv
<1>1. ApprovalsMove /\ Moved(S, m)
  BY MovesByRequest, MemberMoves
<1>2. /\ approval' \in Seq(ApprovalStates) /\ Len(approval') <= MaxApprovals
      /\ Requested \subseteq Requested'
  BY <1>0, <1>1, ApprovalsForward
<1>3. /\ job' \in [Ids -> [state : {"absent", "queued", "running", "failed", "succeeded"}, phase : Nat]]
      /\ \A id \in Ids : job'[id].state # "absent" => id \in Requested
      /\ rec' \in {"active", "dismissed", "accepted"}
  BY RestByRequest
<1>4. MembersTypeOK(S)'
  BY <1>1, <1>2, <1>3 DEF MembersTypeOK, Moved
<1>5. OneActiveApproval'
  BY <1>0, <1>1, OneActiveKept
<1>6. JobsRequested'
  BY <1>2, <1>3 DEF JobsRequested
<1>7. ASSUME NEW o \in Members PROVE RequestOK(o)'
  <2>1. CASE o = m
    BY <1>1, <2>1 DEF RequestOK, Moved
  <2>2. CASE o # m
    BY <1>0, <1>1, <1>2, <2>2 DEF RequestOK, Moved
  <2> QED BY <2>1, <2>2
<1> QED BY <1>4, <1>5, <1>6, <1>7 DEF MembersInv

\* An executor touches the jobs and the recommendation only.
LEMMA MembersKept ==
    ASSUME NEW S, MembersInv(S), UNCHANGED <<approval, member, calls>>,
           job' \in [Ids -> [state : {"absent", "queued", "running", "failed", "succeeded"}, phase : Nat]],
           \A id \in Ids : job'[id].state # "absent" => id \in Requested,
           rec' \in {"active", "dismissed", "accepted"}
    PROVE  MembersInv(S)'
<1>1. MembersTypeOK(S)'
  BY DEF MembersInv, MembersTypeOK
<1>2. OneActiveApproval'
  BY DEF MembersInv, OneActiveApproval, Active, Requested
<1>3. JobsRequested'
  BY DEF JobsRequested, Requested
<1>4. \A m \in Members : RequestOK(m)'
  BY DEF MembersInv, RequestOK, Requested
<1> QED BY <1>1, <1>2, <1>3, <1>4 DEF MembersInv

LEMMA MembersStart ==
    ASSUME NEW S, MembersInit
    PROVE  MembersInv(S)
<1>1. /\ approval = <<>> /\ job = [id \in Ids |-> NoJob] /\ rec = "active"
      /\ member = [m \in Members |-> IdleMember] /\ calls = 0
  BY DEF MembersInit
<1>2. approval \in Seq(ApprovalStates) /\ Len(approval) = 0 /\ Requested = {}
  <2>1. approval \in Seq(ApprovalStates) /\ Len(approval) = 0
    BY <1>1, EmptySeq
  <2>2. Requested = 1 .. 0
    BY <2>1, LenProperties DEF Requested
  <2> QED BY <2>1, <2>2
<1>3. IdleMember \in MemberState(S) /\ IdleMember.pc = "idle"
  BY IdleMemberType
<1>4. MaxApprovals \in Nat /\ MaxCalls \in Nat
  BY ApprovalsAssumption DEF ApprovalsAssumption
<1>5. MembersTypeOK(S)
  BY <1>1, <1>2, <1>3, <1>4 DEF MembersTypeOK, NoJob
<1>6. OneActiveApproval /\ JobsRequested
  BY <1>1, <1>2 DEF OneActiveApproval, JobsRequested, NoJob
<1>7. \A m \in Members : RequestOK(m)
  BY <1>1, <1>3 DEF RequestOK
<1> QED BY <1>5, <1>6, <1>7 DEF MembersInv
=============================================================================
