-------------------------- MODULE GenerationProofs --------------------------
(***************************************************************************)
(* Generated pull requests: what a revocation stops, what the audit knows, *)
(* and that a step is done because its pull request was merged.            *)
(***************************************************************************)
EXTENDS Generation, ApprovalsProofs

JobRows == [state : {"absent", "queued", "running", "failed", "succeeded"}, phase : Nat]

PhaseNames == {"plan", "compose_patch", "handoff"}

LEMMA Names ==
    /\ DOMAIN Phases = 1 .. 3 /\ Len(Phases) = 3 /\ \A n \in 1 .. 3 : Phases[n] \in PhaseNames
    /\ {Phases[n] : n \in DOMAIN Phases} = PhaseNames
    /\ DOMAIN Writes = 1 .. 3 /\ Kinds = {"branch", "file", "pr"}
    /\ Writes[1] = "branch" /\ Writes[2] = "file" /\ Writes[3] = "pr"
<1>1. DOMAIN Phases = 1 .. 3 /\ Len(Phases) = 3
  BY DEF Phases
<1>2. Phases[1] = "plan" /\ Phases[2] = "compose_patch" /\ Phases[3] = "handoff"
  BY DEF Phases
<1>3. {Phases[n] : n \in DOMAIN Phases} = PhaseNames
  BY <1>1, <1>2 DEF PhaseNames
<1>4. DOMAIN Writes = 1 .. 3 /\ Writes[1] = "branch" /\ Writes[2] = "file" /\ Writes[3] = "pr"
  BY DEF Writes
<1>5. Kinds = {"branch", "file", "pr"}
  BY <1>4 DEF Kinds
<1> QED BY <1>1, <1>2, <1>3, <1>4, <1>5 DEF PhaseNames

LEMMA GenTypes ==
    ASSUME TypeOK
    PROVE  /\ \A t \in Ticks : tick[t] \in TickState
           /\ \A t \in Ticks : tick[t].n \in 1 .. 3 /\ Kind(t) \in Kinds
           /\ \A id \in Ids : job[id] \in JobRows /\ job[id].phase \in 1 .. 4
           /\ MaxFaults \in Nat /\ MaxPrs \in Nat /\ 0 \notin Ids
           /\ IdleTick \in TickState /\ IdleTick.pc = "idle" /\ IdleTick.id = 0 /\ IdleTick.pr = 0
<1>1. \A t \in Ticks : tick[t] \in TickState
  BY DEF TypeOK
<1>2. \A t \in Ticks : tick[t].n \in 1 .. 3 /\ Kind(t) \in Kinds
  BY <1>1, Names DEF TickState, Kind, Kinds
<1>3. \A id \in Ids : job[id] \in JobRows /\ job[id].phase \in 1 .. 4
  <2>1. Len(Phases) = 3
    BY Names
  <2>2. job \in [Ids -> JobRows] /\ \A id \in Ids : job[id].phase \in 1 .. Len(Phases) + 1
    BY DEF TypeOK, MembersTypeOK, JobRows
  <2> QED BY <2>1, <2>2
<1>4. MaxFaults \in Nat /\ MaxPrs \in Nat /\ 0 \notin Ids
  BY GenerationAssumption DEF GenerationAssumption, Ids
<1>5. IdleTick \in TickState /\ IdleTick.pc = "idle" /\ IdleTick.id = 0 /\ IdleTick.pr = 0
  <2>1. 0 \in 0 .. MaxApprovals /\ <<>> \in Seq(Steps)
    BY ApprovalsAssumption DEF ApprovalsAssumption
  <2> QED BY <2>1, Names DEF IdleTick, TickState
<1> QED BY <1>1, <1>2, <1>3, <1>4, <1>5

-----------------------------------------------------------------------------
(* What a step of an executor does to its own state and to the jobs.       *)

\* Whose job it is: nobody's, the same, or one that nobody has.
WorksOn(t) ==
    \/ tick'[t] = IdleTick
    \/ tick[t].pc # "idle" /\ tick'[t].id = Mine(t)
    \/ /\ tick'[t].id \in Ids /\ job[tick'[t].id].state # "absent"
       /\ \A u \in Ticks : Mine(u) # tick'[t].id

\* How it comes to hold what its next step relies on.
Outcome(t) ==
    /\ tick' \in [Ticks -> TickState] /\ \A u \in Ticks \ {t} : tick'[u] = tick[u]
    /\ WorksOn(t)
    /\ tick'[t].pc = "insert" => AssertApproved(t) /\ Approved(Mine(t)) /\ tick'[t].id = Mine(t)
    /\ tick'[t].pc = "op" => InsertWrite(t) /\ tick'[t].id = Mine(t) /\ tick'[t].n = tick[t].n
    /\ tick'[t].pc = "mark" => Perform(t) /\ tick'[t].n = tick[t].n
    /\ tick'[t].pc = "write_steps" => ReadStep(t) /\ tick'[t].copy = <<step>>
    /\ tick'[t].pc \in {"read_steps", "write_steps"} => tick'[t].set # ""
    /\ tick'[t].pr \in {0, tick[t].pr, write["pr"].pr} \/ Perform(t)

Elsewhere == {"idle", "done", "read_steps", "find", "assert"} \cup PhaseNames

LEMMA OutcomeElsewhere ==
    ASSUME TypeOK, NEW t \in Ticks, NEW new \in TickState, tick' = [tick EXCEPT ![t] = new],
           new.pc \in Elsewhere, new.pc = "read_steps" => new.set # "",
           new.pr \in {0, tick[t].pr, write["pr"].pr},
           \/ new = IdleTick
           \/ tick[t].pc # "idle" /\ new.id = Mine(t)
           \/ /\ new.id \in Ids /\ job[new.id].state # "absent"
              /\ \A u \in Ticks : Mine(u) # new.id
    PROVE  Outcome(t)
<1>1. /\ tick' \in [Ticks -> TickState] /\ \A u \in Ticks \ {t} : tick'[u] = tick[u]
      /\ tick'[t] = new
  BY DEF TypeOK
<1> QED BY <1>1 DEF Outcome, WorksOn, Elsewhere, PhaseNames

LEMMA OutcomeIdle ==
    ASSUME TypeOK, NEW t \in Ticks, tick' = [tick EXCEPT ![t] = IdleTick]
    PROVE  Outcome(t)
BY GenTypes, OutcomeElsewhere DEF Elsewhere

LEMMA OutcomeGo ==
    ASSUME TypeOK, NEW t \in Ticks, tick[t].pc # "idle", NEW pc \in {"done", "find", "assert"},
           Go(t, pc)
    PROVE  Outcome(t)
<1> DEFINE new == [tick[t] EXCEPT !.pc = pc]
<1>0. tick[t] \in TickState
  BY GenTypes
<1>1. new \in TickState /\ new.pc = pc /\ new.id = Mine(t) /\ new.pr = tick[t].pr
  BY <1>0 DEF TickState, Mine
<1>2. tick' = [tick EXCEPT ![t] = new]
  BY DEF Go
<1> HIDE DEF new
<1> QED BY <1>1, <1>2, OutcomeElsewhere DEF Elsewhere

LEMMA OutcomeSet ==
    ASSUME TypeOK, NEW t \in Ticks, tick[t].pc # "idle",
           NEW what \in {"generating", "ready", "failed"}, SetStep(t, what)
    PROVE  Outcome(t)
<1> DEFINE new == [tick[t] EXCEPT !.pc = "read_steps", !.set = what]
<1>0. tick[t] \in TickState
  BY GenTypes
<1>1. new \in TickState /\ new.pc = "read_steps" /\ new.id = Mine(t) /\ new.pr = tick[t].pr
      /\ new.set = what
  BY <1>0 DEF TickState, Mine
<1>2. tick' = [tick EXCEPT ![t] = new]
  BY DEF SetStep, TypeOK
<1> HIDE DEF new
<1> QED BY <1>1, <1>2, OutcomeElsewhere DEF Elsewhere

LEMMA OutcomeWritten ==
    ASSUME TypeOK, NEW t \in Ticks, tick[t].pc # "idle", NEW pr \in Nat, Written(t, pr),
           pr \in {tick[t].pr, write["pr"].pr} \/ Kind(t) # "pr"
    PROVE  Outcome(t)
<1>0. tick[t] \in TickState /\ tick[t].n \in 1 .. 3
  BY GenTypes
<1>1. CASE Kind(t) = "pr"
  <2> DEFINE new == [tick[t] EXCEPT !.pc = "read_steps", !.set = "link", !.pr = pr]
  <2>1. new \in TickState /\ new.pc = "read_steps" /\ new.id = Mine(t) /\ new.pr = pr
        /\ new.set = "link"
    BY <1>0 DEF TickState, Mine
  <2>2. tick' = [tick EXCEPT ![t] = new]
    BY <1>1 DEF Written, TypeOK
  <2> HIDE DEF new
  <2> QED BY <1>1, <2>1, <2>2, OutcomeElsewhere DEF Elsewhere
<1>2. CASE Kind(t) # "pr"
  <2> DEFINE new == [tick[t] EXCEPT !.pc = "find", !.n = tick[t].n + 1]
  <2>1. tick[t].n + 1 \in DOMAIN Writes
    BY <1>0, <1>2, Names DEF Kind
  <2>2. new \in TickState /\ new.pc = "find" /\ new.id = Mine(t) /\ new.pr = tick[t].pr
    BY <1>0, <2>1 DEF TickState, Mine
  <2>3. tick' = [tick EXCEPT ![t] = new]
    BY <1>2 DEF Written, TypeOK
  <2> HIDE DEF new
  <2> QED BY <1>2, <2>2, <2>3, OutcomeElsewhere DEF Elsewhere
<1> QED BY <1>1, <1>2

LEMMA OutcomeStarts ==
    ASSUME TypeOK, NEW t \in Ticks, NEW pc \in PhaseNames \cup {"done"},
           NEW id \in 0 .. MaxApprovals, tick' = [tick EXCEPT ![t] = [IdleTick EXCEPT !.pc = pc, !.id = id]],
           \/ tick[t].pc # "idle" /\ id = Mine(t)
           \/ id \in Ids /\ job[id].state # "absent" /\ \A u \in Ticks : Mine(u) # id
    PROVE  Outcome(t)
<1> DEFINE new == [IdleTick EXCEPT !.pc = pc, !.id = id]
<1>1. new \in TickState /\ new.pc = pc /\ new.id = id /\ new.pr = 0
  BY GenTypes, Names DEF TickState
<1>2. tick' = [tick EXCEPT ![t] = new]
  OBVIOUS
<1>3. new.pc \in Elsewhere /\ new.pc # "read_steps"
  BY <1>1 DEF Elsewhere, PhaseNames
<1> HIDE DEF new
<1> QED BY <1>1, <1>2, <1>3, OutcomeElsewhere

LEMMA OutcomeResumes ==
    ASSUME TypeOK, NEW t \in Ticks, NEW phase, NEW id \in 0 .. MaxApprovals,
           tick' = [tick EXCEPT ![t] = Resumed(id, phase)],
           \/ tick[t].pc # "idle" /\ id = Mine(t)
           \/ id \in Ids /\ job[id].state # "absent" /\ \A u \in Ticks : Mine(u) # id
    PROVE  Outcome(t)
<1> DEFINE pc == IF phase \in DOMAIN Phases THEN Phases[phase] ELSE "done"
<1>1. pc \in PhaseNames \cup {"done"}
  BY Names
<1>2. tick' = [tick EXCEPT ![t] = [IdleTick EXCEPT !.pc = pc, !.id = id]]
  BY DEF Resumed
<1> HIDE DEF pc
<1> QED BY <1>1, <1>2, OutcomeStarts

LEMMA MineRequested ==
    ASSUME TypeOK, TicksOK, NEW t \in Ticks, tick[t].pc # "idle"
    PROVE  Mine(t) \in Requested /\ Mine(t) \in Ids /\ Mine(t) # 0
<1>1. MembersTypeOK(Steps)
  BY DEF TypeOK
<1> QED BY <1>1, MemberTypes, GenTypes DEF TicksOK

LEMMA OutcomeStep ==
    ASSUME TypeOK, TicksOK, NEW t \in Ticks, Execute(t)
    PROVE  Outcome(t)
<1>0. /\ tick[t] \in TickState /\ tick[t].n \in 1 .. 3 /\ Kind(t) \in Kinds /\ tick \in [Ticks -> TickState]
      /\ \A id \in Ids : job[id] \in JobRows /\ job[id].phase \in 1 .. 4
      /\ \A n \in 1 .. 3 : Phases[n] \in PhaseNames
      /\ DOMAIN Phases = 1 .. 3 /\ Len(Phases) = 3
      /\ \A k \in Kinds : write[k] \in [state : {"absent", "planned", "failed", "succeeded"}, pr : Nat]
      /\ Mine(t) \in 0 .. MaxApprovals /\ step \in Steps
      /\ \A id \in Ids : id \in 0 .. MaxApprovals
  <2>1. tick \in [Ticks -> TickState] /\ step \in Steps
        /\ \A k \in Kinds : write[k] \in [state : {"absent", "planned", "failed", "succeeded"}, pr : Nat]
    BY DEF TypeOK
  <2>2. /\ tick[t] \in TickState /\ tick[t].n \in 1 .. 3 /\ Kind(t) \in Kinds
        /\ \A id \in Ids : job[id] \in JobRows /\ job[id].phase \in 1 .. 4
    BY GenTypes
  <2>3. Mine(t) \in 0 .. MaxApprovals
    BY <2>2 DEF Mine, TickState
  <2>4. \A id \in Ids : id \in 0 .. MaxApprovals
    BY ApprovalsAssumption DEF Ids, ApprovalsAssumption
  <2> QED BY <2>1, <2>2, <2>3, <2>4, Names
<1>1. CASE tick' = [tick EXCEPT ![t] = IdleTick]
  BY <1>1, OutcomeIdle
<1>2. CASE tick[t].pc # "idle" /\ \E pc \in {"done", "find", "assert"} : Go(t, pc)
  BY <1>2, OutcomeGo
<1>3. CASE tick[t].pc # "idle" /\ \E what \in {"generating", "ready", "failed"} : SetStep(t, what)
  BY <1>3, OutcomeSet
<1>4. ASSUME NEW id \in Ids, Claim(t, id) PROVE Outcome(t)
  <2> DEFINE phase == job[id].phase
  <2>1. tick' = [tick EXCEPT ![t] = Resumed(id, phase)]
        /\ job[id].state # "absent" /\ \A u \in Ticks : Mine(u) # id
    BY <1>4 DEF Claim
  <2> HIDE DEF phase
  <2> QED BY <1>0, <2>1, OutcomeResumes
<1>5. CASE PhaseDone(t)
  <2>1. CASE tick' = [tick EXCEPT ![t] = Resumed(Mine(t), job[Mine(t)].phase + 1)]
    <3>1. Mine(t) \in Ids /\ tick[t].pc # "idle"
      BY <1>5, MineRequested DEF PhaseDone
    <3> DEFINE phase == job[Mine(t)].phase + 1
    <3>2. tick' = [tick EXCEPT ![t] = Resumed(Mine(t), phase)]
      BY <2>1
    <3> HIDE DEF phase
    <3> QED BY <1>0, <3>1, <3>2, OutcomeResumes
  <2> QED BY <1>1, <1>5, <2>1 DEF PhaseDone
<1>6. CASE ReadStep(t)
  <2> DEFINE new == [tick[t] EXCEPT !.pc = "write_steps", !.copy = <<step>>]
  <2>0. <<step>> \in Seq(Steps) /\ tick[t].pc # "idle"
    BY <1>0, <1>6, OneStep DEF ReadStep
  <2>1. /\ new \in TickState /\ new.pc = "write_steps" /\ new.id = Mine(t) /\ new.pr = tick[t].pr
        /\ new.copy = <<step>> /\ new.set = tick[t].set
    BY <1>0, <2>0 DEF TickState, Mine
  <2>2. tick' = [tick EXCEPT ![t] = new]
    BY <1>0, <1>6 DEF ReadStep
  <2> HIDE DEF new
  <2>3. tick[t].set # ""
    BY <1>6 DEF ReadStep, TicksOK
  <2> QED BY <1>0, <1>6, <2>0, <2>1, <2>2, <2>3 DEF Outcome, WorksOn
<1>7. CASE WriteStep(t)
  <2>1. SetStep(t, "ready") \/ Go(t, "done")
    BY <1>7 DEF WriteStep
  <2> QED BY <1>2, <1>3, <1>7, <2>1 DEF WriteStep
<1>8. CASE Plan(t)
  BY <1>1, <1>2, <1>3, <1>8 DEF Plan, Refuse, EndsIn
<1>9. CASE ComposePatch(t)
  BY <1>1, <1>2, <1>9 DEF ComposePatch, Refuse, Throw, EndsIn
<1>10. CASE Handoff(t)
  BY <1>1, <1>2, <1>3, <1>10 DEF Handoff, Refuse, EndsIn
<1>11. CASE FindWrite(t)
  <2>1. CASE Written(t, write[Kind(t)].pr)
    <3>1. write[Kind(t)].pr \in Nat
      BY <1>0
    <3>2. tick[t].pc # "idle"
      BY <1>11 DEF FindWrite
    <3> DEFINE pr == write[Kind(t)].pr
    <3>3. pr \in Nat /\ Written(t, pr) /\ (pr \in {tick[t].pr, write["pr"].pr} \/ Kind(t) # "pr")
      BY <2>1, <3>1
    <3> HIDE DEF pr
    <3> QED BY <3>2, <3>3, OutcomeWritten
  <2> QED BY <1>2, <1>11, <2>1 DEF FindWrite
<1>12. CASE AssertApproved(t)
  <2>1. CASE Refuse(t)
    BY <1>1, <2>1 DEF Refuse, EndsIn
  <2>2. CASE Approved(Mine(t)) /\ Go(t, "insert")
    <3> DEFINE new == [tick[t] EXCEPT !.pc = "insert"]
    <3>1. new \in TickState /\ new.pc = "insert" /\ new.id = Mine(t) /\ new.pr = tick[t].pr
      BY <1>0 DEF TickState, Mine
    <3>2. tick' = [tick EXCEPT ![t] = new] /\ tick[t].pc # "idle"
      BY <1>12, <2>2 DEF Go, AssertApproved
    <3> HIDE DEF new
    <3> QED BY <1>0, <1>12, <2>2, <3>1, <3>2 DEF Outcome, WorksOn
  <2> QED BY <1>12, <2>1, <2>2 DEF AssertApproved
<1>13. CASE InsertWrite(t)
  <2> DEFINE new == [tick[t] EXCEPT !.pc = "op"]
  <2>1. new \in TickState /\ new.pc = "op" /\ new.id = Mine(t) /\ new.n = tick[t].n /\ new.pr = tick[t].pr
    BY <1>0 DEF TickState, Mine
  <2>2. tick' = [tick EXCEPT ![t] = new] /\ tick[t].pc # "idle"
    BY <1>13 DEF Go, InsertWrite
  <2> HIDE DEF new
  <2> QED BY <1>0, <1>13, <2>1, <2>2 DEF Outcome, WorksOn
<1>14. CASE Perform(t)
  <2> DEFINE pr == IF Kind(t) # "pr" THEN 0
                   ELSE IF OpenPrs = {} THEN Len(github.prs) + 1 ELSE CHOOSE n \in OpenPrs : TRUE
             new == [tick[t] EXCEPT !.pc = "mark", !.pr = pr]
  <2>0. pr \in Nat
    <3>1. github.prs \in Seq({"open", "merged", "closed"})
      BY DEF TypeOK
    <3>2. Len(github.prs) \in Nat /\ DOMAIN github.prs = 1 .. Len(github.prs)
      BY <3>1, LenProperties
    <3>3. OpenPrs # {} => (CHOOSE n \in OpenPrs : TRUE) \in 1 .. Len(github.prs)
      BY <3>2 DEF OpenPrs
    <3> QED BY <3>2, <3>3
  <2>1. tick' = [tick EXCEPT ![t].pc = "mark", ![t].pr = pr] /\ tick[t].pc # "idle"
    BY <1>14 DEF Perform
  <2> HIDE DEF pr
  <2>2. new \in TickState /\ new.pc = "mark" /\ new.id = Mine(t) /\ new.n = tick[t].n
    BY <1>0, <2>0 DEF TickState, Mine
  <2>3. tick' = [tick EXCEPT ![t] = new]
    BY <1>0, <2>1
  <2> HIDE DEF new
  <2>4. tick[t].pc # "idle"
    BY <2>1
  <2>5. /\ tick' \in [Ticks -> TickState] /\ \A u \in Ticks \ {t} : tick'[u] = tick[u]
        /\ tick'[t] = new
    BY <1>0, <2>2, <2>3
  <2> QED BY <1>14, <2>2, <2>4, <2>5 DEF Outcome, WorksOn
<1>15. CASE MarkWrite(t)
  BY <1>0, <1>15, OutcomeWritten DEF MarkWrite, TickState
<1>16. CASE PerformFails(t) \/ TickFails(t)
  BY <1>1, <1>16 DEF PerformFails, TickFails, Throw, EndsIn
<1> QED BY <1>4, <1>5, <1>6, <1>7, <1>8, <1>9, <1>10, <1>11, <1>12, <1>13, <1>14, <1>15, <1>16
        DEF Execute

-----------------------------------------------------------------------------
(* The jobs.                                                               *)

\* An executor moves the row of the job it has.
LEMMA JobsByTick ==
    ASSUME TypeOK, TicksOK, MembersInv(Steps), NEW t \in Ticks, Execute(t)
    PROVE  /\ job' \in [Ids -> JobRows] /\ \A id \in Ids : job'[id].phase \in 1 .. 4
           /\ \A id \in Ids : job'[id].state # "absent" => id \in Requested
<1> DEFINE States == {"queued", "running", "failed", "succeeded"}
<1>0. /\ job \in [Ids -> JobRows] /\ \A id \in Ids : job[id].phase \in 1 .. 4
      /\ \A id \in Ids : job[id].state # "absent" => id \in Requested
      /\ Len(Phases) = 3
  BY GenTypes, Names DEF MembersInv, JobsRequested, TypeOK, MembersTypeOK, JobRows
<1>1. \/ UNCHANGED job
      \/ \E id \in Ids, s \in States : /\ job[id].state # "absent" \/ (id = Mine(t) /\ tick[t].pc # "idle")
                                       /\ job' = [job EXCEPT ![id].state = s]
      \/ /\ tick[t].pc # "idle"
         /\ \E row \in JobRows : row.phase \in 1 .. 4 /\ job' = [job EXCEPT ![Mine(t)] = row]
  <2>1. CASE tick[t].pc # "idle" /\ \E s \in States : job' = [job EXCEPT ![Mine(t)].state = s]
    BY <2>1, MineRequested
  <2>2. CASE \E id \in Ids : Claim(t, id)
    <3>1. PICK id \in Ids : Claim(t, id)
      BY <2>2
    <3>2. job[id].state # "absent" /\ job' = [job EXCEPT ![id].state = "running"]
      BY <3>1 DEF Claim
    <3>3. "running" \in States
      OBVIOUS
    <3> HIDE DEF States
    <3>4. \E i \in Ids, s \in States : /\ job[i].state # "absent" \/ (i = Mine(t) /\ tick[t].pc # "idle")
                                       /\ job' = [job EXCEPT ![i].state = s]
      BY <3>2, <3>3
    <3> QED BY <3>4
  <2>3. CASE UNCHANGED job
    BY <2>3
  <2>4. CASE PhaseDone(t)
    <3>1. Mine(t) \in Ids /\ tick[t].pc # "idle"
      BY <2>4, MineRequested DEF PhaseDone
    <3> DEFINE next == [job[Mine(t)] EXCEPT !.phase = job[Mine(t)].phase + 1]
               last == [state |-> "succeeded", phase |-> Len(Phases) + 1]
    <3>2. job[Mine(t)].phase + 1 <= Len(Phases) => next \in JobRows /\ next.phase \in 1 .. 4
      BY <1>0, <3>1 DEF JobRows
    <3>3. last \in JobRows /\ last.phase \in 1 .. 4
      BY <1>0 DEF JobRows
    <3>4. \/ UNCHANGED job
          \/ job[Mine(t)].phase + 1 <= Len(Phases) /\ job' = [job EXCEPT ![Mine(t)] = next]
          \/ job' = [job EXCEPT ![Mine(t)] = last]
      BY <2>4 DEF PhaseDone
    <3> HIDE DEF next, last
    <3> QED BY <3>1, <3>2, <3>3, <3>4
  <2>5. CASE \/ Plan(t) \/ ComposePatch(t) \/ Handoff(t) \/ AssertApproved(t)
             \/ PerformFails(t) \/ TickFails(t)
    <3>1. UNCHANGED job \/ Refuse(t) \/ Throw(t)
      BY <2>5 DEF Plan, ComposePatch, Handoff, AssertApproved, PerformFails, TickFails
    <3>2. tick[t].pc # "idle"
      BY <2>5 DEF Plan, ComposePatch, Handoff, AssertApproved, PerformFails, TickFails
    <3> QED BY <2>1, <2>3, <3>1, <3>2 DEF Refuse, Throw, EndsIn
  <2> QED BY <2>2, <2>3, <2>4, <2>5 DEF Execute, ReadStep, WriteStep, FindWrite, InsertWrite,
          Perform, MarkWrite
<1>2. CASE UNCHANGED job
  BY <1>0, <1>2
<1>3. ASSUME NEW id \in Ids, NEW row \in JobRows, row.phase \in 1 .. 4, id \in Requested,
             job' = [job EXCEPT ![id] = row]
      PROVE  /\ job' \in [Ids -> JobRows] /\ \A i \in Ids : job'[i].phase \in 1 .. 4
             /\ \A i \in Ids : job'[i].state # "absent" => i \in Requested
  BY <1>0, <1>3
<1>4. ASSUME NEW id \in Ids, NEW s \in States, job' = [job EXCEPT ![id].state = s], id \in Requested
      PROVE  /\ job' \in [Ids -> JobRows] /\ \A i \in Ids : job'[i].phase \in 1 .. 4
             /\ \A i \in Ids : job'[i].state # "absent" => i \in Requested
  <2> DEFINE row == [job[id] EXCEPT !.state = s]
  <2>1. row \in JobRows /\ row.phase = job[id].phase
    BY <1>0 DEF JobRows
  <2>2. job' = [job EXCEPT ![id] = row]
    BY <1>4
  <2> HIDE DEF row
  <2> QED BY <1>0, <1>3, <1>4, <2>1, <2>2
<1>5. CASE tick[t].pc # "idle"
           /\ \E row \in JobRows : row.phase \in 1 .. 4 /\ job' = [job EXCEPT ![Mine(t)] = row]
  <2>1. Mine(t) \in Requested /\ Mine(t) \in Ids
    BY <1>5, MineRequested
  <2> QED BY <1>3, <1>5, <2>1
<1> QED BY <1>0, <1>1, <1>2, <1>4, <1>5, MineRequested

LEMMA RowsKept ==
    ASSUME NEW t \in Ticks, Execute(t)
    PROVE  UNCHANGED <<approval, rec, member, calls, webhook>>
BY DEF Execute, Claim, PhaseDone, ReadStep, WriteStep, Plan, ComposePatch, Handoff, FindWrite,
   AssertApproved, InsertWrite, Perform, PerformFails, MarkWrite, TickFails, rows

LEMMA MembersByTick ==
    ASSUME TypeOK, TicksOK, MembersInv(Steps), NEW t \in Ticks, Execute(t)
    PROVE  MembersInv(Steps)'
<1>1. UNCHANGED <<approval, rec, member, calls>>
  BY RowsKept
<1>2. rec' \in {"active", "dismissed", "accepted"}
  BY <1>1 DEF TypeOK, MembersTypeOK
<1> QED BY <1>1, <1>2, JobsByTick, MembersKept DEF JobRows

LEMMA TicksByTick ==
    ASSUME TypeOK, TicksOK, MembersInv(Steps), NEW t \in Ticks, Execute(t)
    PROVE  TicksOK'
<1>1. Outcome(t) /\ UNCHANGED approval
  BY OutcomeStep, RowsKept
<1>2. IdleTick.pc = "idle" /\ IdleTick.id = 0 /\ 0 \notin Ids
  BY GenTypes
<1>3. ASSUME NEW u \in Ticks, tick'[u].pc # "idle" PROVE tick'[u].id \in Requested
  <2>1. CASE u # t
    BY <1>1, <1>3, <2>1 DEF Outcome, TicksOK, Mine
  <2>2. CASE u = t
    BY <1>1, <1>2, <1>3, <2>2, MineRequested DEF Outcome, WorksOn, MembersInv, JobsRequested
  <2> QED BY <2>1, <2>2
<1>4. ASSUME NEW u \in Ticks, u # t, tick'[u].id = tick'[t].id, tick'[t].id # 0 PROVE FALSE
  BY <1>1, <1>2, <1>4 DEF Outcome, WorksOn, TicksOK, Mine
<1>5. ASSUME NEW u \in Ticks, NEW v \in Ticks, tick'[u].id = tick'[v].id, tick'[u].id # 0
      PROVE  u = v
  <2>1. CASE u # t /\ v # t
    BY <1>1, <1>5, <2>1 DEF Outcome, TicksOK, Mine
  <2> QED BY <1>4, <1>5, <2>1
<1>6. ASSUME NEW u \in Ticks, tick'[u].pc \in {"read_steps", "write_steps"} PROVE tick'[u].set # ""
  BY <1>1, <1>6 DEF Outcome, TicksOK
<1> QED BY <1>1, <1>3, <1>5, <1>6 DEF TicksOK, Mine, Requested

-----------------------------------------------------------------------------
(* What is at GitHub.                                                      *)

PrStates == {"open", "merged", "closed"}
GithubState == [branch : BOOLEAN, file : 0 .. MaxApprovals, prs : Seq(PrStates)]

LEMMA GithubTypes ==
    ASSUME TypeOK
    PROVE  /\ github \in GithubState /\ github.prs \in Seq(PrStates)
           /\ Len(github.prs) \in Nat /\ DOMAIN github.prs = 1 .. Len(github.prs)
           /\ \A n \in DOMAIN github.prs : github.prs[n] \in PrStates
<1>1. github \in GithubState
  BY DEF TypeOK, GithubState, PrStates
<1>2. github.prs \in Seq(PrStates)
  BY <1>1 DEF GithubState
<1>3. Len(github.prs) \in Nat /\ DOMAIN github.prs = 1 .. Len(github.prs)
  BY <1>2, LenProperties
<1> QED BY <1>1, <1>2, <1>3, ElementOfSeq

\* Nothing at GitHub is undone: more may be there, and an open pull request is closed or merged.
Grows(g) ==
    /\ g \in GithubState /\ DOMAIN g.prs = 1 .. Len(g.prs) /\ Len(g.prs) \in Nat
    /\ (github.branch => g.branch) /\ (github.file # 0 => g.file # 0)
    /\ Len(github.prs) <= Len(g.prs)
    /\ \A n \in DOMAIN github.prs : n \in DOMAIN g.prs /\ (g.prs[n] # github.prs[n] => github.prs[n] = "open")
    /\ \A n \in DOMAIN g.prs :
          g.prs[n] = "open" => \/ n \in OpenPrs
                               \/ n = Len(github.prs) + 1 /\ OpenPrs = {}

LEMMA GrowsSame ==
    ASSUME TypeOK
    PROVE  Grows(github)
BY GithubTypes DEF Grows, OpenPrs

LEMMA GrowsAccepted ==
    ASSUME TypeOK, NEW t \in Ticks, Mine(t) \in Ids
    PROVE  /\ Grows(Accepted(t))
           /\ Kind(t) = "branch" => Accepted(t).branch
           /\ Kind(t) = "file" => Accepted(t).file # 0
           /\ Kind(t) = "pr" /\ OpenPrs = {} => Len(github.prs) + 1 \in DOMAIN Accepted(t).prs
<1>0. /\ github \in GithubState /\ github.prs \in Seq(PrStates)
      /\ Len(github.prs) \in Nat /\ DOMAIN github.prs = 1 .. Len(github.prs)
      /\ Mine(t) \in 0 .. MaxApprovals /\ Mine(t) # 0 /\ Kind(t) \in {"branch", "file", "pr"}
  <2>1. Mine(t) \in 0 .. MaxApprovals /\ Mine(t) # 0
    BY ApprovalsAssumption DEF Ids, ApprovalsAssumption
  <2>2. Kind(t) \in {"branch", "file", "pr"}
    BY GenTypes, Names
  <2> QED BY <2>1, <2>2, GithubTypes
<1>1. CASE Kind(t) = "branch"
  <2> DEFINE g == [github EXCEPT !.branch = TRUE]
  <2>1. Accepted(t) = g
    BY <1>1 DEF Accepted
  <2>2. g \in GithubState /\ g.branch = TRUE /\ g.file = github.file /\ g.prs = github.prs
    BY <1>0 DEF GithubState
  <2> HIDE DEF g
  <2>3. Grows(g)
    BY <1>0, <2>2 DEF Grows, OpenPrs
  <2> QED BY <1>1, <2>1, <2>2, <2>3
<1>2. CASE Kind(t) = "file"
  <2> DEFINE g == [github EXCEPT !.file = Mine(t)]
  <2>1. Accepted(t) = g
    BY <1>2 DEF Accepted
  <2>2. g \in GithubState /\ g.branch = github.branch /\ g.file = Mine(t) /\ g.prs = github.prs
    BY <1>0 DEF GithubState
  <2> HIDE DEF g
  <2>3. Grows(g)
    BY <1>0, <2>2 DEF Grows, OpenPrs
  <2> QED BY <1>0, <1>2, <2>1, <2>2, <2>3
<1>3. CASE Kind(t) = "pr"
  <2> DEFINE s == IF OpenPrs = {} THEN Append(github.prs, "open") ELSE github.prs
             g == [github EXCEPT !.prs = s]
  <2>1. Accepted(t) = g
    BY <1>0, <1>3 DEF Accepted, GithubState
  <2>2. CASE OpenPrs # {}
    <3>1. g = github
      BY <1>0, <2>2 DEF GithubState
    <3> QED BY <1>3, <2>1, <2>2, <3>1, GrowsSame
  <2>3. CASE OpenPrs = {}
    <3>1. s = Append(github.prs, "open") /\ "open" \in PrStates
      BY <2>3 DEF PrStates
    <3>2. /\ s \in Seq(PrStates) /\ Len(s) = Len(github.prs) + 1
          /\ \A n \in 1 .. Len(github.prs) : s[n] = github.prs[n]
      BY <1>0, <3>1, AppendProperties
    <3>3. DOMAIN s = 1 .. Len(s)
      BY <3>2, LenProperties
    <3> HIDE DEF s
    <3>4. g \in GithubState /\ g.branch = github.branch /\ g.file = github.file /\ g.prs = s
      BY <1>0, <3>2 DEF GithubState
    <3> HIDE DEF g
    <3>5. \A n \in DOMAIN github.prs : n \in DOMAIN g.prs /\ g.prs[n] = github.prs[n]
      BY <1>0, <3>2, <3>3, <3>4
    <3>6. \A n \in DOMAIN g.prs : g.prs[n] = "open" => n \in OpenPrs \/ n = Len(github.prs) + 1
      <4> SUFFICES ASSUME NEW n \in DOMAIN g.prs, g.prs[n] = "open", n # Len(github.prs) + 1
                   PROVE  n \in OpenPrs
        OBVIOUS
      <4>1. n \in DOMAIN github.prs
        BY <1>0, <3>2, <3>3, <3>4
      <4> QED BY <3>5, <4>1 DEF OpenPrs
    <3>7. Grows(g)
      BY <1>0, <2>3, <3>2, <3>3, <3>4, <3>5, <3>6 DEF Grows
    <3>8. Len(github.prs) + 1 \in DOMAIN g.prs
      BY <1>0, <3>2, <3>3, <3>4
    <3> QED BY <1>3, <2>1, <3>7, <3>8
  <2> QED BY <2>2, <2>3
<1> QED BY <1>0, <1>1, <1>2, <1>3

LEMMA GithubByTick ==
    ASSUME TypeOK, TicksOK, NEW t \in Ticks, Execute(t)
    PROVE  /\ Grows(github')
           /\ \/ UNCHANGED github
              \/ (Perform(t) \/ PerformFails(t)) /\ github' = Accepted(t)
<1>1. \/ UNCHANGED github
      \/ (Perform(t) \/ PerformFails(t)) /\ github' = Accepted(t)
  BY DEF Execute, Claim, PhaseDone, ReadStep, WriteStep, Plan, ComposePatch, Handoff, FindWrite,
     AssertApproved, InsertWrite, Perform, PerformFails, MarkWrite, TickFails
<1>2. Perform(t) \/ PerformFails(t) => Mine(t) \in Ids
  BY MineRequested DEF Perform, PerformFails
<1>3. CASE UNCHANGED github
  BY <1>3, GrowsSame
<1>4. CASE (Perform(t) \/ PerformFails(t)) /\ github' = Accepted(t)
  BY <1>2, <1>4, GrowsAccepted
<1> QED BY <1>1, <1>3, <1>4

LEMMA GrowsMerged ==
    ASSUME TypeOK, Grows(github'), Merged
    PROVE  Merged'
BY DEF Grows, Merged

LEMMA GrowsOpen ==
    ASSUME TypeOK, Grows(github'), \A m, n \in OpenPrs : m = n
    PROVE  \A m, n \in OpenPrs' : m = n
BY DEF Grows, OpenPrs

LEMMA GrowsClosed ==
    ASSUME TypeOK, NEW n \in OpenPrs, NEW s \in {"merged", "closed"},
           github' = [github EXCEPT !.prs[n] = s]
    PROVE  Grows(github')
<1> DEFINE new == [github.prs EXCEPT ![n] = s]
<1>0. /\ github \in GithubState /\ github.prs \in Seq(PrStates)
      /\ Len(github.prs) \in Nat /\ DOMAIN github.prs = 1 .. Len(github.prs)
      /\ n \in 1 .. Len(github.prs) /\ github.prs[n] = "open" /\ s \in PrStates /\ s # "open"
  BY GithubTypes DEF OpenPrs, PrStates
<1>1. /\ new \in Seq(PrStates) /\ Len(new) = Len(github.prs)
      /\ \A i \in 1 .. Len(github.prs) : new[i] = IF i = n THEN s ELSE github.prs[i]
  BY <1>0, ExceptSeq
<1>2. DOMAIN new = 1 .. Len(new)
  BY <1>1, LenProperties
<1>3. github' = [github EXCEPT !.prs = new]
  BY <1>0 DEF GithubState
<1> HIDE DEF new
<1>4. /\ github' \in GithubState /\ github'.prs = new
      /\ github'.branch = github.branch /\ github'.file = github.file
  BY <1>0, <1>1, <1>3 DEF GithubState
<1>5. \A i \in DOMAIN new : new[i] = "open" => i \in OpenPrs
  BY <1>0, <1>1, <1>2 DEF OpenPrs
<1> QED BY <1>0, <1>1, <1>2, <1>4, <1>5 DEF Grows

-----------------------------------------------------------------------------
(* The audit.                                                              *)

WriteRow == [state : {"absent", "planned", "failed", "succeeded"}, pr : Nat]

\* An executor plans, fails or marks the row of the write it is at.
LEMMA WritesByTick ==
    ASSUME TypeOK, NEW t \in Ticks, Execute(t)
    PROVE  /\ write' \in [Kinds -> WriteRow] /\ Kind(t) \in Kinds
           /\ \A k \in Kinds \ {Kind(t)} : write'[k] = write[k]
           /\ \A k \in Kinds : write[k].state # "absent" => write'[k].state # "absent"
           /\ \/ UNCHANGED write
              \/ InsertWrite(t) /\ write'[Kind(t)] = Planned(write[Kind(t)])
                 /\ write'[Kind(t)].state # "absent" /\ write'[Kind(t)].pr = write[Kind(t)].pr
                 /\ (write'[Kind(t)].state = "succeeded" => write[Kind(t)].state = "succeeded")
              \/ PerformFails(t) /\ write'[Kind(t)].state = "failed"
                 /\ write'[Kind(t)].pr = write[Kind(t)].pr
              \/ MarkWrite(t) /\ write'[Kind(t)].state = "succeeded"
                 /\ write'[Kind(t)].pr = tick[t].pr
<1>0. /\ write \in [Kinds -> WriteRow] /\ Kind(t) \in Kinds /\ write[Kind(t)] \in WriteRow
      /\ tick[t].pr \in Nat
  BY GenTypes DEF TypeOK, WriteRow, TickState
<1>1. ASSUME NEW row \in WriteRow, write' = [write EXCEPT ![Kind(t)] = row], row.state # "absent"
      PROVE  /\ write' \in [Kinds -> WriteRow] /\ write'[Kind(t)] = row
             /\ \A k \in Kinds \ {Kind(t)} : write'[k] = write[k]
             /\ \A k \in Kinds : write[k].state # "absent" => write'[k].state # "absent"
  BY <1>0, <1>1
<1>2. CASE InsertWrite(t)
  <2> DEFINE row == Planned(write[Kind(t)])
  <2>1. write' = [write EXCEPT ![Kind(t)] = row]
    BY <1>0, <1>2 DEF InsertWrite
  <2>2. row \in WriteRow /\ row.state # "absent" /\ row.pr = write[Kind(t)].pr
        /\ (row.state = "succeeded" => write[Kind(t)].state = "succeeded")
    BY <1>0 DEF Planned, WriteRow
  <2> HIDE DEF row
  <2>3. /\ write' \in [Kinds -> WriteRow] /\ write'[Kind(t)] = row
        /\ \A k \in Kinds \ {Kind(t)} : write'[k] = write[k]
        /\ \A k \in Kinds : write[k].state # "absent" => write'[k].state # "absent"
    BY <1>1, <2>1, <2>2
  <2> QED BY <1>0, <1>2, <2>2, <2>3 DEF row
<1>3. CASE PerformFails(t)
  <2> DEFINE row == [write[Kind(t)] EXCEPT !.state = "failed"]
  <2>1. write' = [write EXCEPT ![Kind(t)] = row]
    BY <1>0, <1>3 DEF PerformFails
  <2>2. row \in WriteRow /\ row.state = "failed" /\ row.pr = write[Kind(t)].pr
    BY <1>0 DEF WriteRow
  <2> HIDE DEF row
  <2>3. /\ write' \in [Kinds -> WriteRow] /\ write'[Kind(t)] = row
        /\ \A k \in Kinds \ {Kind(t)} : write'[k] = write[k]
        /\ \A k \in Kinds : write[k].state # "absent" => write'[k].state # "absent"
    BY <1>1, <2>1, <2>2
  <2> QED BY <1>0, <1>3, <2>2, <2>3
<1>4. CASE MarkWrite(t)
  <2> DEFINE row == [state |-> "succeeded", pr |-> tick[t].pr]
  <2>1. write' = [write EXCEPT ![Kind(t)] = row]
    BY <1>4 DEF MarkWrite
  <2>2. row \in WriteRow /\ row.state = "succeeded" /\ row.pr = tick[t].pr
    BY <1>0 DEF WriteRow
  <2> HIDE DEF row
  <2>3. /\ write' \in [Kinds -> WriteRow] /\ write'[Kind(t)] = row
        /\ \A k \in Kinds \ {Kind(t)} : write'[k] = write[k]
        /\ \A k \in Kinds : write[k].state # "absent" => write'[k].state # "absent"
    BY <1>1, <2>1, <2>2
  <2> QED BY <1>0, <1>4, <2>2, <2>3
<1>5. CASE UNCHANGED write
  BY <1>0, <1>5
<1> QED BY <1>2, <1>3, <1>4, <1>5 DEF Execute, Claim, PhaseDone, ReadStep, WriteStep, Plan,
        ComposePatch, Handoff, FindWrite, AssertApproved, Perform, TickFails

At(g, kind, pr) ==
    /\ kind = "branch" => g.branch
    /\ kind = "file" => g.file # 0
    /\ kind = "pr" => pr \in DOMAIN g.prs

LEMMA AtIs ==
    /\ \A kind \in Kinds : \A pr : AtGithub(kind, pr) <=> At(github, kind, pr)
    /\ \A kind \in Kinds : \A pr : AtGithub(kind, pr)' <=> At(github', kind, pr)
BY Names DEF At, AtGithub

\* What is at GitHub stays there.
LEMMA AtStays ==
    ASSUME Grows(github'), NEW kind, NEW pr, At(github, kind, pr)
    PROVE  At(github', kind, pr)
BY DEF Grows, At

\* The audit, row by row.
AuditRows ==
    /\ \A k \in Kinds : write[k].state = "succeeded" => At(github, k, write[k].pr)
    /\ github.branch => write["branch"].state # "absent"
    /\ github.file # 0 => write["file"].state # "absent"
    /\ github.prs # <<>> => write["pr"].state # "absent"

LEMMA AuditIs == EveryWriteIsAudited <=> AuditRows
<1>1. /\ \A pr : At(github, "branch", pr) <=> github.branch
      /\ \A pr : At(github, "file", pr) <=> github.file # 0
      /\ \A pr : At(github, "pr", pr) <=> pr \in DOMAIN github.prs
  BY DEF At
<1>2. Kinds = {"branch", "file", "pr"}
  BY Names
<1> QED BY <1>1, <1>2 DEF EveryWriteIsAudited, AuditRows

LEMMA AuditIsNext == EveryWriteIsAudited' <=> AuditRows'
BY AuditIs, PTL

\* Each write leaves its own kind of thing.
LEMMA AcceptedKind ==
    ASSUME TypeOK, NEW t \in Ticks
    PROVE  /\ Accepted(t).branch # github.branch => Kind(t) = "branch"
           /\ Accepted(t).file # github.file => Kind(t) = "file"
           /\ Accepted(t).prs # github.prs => Kind(t) = "pr"
<1>0. github \in GithubState /\ Kind(t) \in {"branch", "file", "pr"}
  BY GithubTypes, GenTypes, Names
<1>1. CASE Kind(t) = "branch"
  BY <1>0, <1>1 DEF Accepted, GithubState
<1>2. CASE Kind(t) = "file"
  BY <1>0, <1>2 DEF Accepted, GithubState
<1>3. CASE Kind(t) = "pr"
  BY <1>0, <1>3 DEF Accepted, GithubState
<1> QED BY <1>0, <1>1, <1>2, <1>3

\* The pull request a write has opened or found is there.
LEMMA PerformedPr ==
    ASSUME TypeOK, TicksOK, NEW t \in Ticks, Perform(t)
    PROVE  /\ tick'[t].n = tick[t].n /\ At(github', Kind(t), tick'[t].pr)
           /\ tick'[t].pr \in 0 .. Len(github'.prs)
<1> DEFINE pr == IF Kind(t) # "pr" THEN 0
                 ELSE IF OpenPrs = {} THEN Len(github.prs) + 1 ELSE CHOOSE n \in OpenPrs : TRUE
           new == [tick[t] EXCEPT !.pc = "mark", !.pr = pr]
<1>0. /\ tick \in [Ticks -> TickState] /\ tick[t] \in TickState /\ Kind(t) \in {"branch", "file", "pr"}
      /\ Len(github.prs) \in Nat /\ DOMAIN github.prs = 1 .. Len(github.prs)
  BY GithubTypes, GenTypes, Names DEF TypeOK
<1>1. github' = Accepted(t) /\ Mine(t) \in Ids
  BY MineRequested DEF Perform
<1>2. /\ Grows(github')
      /\ Kind(t) = "branch" => github'.branch
      /\ Kind(t) = "file" => github'.file # 0
      /\ Kind(t) = "pr" /\ OpenPrs = {} => Len(github.prs) + 1 \in DOMAIN github'.prs
  BY <1>1, GrowsAccepted
<1>3. tick' = [tick EXCEPT ![t] = new]
  BY <1>0 DEF Perform
<1>4. pr \in Nat /\ (Kind(t) # "pr" => pr = 0) /\ (Kind(t) = "pr" => pr \in DOMAIN github'.prs)
  <2>1. OpenPrs # {} => (CHOOSE n \in OpenPrs : TRUE) \in OpenPrs
    OBVIOUS
  <2>2. OpenPrs \subseteq DOMAIN github.prs /\ DOMAIN github.prs \subseteq DOMAIN github'.prs
    BY <1>2 DEF OpenPrs, Grows
  <2> QED BY <1>0, <1>2, <2>1, <2>2
<1> HIDE DEF pr
<1>5. new.pr = pr /\ new.n = tick[t].n
  BY <1>0 DEF TickState
<1> HIDE DEF new
<1>6. tick'[t].pr = pr /\ tick'[t].n = tick[t].n
  BY <1>0, <1>3, <1>5
<1>7. At(github', Kind(t), tick'[t].pr)
  BY <1>0, <1>2, <1>4, <1>6 DEF At
<1>8. pr \in 0 .. Len(github'.prs)
  <2>1. DOMAIN github'.prs = 1 .. Len(github'.prs) /\ Len(github'.prs) \in Nat
    BY <1>2 DEF Grows
  <2> QED BY <1>4, <2>1
<1> QED BY <1>6, <1>7, <1>8

LEMMA AuditByTick ==
    ASSUME TypeOK, TicksOK, EveryWriteIsAudited, AuditFollows, NEW t \in Ticks, Execute(t)
    PROVE  EveryWriteIsAudited' /\ AuditFollows'
<1>0. AuditRows /\ Outcome(t) /\ Grows(github')
  BY AuditIs, OutcomeStep, GithubByTick
<1>1. /\ Kind(t) \in Kinds /\ \A k \in Kinds \ {Kind(t)} : write'[k] = write[k]
      /\ \A k \in Kinds : write[k].state # "absent" => write'[k].state # "absent"
      /\ write' \in [Kinds -> WriteRow] /\ Kinds = {"branch", "file", "pr"}
  BY WritesByTick, Names
<1>2. ASSUME NEW k \in Kinds, write'[k].state = "succeeded" PROVE At(github', k, write'[k].pr)
  <2>1. CASE write'[k].pr = write[k].pr /\ write[k].state = "succeeded"
    <3>1. At(github, k, write[k].pr)
      BY <1>0, <2>1 DEF AuditRows
    <3> QED BY <1>0, <2>1, <3>1, AtStays
  <2>2. CASE MarkWrite(t) /\ k = Kind(t) /\ write'[k].pr = tick[t].pr
    <3>1. AtGithub(k, tick[t].pr)
      BY <2>2 DEF AuditFollows, MarkWrite
    <3>2. UNCHANGED github
      BY <2>2 DEF MarkWrite
    <3> QED BY <2>2, <3>1, <3>2, AtIs
  <2> QED BY <1>1, <1>2, <2>1, <2>2, WritesByTick
<1>3. ASSUME github' = Accepted(t), Perform(t) \/ PerformFails(t)
      PROVE  /\ write'[Kind(t)].state # "absent"
             /\ github'.branch # github.branch => Kind(t) = "branch"
             /\ github'.file # github.file => Kind(t) = "file"
             /\ github'.prs # github.prs => Kind(t) = "pr"
  <2>1. write[Kind(t)].state # "absent"
    BY <1>3 DEF AuditFollows, Perform, PerformFails
  <2> QED BY <1>1, <1>3, <2>1, AcceptedKind
<1>4. /\ github'.branch => write'["branch"].state # "absent"
      /\ github'.file # 0 => write'["file"].state # "absent"
      /\ github'.prs # <<>> => write'["pr"].state # "absent"
  <2>1. CASE UNCHANGED github
    BY <1>0, <1>1, <2>1 DEF AuditRows
  <2>2. CASE github' = Accepted(t) /\ (Perform(t) \/ PerformFails(t))
    BY <1>0, <1>1, <1>3, <2>2 DEF AuditRows
  <2> QED BY <2>1, <2>2, GithubByTick
<1>5. EveryWriteIsAudited'
  BY <1>2, <1>4, AuditIsNext DEF AuditRows
<1>6. ASSUME NEW u \in Ticks, tick'[u].pc \in {"op", "mark"}
      PROVE  /\ write'[Kind(u)'].state # "absent"
             /\ tick'[u].pc = "mark" => At(github', Kind(u)', tick'[u].pr)
  <2>1. CASE u # t
    <3>1. tick'[u] = tick[u] /\ Kind(u)' = Kind(u) /\ Kind(u) \in Kinds
      BY <1>0, <2>1, GenTypes DEF Outcome, Kind
    <3>2. write[Kind(u)].state # "absent" /\ (tick[u].pc = "mark" => AtGithub(Kind(u), tick[u].pr))
      BY <1>6, <3>1 DEF AuditFollows
    <3>3. tick[u].pc = "mark" => At(github', Kind(u), tick[u].pr)
      BY <1>0, <3>1, <3>2, AtIs, AtStays
    <3> QED BY <1>1, <1>6, <3>1, <3>2, <3>3
  <2>2. CASE u = t /\ tick'[t].pc = "op"
    <3>1. InsertWrite(t) /\ Kind(t)' = Kind(t)
      BY <1>0, <2>2 DEF Outcome, Kind
    <3>2. write'[Kind(t)].state # "absent"
      <4>1. tick[t].pc = "insert"
        BY <3>1 DEF InsertWrite
      <4>2. write' = [write EXCEPT ![Kind(t)] = Planned(write[Kind(t)])]
        BY <3>1, <1>1 DEF InsertWrite, TypeOK
      <4>3. write[Kind(t)] \in WriteRow /\ write \in [Kinds -> WriteRow]
        BY <1>1 DEF TypeOK, WriteRow
      <4>4. Planned(write[Kind(t)]).state # "absent"
        BY <4>3 DEF Planned, WriteRow
      <4> QED BY <1>1, <4>2, <4>3, <4>4
    <3> QED BY <2>2, <3>1, <3>2
  <2>3. CASE u = t /\ tick'[t].pc = "mark"
    <3>1. Perform(t) /\ Kind(t)' = Kind(t)
      BY <1>0, <2>3 DEF Outcome, Kind
    <3>2. write[Kind(t)].state # "absent" /\ UNCHANGED write
      BY <3>1 DEF Perform, AuditFollows
    <3> QED BY <2>3, <3>1, <3>2, PerformedPr
  <2> QED BY <1>6, <2>1, <2>2, <2>3
<1>7. AuditFollows'
  <2>1. ASSUME NEW u \in Ticks, tick'[u].pc = "mark" PROVE AtGithub(Kind(u), tick[u].pr)'
    <3>1. At(github', Kind(u)', tick'[u].pr) /\ Kind(u)' \in Kinds
      <4>1. tick'[u].n \in DOMAIN Writes
        BY <1>0 DEF Outcome, TickState
      <4> QED BY <1>6, <2>1, <4>1 DEF Kind, Kinds
    <3> QED BY <3>1, Names DEF At, AtGithub
  <2> QED BY <1>6, <2>1 DEF AuditFollows
<1> QED BY <1>5, <1>7

-----------------------------------------------------------------------------
(* Late writes.                                                            *)

LEMMA LateByTick ==
    ASSUME TypeOK, TicksOK, OneWriteAfterRevocation, LateOK, NEW t \in Ticks, Execute(t)
    PROVE  OneWriteAfterRevocation' /\ LateOK' /\ late' \in [Ids -> Nat]
<1>0. /\ Outcome(t) /\ UNCHANGED approval /\ late \in [Ids -> Nat] /\ Requested' = Requested
      /\ IdleTick.pc = "idle"
  BY OutcomeStep, RowsKept, GenTypes DEF TypeOK, Requested
<1>1. \/ UNCHANGED late
      \/ /\ tick[t].pc = "op" /\ tick'[t].pc \notin {"insert", "op"}
         /\ late' = [late EXCEPT ![Mine(t)] = IF Approved(Mine(t)) THEN @ ELSE @ + 1]
  <2>1. CASE Perform(t) \/ PerformFails(t)
    <3>1. tick[t].pc = "op"
      BY <2>1 DEF Perform, PerformFails
    <3>2. tick'[t].pc \notin {"insert", "op"}
      BY <1>0, <3>1 DEF Outcome, AssertApproved, InsertWrite
    <3> QED BY <2>1, <3>1, <3>2 DEF Perform, PerformFails
  <2>2. CASE UNCHANGED late
    BY <2>2
  <2> QED BY <2>1, <2>2 DEF Execute, Claim, PhaseDone, ReadStep, WriteStep, Plan, ComposePatch,
          Handoff, FindWrite, AssertApproved, InsertWrite, MarkWrite, TickFails
<1>2. CASE UNCHANGED late
  <2>1. ASSUME NEW u \in Ticks, tick'[u].pc \in {"insert", "op"}
        PROVE  approval[tick'[u].id] \in {"approved", "revoked"} /\ late[tick'[u].id] = 0
    <3>1. CASE u # t
      BY <1>0, <2>1, <3>1 DEF Outcome, LateOK, Mine
    <3>2. CASE u = t /\ tick'[t].pc = "op"
      BY <1>0, <3>2 DEF Outcome, InsertWrite, LateOK, Mine
    <3>3. CASE u = t /\ tick'[t].pc = "insert"
      <4>1. Approved(Mine(t)) /\ tick'[t].id = Mine(t) /\ Mine(t) \in Ids
        BY <1>0, <3>3, MineRequested DEF Outcome, AssertApproved
      <4>2. ~ late[Mine(t)] > 0
        BY <4>1 DEF LateOK, Approved
      <4> QED BY <1>0, <3>3, <4>1, <4>2 DEF Approved
    <3> QED BY <2>1, <3>1, <3>2, <3>3
  <2> QED BY <1>0, <1>2, <2>1 DEF OneWriteAfterRevocation, LateOK, Mine
<1>3. CASE /\ tick[t].pc = "op" /\ tick'[t].pc \notin {"insert", "op"}
           /\ late' = [late EXCEPT ![Mine(t)] = IF Approved(Mine(t)) THEN @ ELSE @ + 1]
  <2> DEFINE id == Mine(t)
             n == IF Approved(id) THEN late[id] ELSE late[id] + 1
  <2>0. id \in Requested /\ id \in Ids /\ id # 0
    BY <1>3, MineRequested
  <2>1. approval[id] \in {"approved", "revoked"} /\ late[id] = 0
    BY <1>3 DEF LateOK
  <2>2. late' = [late EXCEPT ![id] = n]
    BY <1>3
  <2>3. n \in {0, 1} /\ (n # 0 => approval[id] = "revoked")
    BY <2>1 DEF Approved
  <2>4. ASSUME NEW u \in Ticks, tick'[u].pc \in {"insert", "op"}
        PROVE  /\ tick'[u] = tick[u] /\ tick'[u].id # id
               /\ approval[tick'[u].id] \in {"approved", "revoked"} /\ late[tick'[u].id] = 0
    <3>1. u # t /\ tick'[u] = tick[u]
      BY <1>0, <1>3, <2>4 DEF Outcome
    <3> QED BY <2>0, <2>4, <3>1 DEF TicksOK, LateOK, Mine
  <2>5. \A u \in Ticks : tick'[u].pc \in {"insert", "op"} => tick'[u].id \in Ids
    BY <2>4, MineRequested DEF Mine
  <2> HIDE DEF id, n
  <2>6. late' \in [Ids -> Nat] /\ \A i \in Ids : late'[i] = IF i = id THEN n ELSE late[i]
    BY <1>0, <2>0, <2>2, <2>3
  <2>7. OneWriteAfterRevocation'
    BY <2>3, <2>6 DEF OneWriteAfterRevocation
  <2>8. \A i \in Ids : late'[i] > 0 => i \in Requested' /\ approval'[i] = "revoked"
    BY <1>0, <2>0, <2>3, <2>6 DEF LateOK
  <2>9. LateOK'
    BY <1>0, <2>4, <2>5, <2>6, <2>8 DEF LateOK, Mine
  <2> QED BY <2>6, <2>7, <2>9
<1> QED BY <1>0, <1>1, <1>2, <1>3

\* A member's decision makes no late write possible again.
LEMMA LateByMember ==
    ASSUME TypeOK, TicksOK, MembersInv(Steps), OneWriteAfterRevocation, LateOK, ApprovalsMove,
           UNCHANGED <<tick, late>>
    PROVE  OneWriteAfterRevocation' /\ LateOK'
<1>0. /\ Requested \subseteq Requested'
      /\ \A id \in Requested :
            approval'[id] # approval[id] => <<approval[id], approval'[id]>> \in ApprovalMoves
  BY ApprovalsForward DEF MembersInv
<1>1. \A id \in Requested : approval[id] = "revoked" => approval'[id] = "revoked"
  BY <1>0 DEF ApprovalMoves
<1>2. \A id \in Requested :
         approval[id] \in {"approved", "revoked"} => approval'[id] \in {"approved", "revoked"}
  BY <1>0 DEF ApprovalMoves
<1>3. \A t \in Ticks : tick[t].pc \in {"insert", "op"} => Mine(t) \in Requested
  BY DEF TicksOK
<1> QED BY <1>0, <1>1, <1>2, <1>3 DEF OneWriteAfterRevocation, LateOK, Mine

-----------------------------------------------------------------------------
(* The step and its copies.                                                *)

\* What an executor writes to the step: its copy, with one field set.
LEMMA StepByTick ==
    ASSUME TypeOK, TicksOK, CopiesOK, NEW t \in Ticks, Execute(t)
    PROVE  \/ UNCHANGED step
           \/ /\ WriteStep(t) /\ step' \in Steps
              /\ tick[t].pc = "write_steps" /\ tick[t].copy[1] \in Steps
              /\ step'.state = "done" => tick[t].copy[1].state = "done"
              /\ step'.made \in {tick[t].pr, tick[t].copy[1].made}
<1>1. CASE WriteStep(t)
  <2>0. /\ tick[t].pc = "write_steps" /\ tick[t].set \in {"generating", "link", "ready", "failed"}
        /\ tick[t].pr \in Nat /\ tick[t].copy \in Seq(Steps)
    BY <1>1, GenTypes DEF WriteStep, TickState, TicksOK
  <2>1. tick[t].copy[1] \in Steps
    <3>1. Len(tick[t].copy) = 1
      BY <2>0 DEF CopiesOK
    <3> QED BY <2>0, <3>1, ElementOfSeq
  <2> DEFINE copy == tick[t].copy[1]
             linked == [copy EXCEPT !.made = tick[t].pr]
             set == [copy EXCEPT !.state = tick[t].set]
  <2>2. step' = linked \/ (tick[t].set # "link" /\ step' = set)
    BY <1>1 DEF WriteStep
  <2>3. copy \in Steps
    BY <2>1
  <2> HIDE DEF copy
  <2>4. linked \in Steps /\ linked.state = copy.state /\ linked.made = tick[t].pr
    BY <2>0, <2>3 DEF Steps
  <2>5. tick[t].set # "link" => set \in Steps /\ set.state = tick[t].set /\ set.made = copy.made
    BY <2>0, <2>3 DEF Steps
  <2> HIDE DEF linked, set
  <2>6. step' \in Steps /\ (step'.state = "done" => copy.state = "done")
        /\ step'.made \in {tick[t].pr, copy.made}
    BY <2>0, <2>2, <2>4, <2>5
  <2> QED BY <1>1, <2>0, <2>1, <2>6 DEF copy
<1>2. CASE UNCHANGED step
  BY <1>2
<1> QED BY <1>1, <1>2 DEF Execute, Claim, PhaseDone, ReadStep, Plan, ComposePatch, Handoff,
        FindWrite, AssertApproved, InsertWrite, Perform, PerformFails, MarkWrite, TickFails

LEMMA DoneByTick ==
    ASSUME TypeOK, TicksOK, DoneMeansMerged, CopiesOK, NEW t \in Ticks, Execute(t)
    PROVE  DoneMeansMerged' /\ CopiesOK'
<1>0. /\ Outcome(t) /\ Grows(github') /\ UNCHANGED <<rec, member, webhook>>
      /\ Merged => Merged'
  BY OutcomeStep, GithubByTick, RowsKept, GrowsMerged
<1>1. step'.state = "done" => Merged
  BY StepByTick DEF DoneMeansMerged, CopiesOK
<1>2. ASSUME NEW u \in Ticks, tick'[u].pc = "write_steps"
      PROVE  Len(tick'[u].copy) = 1 /\ (tick'[u].copy[1].state = "done" => Merged)
  <2>1. CASE u # t
    BY <1>0, <1>2, <2>1 DEF Outcome, CopiesOK
  <2>2. CASE u = t
    <3>1. tick'[t].copy = <<step>>
      BY <1>0, <1>2, <2>2 DEF Outcome
    <3>2. Len(<<step>>) = 1 /\ <<step>>[1] = step
      BY OneStep DEF TypeOK
    <3> QED BY <2>2, <3>1, <3>2 DEF DoneMeansMerged
  <2> QED BY <2>1, <2>2
<1>3. DoneMeansMerged'
  BY <1>0, <1>1 DEF DoneMeansMerged
<1>4. CopiesOK'
  BY <1>0, <1>2 DEF CopiesOK
<1> QED BY <1>3, <1>4

LEMMA LinksByTick ==
    ASSUME TypeOK, TicksOK, CopiesOK, LinksExist, NEW t \in Ticks, Execute(t)
    PROVE  LinksExist'
<1>0. /\ Outcome(t) /\ Grows(github') /\ UNCHANGED <<member, webhook>>
      /\ Len(github.prs) \in Nat /\ "pr" \in Kinds
  BY OutcomeStep, GithubByTick, RowsKept, GithubTypes, Names
<1>1. Linked \subseteq Linked' /\ 0 \in Linked
  BY <1>0 DEF Linked, Grows
<1>2. step'.made \in Linked
  BY StepByTick DEF LinksExist
<1>3. write'["pr"].pr \in Linked
  BY <1>0, WritesByTick DEF LinksExist
<1>4. tick'[t].pr \in Linked'
  <2>1. CASE Perform(t)
    BY <2>1, PerformedPr DEF Linked
  <2>2. CASE tick'[t].pr \in {0, tick[t].pr, write["pr"].pr}
    BY <1>1, <2>2 DEF LinksExist
  <2> QED BY <1>0, <2>1, <2>2 DEF Outcome
<1>5. ASSUME NEW u \in Ticks
      PROVE  /\ tick'[u].pr \in Linked'
             /\ tick'[u].pc = "write_steps" => tick'[u].copy[1].made \in Linked'
  <2>1. CASE u # t
    BY <1>0, <1>1, <2>1 DEF Outcome, LinksExist
  <2>2. CASE u = t
    <3>1. tick'[t].pc = "write_steps" => tick'[t].copy = <<step>> /\ <<step>>[1] = step
      BY <1>0 DEF Outcome
    <3> QED BY <1>1, <1>4, <2>2, <3>1 DEF LinksExist
  <2> QED BY <2>1, <2>2
<1>6. \A m, n \in OpenPrs' : m = n
  BY <1>0, GrowsOpen DEF LinksExist
<1>7. /\ \A m \in Members : member'[m].pc = "write_steps" => member'[m].copy[1].made \in Linked'
      /\ webhook'.pc = "write" => webhook'.copy[1].made \in Linked'
  BY <1>0, <1>1 DEF LinksExist
<1> QED BY <1>1, <1>2, <1>3, <1>5, <1>6, <1>7 DEF LinksExist

-----------------------------------------------------------------------------
(* The invariant.                                                          *)

EvidenceRows == [Ids -> SUBSET ({"baseline"} \cup Patches)]

LEMMA TypesByTick ==
    ASSUME TypeOK, MembersInv(Steps), TicksOK, CopiesOK, OneWriteAfterRevocation, LateOK,
           NEW t \in Ticks, Execute(t)
    PROVE  TypeOK'
<1>0. /\ Outcome(t) /\ Grows(github') /\ UNCHANGED webhook
      /\ MembersInv(Steps)' /\ MaxFaults \in Nat /\ evidence \in EvidenceRows /\ faults \in 0 .. MaxFaults
  BY OutcomeStep, GithubByTick, RowsKept, MembersByTick, GenTypes DEF TypeOK, EvidenceRows
<1>1. MembersTypeOK(Steps)'
  BY <1>0 DEF MembersInv
<1>2. \A id \in Ids : job'[id].phase \in 1 .. Len(Phases) + 1
  BY JobsByTick, Names
<1>3. step' \in Steps
  BY StepByTick DEF TypeOK
<1>4. evidence' \in EvidenceRows
  <2>1. UNCHANGED evidence \/ \E item \in {"baseline"} \cup Patches : Keep(Mine(t), item)
    BY DEF Execute, Claim, PhaseDone, ReadStep, WriteStep, Plan, ComposePatch, Handoff,
       FindWrite, AssertApproved, InsertWrite, Perform, PerformFails, MarkWrite, TickFails
  <2> QED BY <1>0, <2>1 DEF Keep, EvidenceRows
<1>5. write' \in [Kinds -> WriteRow]
  BY WritesByTick
<1>6. github' \in GithubState
  BY <1>0 DEF Grows
<1>7. tick' \in [Ticks -> TickState]
  BY <1>0 DEF Outcome
<1>8. late' \in [Ids -> Nat]
  BY LateByTick
<1>9. faults' \in 0 .. MaxFaults
  <2>1. UNCHANGED faults \/ (faults' = faults + 1 /\ faults < MaxFaults)
    BY DEF Execute, Claim, PhaseDone, ReadStep, WriteStep, Plan, ComposePatch, Handoff,
       FindWrite, AssertApproved, InsertWrite, Perform, PerformFails, MarkWrite, TickFails
  <2> QED BY <1>0, <2>1
<1>10. TypeOK'
  BY <1>0, <1>1, <1>2, <1>3, <1>4, <1>5, <1>6, <1>7, <1>8, <1>9
     DEF TypeOK, EvidenceRows, WriteRow, GithubState, PrStates
<1> QED BY <1>10

LEMMA InvByTick ==
    ASSUME GenerationInv, NEW t \in Ticks, Execute(t)
    PROVE  GenerationInv'
<1>0. /\ TypeOK /\ MembersInv(Steps) /\ TicksOK /\ OneWriteAfterRevocation /\ LateOK
      /\ EveryWriteIsAudited /\ AuditFollows /\ DoneMeansMerged /\ CopiesOK /\ LinksExist
  BY DEF GenerationInv
<1>1. TypeOK' /\ MembersInv(Steps)' /\ TicksOK'
  BY <1>0, TypesByTick, MembersByTick, TicksByTick
<1>2. OneWriteAfterRevocation' /\ LateOK'
  BY <1>0, LateByTick
<1>3. EveryWriteIsAudited' /\ AuditFollows'
  BY <1>0, AuditByTick
<1>4. DoneMeansMerged' /\ CopiesOK' /\ LinksExist'
  BY <1>0, DoneByTick, LinksByTick
<1> QED BY <1>1, <1>2, <1>3, <1>4 DEF GenerationInv

LEMMA InvByMember ==
    ASSUME GenerationInv, NEW m \in Members, Request(m), UNCHANGED genVars
    PROVE  GenerationInv'
<1>0. /\ TypeOK /\ MembersInv(Steps) /\ TicksOK /\ OneWriteAfterRevocation /\ LateOK
      /\ EveryWriteIsAudited /\ AuditFollows /\ DoneMeansMerged /\ CopiesOK /\ LinksExist
      /\ UNCHANGED <<evidence, write, github, tick, webhook, late, faults>>
  BY DEF GenerationInv, genVars
<1>1. step \in Steps /\ MembersTypeOK(Steps) /\ RequestOK(m) /\ member[m] \in MemberState(Steps)
  BY <1>0, MemberTypes DEF TypeOK, MembersInv
<1>2. MembersInv(Steps)' /\ Moved(Steps, m) /\ ApprovalsMove /\ Requested \subseteq Requested'
  BY <1>0, <1>1, MembersStep, MemberMoves, MovesByRequest, ApprovalsForward
<1>3. /\ \A id \in Ids : job'[id].phase = job[id].phase
      /\ rec' = "accepted" => rec = "accepted"
      /\ \/ UNCHANGED step
         \/ /\ member[m].pc = "write_steps"
            /\ step' = [member[m].copy[1] EXCEPT !.state = "generating"]
  BY <1>0, RestByRequest
<1>4. \/ UNCHANGED step
      \/ /\ member[m].pc = "write_steps" /\ step' \in Steps
         /\ step'.state = "generating" /\ step'.made = member[m].copy[1].made
  <2>1. CASE member[m].pc = "write_steps" /\ step' = [member[m].copy[1] EXCEPT !.state = "generating"]
    <3> DEFINE copy == member[m].copy[1]
    <3>1. copy \in Steps
      <4>1. member[m].copy \in Seq(Steps) /\ Len(member[m].copy) = 1
        BY <1>1, <2>1 DEF MemberState, RequestOK
      <4> QED BY <4>1, ElementOfSeq
    <3>2. step' = [copy EXCEPT !.state = "generating"]
      BY <2>1
    <3> HIDE DEF copy
    <3>3. step' \in Steps /\ step'.state = "generating" /\ step'.made = copy.made
      BY <3>1, <3>2 DEF Steps
    <3> QED BY <2>1, <3>3 DEF copy
  <2> QED BY <1>3, <2>1
<1>5. TypeOK'
  <2>1. MembersTypeOK(Steps)' /\ step' \in Steps /\ \A id \in Ids : job'[id].phase \in 1 .. Len(Phases) + 1
    BY <1>0, <1>1, <1>2, <1>3, <1>4 DEF MembersInv, TypeOK
  <2> QED BY <1>0, <2>1 DEF TypeOK
<1>6. TicksOK'
  BY <1>0, <1>2 DEF TicksOK, Mine
<1>7. OneWriteAfterRevocation' /\ LateOK'
  BY <1>0, <1>2, LateByMember
<1>8. EveryWriteIsAudited' /\ AuditFollows'
  BY <1>0 DEF EveryWriteIsAudited, AuditFollows, AtGithub, Kind
<1>9. ASSUME NEW o \in Members, member'[o].pc = "write_steps"
      PROVE  /\ member'[o].copy[1].state = "done" => Merged
             /\ member'[o].copy[1].made \in Linked
  <2>1. CASE o # m
    BY <1>0, <1>2, <1>9, <2>1 DEF Moved, CopiesOK, LinksExist
  <2>2. CASE o = m
    <3>1. member'[m].copy = <<step>> /\ <<step>>[1] = step
      BY <1>2, <1>9, <2>2 DEF Moved
    <3> QED BY <1>0, <2>2, <3>1 DEF DoneMeansMerged, LinksExist
  <2> QED BY <2>1, <2>2
<1>10. Merged' = Merged /\ Linked' = Linked /\ OpenPrs' = OpenPrs
  BY <1>0 DEF Merged, Linked, OpenPrs
<1>11. DoneMeansMerged'
  BY <1>0, <1>3, <1>4, <1>10 DEF DoneMeansMerged
<1>12. CopiesOK'
  BY <1>0, <1>9, <1>10 DEF CopiesOK
<1>13. LinksExist'
  <2>1. step'.made \in Linked
    BY <1>0, <1>4 DEF LinksExist
  <2> QED BY <1>0, <1>9, <1>10, <2>1 DEF LinksExist
<1> QED BY <1>2, <1>5, <1>6, <1>7, <1>8, <1>11, <1>12, <1>13 DEF GenerationInv

LEMMA InvByClosePr ==
    ASSUME GenerationInv, NEW n \in DOMAIN github.prs, ClosePr(n)
    PROVE  GenerationInv'
<1>0. /\ TypeOK /\ MembersInv(Steps) /\ TicksOK /\ OneWriteAfterRevocation /\ LateOK
      /\ EveryWriteIsAudited /\ AuditFollows /\ DoneMeansMerged /\ CopiesOK /\ LinksExist
      /\ UNCHANGED <<approval, job, rec, step, member, calls, evidence, write, tick, webhook, late, faults>>
      /\ Requested' = Requested /\ Len(github.prs) \in Nat
  BY GithubTypes DEF GenerationInv, ClosePr, memberVars, Requested
<1>1. PICK s \in {"merged", "closed"} : n \in OpenPrs /\ github' = [github EXCEPT !.prs[n] = s]
  BY DEF ClosePr
<1>2. Grows(github')
  BY <1>0, <1>1, GrowsClosed
<1>3. /\ github'.branch = github.branch /\ github'.file = github.file
      /\ DOMAIN github'.prs = DOMAIN github.prs
  <2>1. github \in GithubState
    BY <1>0, GithubTypes
  <2> QED BY <1>1, <2>1 DEF GithubState
<1>4. TypeOK'
  <2>1. github' \in GithubState
    BY <1>2 DEF Grows
  <2>2. MembersTypeOK(Steps)'
    BY <1>0 DEF TypeOK, MembersTypeOK
  <2> QED BY <1>0, <2>1, <2>2 DEF TypeOK, GithubState, PrStates
<1>5. MembersInv(Steps)'
  BY <1>0, MembersKept DEF MembersInv, MembersTypeOK, JobsRequested
<1>6. TicksOK' /\ OneWriteAfterRevocation' /\ LateOK'
  BY <1>0 DEF TicksOK, OneWriteAfterRevocation, LateOK, Mine
<1>7. EveryWriteIsAudited'
  <2>1. AuditRows
    BY <1>0, AuditIs
  <2>2. \A k \in Kinds : write'[k].state = "succeeded" => At(github', k, write'[k].pr)
    BY <1>0, <1>2, <2>1, AtStays DEF AuditRows
  <2>3. github'.prs # <<>> => github.prs # <<>>
    <3>1. github.prs = <<>> => DOMAIN github.prs = {}
      OBVIOUS
    <3> QED BY <1>1, <3>1 DEF OpenPrs
  <2> QED BY <1>0, <1>3, <2>1, <2>2, <2>3, AuditIsNext DEF AuditRows
<1>8. AuditFollows'
  BY <1>0, <1>3 DEF AuditFollows, AtGithub, Kind
<1>9. (Merged => Merged') /\ Linked \subseteq Linked'
  BY <1>0, <1>2, GrowsMerged DEF Linked, Grows
<1>10. DoneMeansMerged' /\ CopiesOK'
  BY <1>0, <1>9 DEF DoneMeansMerged, CopiesOK
<1>11. LinksExist'
  <2>1. \A i, j \in OpenPrs' : i = j
    BY <1>0, <1>2, GrowsOpen DEF LinksExist
  <2> QED BY <1>0, <1>9, <2>1 DEF LinksExist
<1> QED BY <1>4, <1>5, <1>6, <1>7, <1>8, <1>10, <1>11 DEF GenerationInv

LEMMA InvByReadMerged ==
    ASSUME GenerationInv, NEW n \in DOMAIN github.prs, ReadMerged(n)
    PROVE  GenerationInv'
<1>0. /\ TypeOK /\ MembersInv(Steps) /\ TicksOK /\ OneWriteAfterRevocation /\ LateOK
      /\ EveryWriteIsAudited /\ AuditFollows /\ DoneMeansMerged /\ CopiesOK /\ LinksExist
      /\ UNCHANGED <<approval, job, rec, step, member, calls, evidence, write, github, tick, late, faults>>
      /\ Requested' = Requested
  BY DEF GenerationInv, ReadMerged, memberVars, Requested
<1>1. /\ webhook' = [pc |-> "write", pr |-> n, copy |-> <<step>>, rec |-> rec]
      /\ Merged /\ Len(<<step>>) = 1 /\ <<step>>[1] = step /\ <<step>> \in Seq(Steps) /\ n \in Nat
  <2>1. github.prs[n] = "merged"
    BY DEF ReadMerged, Completes
  <2>2. step \in Steps /\ n \in Nat
    <3>1. DOMAIN github.prs = 1 .. Len(github.prs)
      BY <1>0, GithubTypes
    <3>2. n \in Nat
      BY <3>1
    <3> QED BY <1>0, <3>2 DEF TypeOK
  <2>3. Len(<<step>>) = 1 /\ <<step>>[1] = step /\ <<step>> \in Seq(Steps)
    BY <2>2, OneStep
  <2> QED BY <2>1, <2>2, <2>3 DEF ReadMerged, Merged
<1>2. TypeOK'
  <2>1. webhook' \in [pc : {"idle", "write"}, pr : Nat, copy : Seq(Steps),
                      rec : {"", "active", "dismissed", "accepted"}]
    BY <1>0, <1>1 DEF TypeOK, MembersTypeOK
  <2>2. MembersTypeOK(Steps)'
    BY <1>0 DEF TypeOK, MembersTypeOK
  <2> QED BY <1>0, <2>1, <2>2 DEF TypeOK
<1>3. MembersInv(Steps)'
  BY <1>0, MembersKept DEF MembersInv, MembersTypeOK, JobsRequested
<1>4. TicksOK' /\ OneWriteAfterRevocation' /\ LateOK'
  BY <1>0 DEF TicksOK, OneWriteAfterRevocation, LateOK, Mine
<1>5. EveryWriteIsAudited' /\ AuditFollows'
  BY <1>0 DEF EveryWriteIsAudited, AuditFollows, AtGithub, Kind
<1>6. Merged' = Merged /\ Linked' = Linked /\ OpenPrs' = OpenPrs
  BY <1>0 DEF Merged, Linked, OpenPrs
<1>7. DoneMeansMerged' /\ CopiesOK'
  BY <1>0, <1>1, <1>6 DEF DoneMeansMerged, CopiesOK
<1>8. LinksExist'
  BY <1>0, <1>1, <1>6 DEF LinksExist
<1> QED BY <1>2, <1>3, <1>4, <1>5, <1>7, <1>8 DEF GenerationInv

LEMMA InvByWriteMerged ==
    ASSUME GenerationInv, WriteMerged
    PROVE  GenerationInv'
<1>0. /\ TypeOK /\ MembersInv(Steps) /\ TicksOK /\ OneWriteAfterRevocation /\ LateOK
      /\ EveryWriteIsAudited /\ AuditFollows /\ DoneMeansMerged /\ CopiesOK /\ LinksExist
      /\ UNCHANGED <<approval, job, member, calls, evidence, write, github, tick, late, faults>>
      /\ Requested' = Requested /\ webhook.pc = "write"
  BY DEF GenerationInv, WriteMerged, Requested
<1>1. /\ webhook' = IdleWebhook /\ Merged /\ webhook.copy \in Seq(Steps) /\ Len(webhook.copy) = 1
      /\ rec' \in {"active", "dismissed", "accepted"}
  BY <1>0 DEF WriteMerged, TypeOK, MembersTypeOK, CopiesOK
<1>2. step' \in Steps /\ step'.made = webhook.copy[1].made
  <2> DEFINE copy == webhook.copy[1]
  <2>1. copy \in Steps
    BY <1>1, ElementOfSeq
  <2>2. step' = [copy EXCEPT !.state = "done"]
    BY DEF WriteMerged
  <2> HIDE DEF copy
  <2>3. step' \in Steps /\ step'.made = copy.made
    BY <2>1, <2>2 DEF Steps
  <2> QED BY <2>3 DEF copy
<1>3. TypeOK'
  <2>1. webhook' \in [pc : {"idle", "write"}, pr : Nat, copy : Seq(Steps),
                      rec : {"", "active", "dismissed", "accepted"}]
    BY <1>1, EmptySeq DEF IdleWebhook
  <2>2. MembersTypeOK(Steps)'
    BY <1>0, <1>1 DEF TypeOK, MembersTypeOK
  <2> QED BY <1>0, <1>2, <2>1, <2>2 DEF TypeOK
<1>4. MembersInv(Steps)'
  BY <1>0, <1>1, MembersKept DEF MembersInv, MembersTypeOK, JobsRequested
<1>5. TicksOK' /\ OneWriteAfterRevocation' /\ LateOK'
  BY <1>0 DEF TicksOK, OneWriteAfterRevocation, LateOK, Mine
<1>6. EveryWriteIsAudited' /\ AuditFollows'
  BY <1>0 DEF EveryWriteIsAudited, AuditFollows, AtGithub, Kind
<1>7. Merged' = Merged /\ Linked' = Linked /\ OpenPrs' = OpenPrs
  BY <1>0 DEF Merged, Linked, OpenPrs
<1>8. DoneMeansMerged' /\ CopiesOK'
  BY <1>0, <1>1, <1>7 DEF DoneMeansMerged, CopiesOK, IdleWebhook
<1>9. LinksExist'
  BY <1>0, <1>1, <1>2, <1>7 DEF LinksExist, IdleWebhook
<1> QED BY <1>3, <1>4, <1>5, <1>6, <1>8, <1>9 DEF GenerationInv

LEMMA InvAtInit ==
    ASSUME Init
    PROVE  GenerationInv
<1>0. /\ MembersInit /\ step = [state |-> "available", made |-> 0] /\ evidence = [id \in Ids |-> {}]
      /\ write = [k \in Kinds |-> NoWrite] /\ github = [branch |-> FALSE, file |-> 0, prs |-> <<>>]
      /\ tick = [t \in Ticks |-> IdleTick] /\ webhook = IdleWebhook
      /\ late = [id \in Ids |-> 0] /\ faults = 0
  BY DEF Init
<1>1. MembersInv(Steps) /\ step \in Steps
  BY <1>0, MembersStart DEF Steps
<1>2. IdleTick \in TickState /\ IdleTick.pc = "idle" /\ IdleTick.id = 0 /\ IdleTick.pr = 0
  <2>1. 0 \in 0 .. MaxApprovals /\ <<>> \in Seq(Steps)
    BY ApprovalsAssumption DEF ApprovalsAssumption
  <2> QED BY <2>1, Names DEF IdleTick, TickState
<1>3. /\ \A id \in Ids : job[id].phase \in 1 .. Len(Phases) + 1
      /\ rec = "active" /\ \A m \in Members : member[m].pc = "idle"
  <2>1. \A id \in Ids : job[id].phase = 1
    BY <1>0 DEF MembersInit, NoJob
  <2>2. rec = "active" /\ \A m \in Members : member[m].pc = "idle"
    BY <1>0 DEF MembersInit, IdleMember
  <2> QED BY <2>1, <2>2, Names
<1>4. TypeOK
  <2>1. MembersTypeOK(Steps) /\ \A id \in Ids : job[id].phase \in 1 .. Len(Phases) + 1
    BY <1>1, <1>3 DEF MembersInv
  <2>2. write \in [Kinds -> [state : {"absent", "planned", "failed", "succeeded"}, pr : Nat]]
    BY <1>0 DEF NoWrite
  <2>3. github \in [branch : BOOLEAN, file : 0 .. MaxApprovals, prs : Seq({"open", "merged", "closed"})]
    <3>1. 0 \in 0 .. MaxApprovals
      BY ApprovalsAssumption DEF ApprovalsAssumption
    <3> QED BY <1>0, <3>1
  <2>4. webhook \in [pc : {"idle", "write"}, pr : Nat, copy : Seq(Steps),
                     rec : {"", "active", "dismissed", "accepted"}]
    BY <1>0, EmptySeq DEF IdleWebhook
  <2>5. late \in [Ids -> Nat] /\ faults \in 0 .. MaxFaults
    BY <1>0, GenerationAssumption DEF GenerationAssumption
  <2>6. evidence \in [Ids -> SUBSET ({"baseline"} \cup Patches)] /\ tick \in [Ticks -> TickState]
    BY <1>0, <1>2
  <2> QED BY <1>1, <2>1, <2>2, <2>3, <2>4, <2>5, <2>6 DEF TypeOK
<1>5. TicksOK /\ OneWriteAfterRevocation
  <2>1. \A t \in Ticks : tick[t].pc = "idle" /\ Mine(t) = 0
    BY <1>0, <1>2 DEF Mine
  <2>2. TicksOK
    BY <2>1 DEF TicksOK
  <2> QED BY <1>0, <2>2 DEF OneWriteAfterRevocation
<1>6. LateOK
  BY <1>0, <1>2 DEF LateOK
<1>7. EveryWriteIsAudited /\ AuditFollows
  BY <1>0, <1>2, Names DEF EveryWriteIsAudited, AuditFollows, NoWrite
<1>8. DoneMeansMerged /\ CopiesOK
  BY <1>0, <1>2, <1>3 DEF DoneMeansMerged, CopiesOK, IdleWebhook
<1>9. LinksExist
  <2>1. Linked = 0 .. 0 /\ OpenPrs = {} /\ write["pr"].pr = 0
    BY <1>0, Names DEF Linked, OpenPrs, NoWrite
  <2>2. \A t \in Ticks : tick[t].pc = "idle" /\ tick[t].pr = 0
    BY <1>0, <1>2
  <2>3. webhook.pc = "idle" /\ step.made = 0 /\ 0 \in Linked
    <3>1. webhook.pc = "idle" /\ step.made = 0
      BY <1>0 DEF IdleWebhook
    <3>2. 0 \in Linked
      BY <2>1
    <3> QED BY <3>1, <3>2
  <2> QED BY <1>3, <2>1, <2>2, <2>3 DEF LinksExist
<1> QED BY <1>1, <1>4, <1>5, <1>6, <1>7, <1>8, <1>9 DEF GenerationInv

LEMMA InvByStutter ==
    ASSUME GenerationInv, UNCHANGED vars
    PROVE  GenerationInv'
<1>0. /\ TypeOK /\ MembersInv(Steps) /\ TicksOK /\ OneWriteAfterRevocation /\ LateOK
      /\ EveryWriteIsAudited /\ AuditFollows /\ DoneMeansMerged /\ CopiesOK /\ LinksExist
      /\ UNCHANGED <<approval, job, rec, step, member, calls, evidence, write, github, tick, webhook,
                     late, faults>>
      /\ Requested' = Requested
  BY DEF GenerationInv, vars, memberVars, genVars, Requested
<1>1. TypeOK' /\ MembersInv(Steps)'
  <2>1. MembersTypeOK(Steps)'
    BY <1>0 DEF TypeOK, MembersTypeOK
  <2>2. MembersInv(Steps)'
    BY <1>0, MembersKept DEF MembersInv, MembersTypeOK, JobsRequested
  <2> QED BY <1>0, <2>1, <2>2 DEF TypeOK
<1>2. TicksOK' /\ OneWriteAfterRevocation' /\ LateOK'
  BY <1>0 DEF TicksOK, OneWriteAfterRevocation, LateOK, Mine
<1>3. EveryWriteIsAudited' /\ AuditFollows'
  BY <1>0 DEF EveryWriteIsAudited, AuditFollows, AtGithub, Kind
<1>4. Merged' = Merged /\ Linked' = Linked /\ OpenPrs' = OpenPrs
  BY <1>0 DEF Merged, Linked, OpenPrs
<1>5. DoneMeansMerged' /\ CopiesOK' /\ LinksExist'
  BY <1>0, <1>4 DEF DoneMeansMerged, CopiesOK, LinksExist
<1> QED BY <1>1, <1>2, <1>3, <1>5 DEF GenerationInv

LEMMA GenerationInvariant == Spec => []GenerationInv
<1>1. Init => GenerationInv
  BY InvAtInit
<1>2. GenerationInv /\ [Next]_vars => GenerationInv'
  <2> SUFFICES ASSUME GenerationInv, [Next]_vars PROVE GenerationInv'
    OBVIOUS
  <2>1. ASSUME NEW m \in Members, Request(m), UNCHANGED genVars PROVE GenerationInv'
    BY <2>1, InvByMember
  <2>2. ASSUME NEW t \in Ticks, Execute(t) PROVE GenerationInv'
    BY <2>2, InvByTick
  <2>3. ASSUME NEW n \in DOMAIN github.prs, ClosePr(n) \/ ReadMerged(n) PROVE GenerationInv'
    BY <2>3, InvByClosePr, InvByReadMerged
  <2>4. CASE WriteMerged
    BY <2>4, InvByWriteMerged
  <2>5. CASE UNCHANGED vars
    BY <2>5, InvByStutter
  <2> QED BY <2>1, <2>2, <2>3, <2>4, <2>5 DEF Next
<1> QED BY <1>1, <1>2, PTL DEF Spec

-----------------------------------------------------------------------------
(* Theorems.                                                               *)

\* Type correctness of the tables, of what GitHub holds and of the executors.
THEOREM GenerationTypeCorrect == Spec => []TypeOK
<1>1. GenerationInv => TypeOK
  BY DEF GenerationInv
<1> QED BY <1>1, GenerationInvariant, PTL

\* A revoked approval stops its job but for the one write that was verified before, however
\* often the job is resumed or retried, by however many ticks (agent-prgen.ts:221-225).
THEOREM RevocationStopsWrites == Spec => []OneWriteAfterRevocation
<1>1. GenerationInv => OneWriteAfterRevocation
  BY DEF GenerationInv
<1> QED BY <1>1, GenerationInvariant, PTL

\* The audit knows of every write at GitHub, and claims none that is not there
\* (agent-prgen.ts:265-269).
THEOREM WritesAreAudited == Spec => []EveryWriteIsAudited
<1>1. GenerationInv => EveryWriteIsAudited
  BY DEF GenerationInv
<1> QED BY <1>1, GenerationInvariant, PTL

\* No step is done, and no recommendation accepted, before a generated pull request was
\* merged (github-webhook-store.ts:303-309).
THEOREM DoneOnlyWhenMerged == Spec => []DoneMeansMerged
<1>1. GenerationInv => DoneMeansMerged
  BY DEF GenerationInv
<1> QED BY <1>1, GenerationInvariant, PTL

\* No interleaving of members' decisions brings an approval back, or rejects an approved one
\* (transitions.ts:31-37, actions.ts:336-345).
THEOREM DecisionsStand == Spec => DecisionsAreFinal
<1> DEFINE Forward == \A id \in Requested :
                         approval'[id] # approval[id] => <<approval[id], approval'[id]>> \in ApprovalMoves
<1>1. GenerationInv /\ [Next]_vars => [Forward]_memberVars
  <2> SUFFICES ASSUME GenerationInv, [Next]_vars PROVE Forward
    OBVIOUS
  <2>1. ASSUME NEW m \in Members, Request(m) PROVE Forward
    BY <2>1, MovesByRequest, ApprovalsForward DEF GenerationInv, MembersInv
  <2>2. CASE UNCHANGED approval
    BY <2>2
  <2>3. ASSUME NEW t \in Ticks, Execute(t) PROVE UNCHANGED approval
    BY <2>3, RowsKept
  <2>4. CASE \/ \E n \in DOMAIN github.prs : ClosePr(n) \/ ReadMerged(n)
             \/ WriteMerged \/ UNCHANGED vars
    BY <2>2, <2>4 DEF ClosePr, ReadMerged, WriteMerged, vars, memberVars
  <2> HIDE DEF Forward
  <2> QED BY <2>1, <2>2, <2>3, <2>4 DEF Next
<1>2. [][Forward]_memberVars => DecisionsAreFinal
  BY DEF DecisionsAreFinal
<1> QED BY <1>1, <1>2, GenerationInvariant, PTL DEF Spec
=============================================================================
