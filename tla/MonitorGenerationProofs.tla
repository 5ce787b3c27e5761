----------------------- MODULE MonitorGenerationProofs -----------------------
(***************************************************************************)
(* Generated monitors: on which metrics, how many for a step, and what an  *)
(* analysis may replace.                                                   *)
(***************************************************************************)
EXTENDS MonitorGeneration, ApprovalsProofs

JobRows == [state : {"absent", "queued", "running", "failed", "succeeded"}, phase : Nat]

PhaseNames == {"inspect", "draft_monitor", "validate"}

LEMMA Names ==
    /\ DOMAIN Phases = 1 .. 3 /\ Len(Phases) = 3 /\ \A n \in 1 .. 3 : Phases[n] \in PhaseNames
    /\ {Phases[n] : n \in DOMAIN Phases} = PhaseNames
<1>1. DOMAIN Phases = 1 .. 3 /\ Len(Phases) = 3
  BY DEF Phases
<1>2. Phases[1] = "inspect" /\ Phases[2] = "draft_monitor" /\ Phases[3] = "validate"
  BY DEF Phases
<1>3. {Phases[n] : n \in DOMAIN Phases} = PhaseNames
  BY <1>1, <1>2 DEF PhaseNames
<1> QED BY <1>1, <1>2, <1>3 DEF PhaseNames

LEMMA IdleTypes ==
    /\ 0 \in Specs /\ 0 \notin Ids
    /\ IdleTick \in TickState /\ IdleTick.pc = "idle" /\ IdleTick.id = 0
    /\ NoAnalysis \in AnalysisState /\ NoAnalysis.pc = "gather"
<1>1. 0 \in 0 .. MaxApprovals /\ <<>> \in Seq(Steps) /\ 0 \notin Ids
  BY ApprovalsAssumption DEF ApprovalsAssumption, Ids
<1>2. 0 \in Specs
  BY DEF Specs
<1>3. IdleTick \in TickState /\ IdleTick.pc = "idle" /\ IdleTick.id = 0
  BY <1>1, <1>2 DEF IdleTick, TickState
<1>4. NoAnalysis \in AnalysisState /\ NoAnalysis.pc = "gather"
  BY <1>1 DEF NoAnalysis, AnalysisState, Findings
<1> QED BY <1>1, <1>2, <1>3, <1>4

LEMMA MonTypes ==
    ASSUME TypeOK
    PROVE  /\ tick \in [Ticks -> TickState] /\ \A t \in Ticks : tick[t] \in TickState
           /\ \A t \in Ticks : Mine(t) \in 0 .. MaxApprovals
           /\ \A id \in Ids : job[id] \in JobRows /\ job[id].phase \in 1 .. 4
           /\ \A id \in Ids : id \in 0 .. MaxApprovals
           /\ MaxFaults \in Nat /\ step \in Steps /\ step.spec \in Specs /\ write.made \in Nat
           /\ Len(monitors) \in Nat
<1>1. tick \in [Ticks -> TickState] /\ \A t \in Ticks : tick[t] \in TickState
  BY DEF TypeOK
<1>2. \A t \in Ticks : Mine(t) \in 0 .. MaxApprovals
  BY <1>1 DEF Mine, TickState
<1>3. \A id \in Ids : job[id] \in JobRows /\ job[id].phase \in 1 .. 4
  <2>1. Len(Phases) = 3
    BY Names
  <2>2. job \in [Ids -> JobRows] /\ \A id \in Ids : job[id].phase \in 1 .. Len(Phases) + 1
    BY DEF TypeOK, MembersTypeOK, JobRows
  <2> QED BY <2>1, <2>2
<1>4. MaxFaults \in Nat /\ \A id \in Ids : id \in 0 .. MaxApprovals
  BY MonitorsAssumption, ApprovalsAssumption DEF MonitorsAssumption, ApprovalsAssumption, Ids
<1>5. step \in Steps /\ step.spec \in Specs /\ write.made \in Nat
  BY DEF TypeOK, Steps
<1>6. Len(monitors) \in Nat
  BY LenProperties DEF TypeOK
<1> QED BY <1>1, <1>2, <1>3, <1>4, <1>5, <1>6

LEMMA MineRequested ==
    ASSUME TypeOK, TicksOK, NEW t \in Ticks, tick[t].pc # "idle"
    PROVE  Mine(t) \in Requested /\ Mine(t) \in Ids /\ Mine(t) # 0
<1>1. MembersTypeOK(Steps)
  BY DEF TypeOK
<1> QED BY <1>1, MemberTypes, IdleTypes DEF TicksOK

-----------------------------------------------------------------------------
(* What a step of an executor does to its own state and to the jobs.       *)

\* Whose job it is: nobody's, the same, or one that nobody has.
WorksOn(t) ==
    \/ tick'[t] = IdleTick
    \/ tick[t].pc # "idle" /\ tick'[t].id = Mine(t)
    \/ /\ tick'[t].id \in Ids /\ job[tick'[t].id].state # "absent"
       /\ \A u \in Ticks : Mine(u) # tick'[t].id

\* How it comes to hold what its next step relies on.
Outcome(t) ==
    /\ tick' \in [Ticks -> TickState] /\ \A u \in Ticks \ {t} : tick'[u] = tick[u]
    /\ WorksOn(t)
    /\ tick'[t].pc \in Creating => tick'[t].id = Mine(t) /\ tick[t].pc # "idle"
    /\ tick'[t].pc = "assert" => CanCreate /\ Approved(Mine(t)) /\ tick'[t].spec = step.spec
    /\ tick'[t].pc = "insert" =>
          tick[t].pc = "assert" /\ Approved(Mine(t)) /\ tick'[t].spec = tick[t].spec
    /\ tick'[t].pc = "search" => tick[t].pc = "insert" /\ tick'[t].spec = tick[t].spec
    /\ tick'[t].pc = "create" => tick[t].pc = "search" /\ tick'[t].spec = tick[t].spec
    /\ tick'[t].pc = "create" =>
          \/ monitors = <<>> /\ UNCHANGED misses
          \/ misses' = misses + 1
    /\ tick'[t].pc \in {"read_steps", "write_steps"} => tick'[t].set # "" /\ tick'[t].then # ""
    /\ tick'[t].pc = "write_steps" =>
          /\ ReadStep(t) /\ tick'[t].id = Mine(t)
          /\ Len(tick'[t].copy) = 1 /\ tick'[t].copy[1] = step

Elsewhere == {"idle", "done", "read_steps", "mark"} \cup PhaseNames

LEMMA OutcomeElsewhere ==
    ASSUME TypeOK, NEW t \in Ticks, NEW new \in TickState, tick' = [tick EXCEPT ![t] = new],
           new.pc \in Elsewhere, new.pc = "read_steps" => new.set # "" /\ new.then # "",
           \/ new = IdleTick
           \/ tick[t].pc # "idle" /\ new.id = Mine(t)
           \/ /\ new.id \in Ids /\ job[new.id].state # "absent"
              /\ \A u \in Ticks : Mine(u) # new.id
    PROVE  Outcome(t)
<1>1. /\ tick' \in [Ticks -> TickState] /\ \A u \in Ticks \ {t} : tick'[u] = tick[u]
      /\ tick'[t] = new
  BY DEF TypeOK
<1> QED BY <1>1 DEF Outcome, WorksOn, Elsewhere, PhaseNames, Creating

LEMMA OutcomeIdle ==
    ASSUME TypeOK, NEW t \in Ticks, tick' = [tick EXCEPT ![t] = IdleTick]
    PROVE  Outcome(t)
BY IdleTypes, OutcomeElsewhere DEF Elsewhere

LEMMA OutcomeDone ==
    ASSUME TypeOK, NEW t \in Ticks, tick[t].pc # "idle", Go(t, "done")
    PROVE  Outcome(t)
<1> DEFINE new == [tick[t] EXCEPT !.pc = "done"]
<1>0. tick[t] \in TickState
  BY MonTypes
<1>1. new \in TickState /\ new.pc = "done" /\ new.id = Mine(t)
  BY <1>0 DEF TickState, Mine
<1>2. tick' = [tick EXCEPT ![t] = new]
  BY DEF Go
<1> HIDE DEF new
<1> QED BY <1>1, <1>2, OutcomeElsewhere DEF Elsewhere

LEMMA OutcomeSet ==
    ASSUME TypeOK, NEW t \in Ticks, tick[t].pc # "idle",
           NEW what \in {"generating", "link", "ready", "failed"}, NEW then \in {"done", "refuse"},
           SetStep(t, what, then)
    PROVE  Outcome(t)
<1> DEFINE new == [tick[t] EXCEPT !.pc = "read_steps", !.set = what, !.then = then]
<1>0. tick[t] \in TickState
  BY MonTypes
<1>1. new \in TickState /\ new.pc = "read_steps" /\ new.id = Mine(t) /\ new.set = what /\ new.then = then
  BY <1>0 DEF TickState, Mine
<1>2. tick' = [tick EXCEPT ![t] = new]
  BY DEF SetStep, TypeOK
<1> HIDE DEF new
<1> QED BY <1>1, <1>2, OutcomeElsewhere DEF Elsewhere

LEMMA OutcomeRecover ==
    ASSUME TypeOK, NEW t \in Ticks, tick[t].pc # "idle", NEW n \in Nat, Recover(t, n)
    PROVE  Outcome(t)
<1> DEFINE new == [tick[t] EXCEPT !.pc = "mark", !.made = n]
<1>0. tick[t] \in TickState
  BY MonTypes
<1>1. new \in TickState /\ new.pc = "mark" /\ new.id = Mine(t)
  BY <1>0 DEF TickState, Mine
<1>2. tick' = [tick EXCEPT ![t] = new]
  BY DEF Recover, TypeOK
<1> HIDE DEF new
<1> QED BY <1>1, <1>2, OutcomeElsewhere DEF Elsewhere

LEMMA OutcomeStarts ==
    ASSUME TypeOK, NEW t \in Ticks, NEW pc \in PhaseNames \cup {"done"},
           NEW id \in 0 .. MaxApprovals,
           tick' = [tick EXCEPT ![t] = [IdleTick EXCEPT !.pc = pc, !.id = id]],
           \/ tick[t].pc # "idle" /\ id = Mine(t)
           \/ id \in Ids /\ job[id].state # "absent" /\ \A u \in Ticks : Mine(u) # id
    PROVE  Outcome(t)
<1> DEFINE new == [IdleTick EXCEPT !.pc = pc, !.id = id]
<1>1. new \in TickState /\ new.pc = pc /\ new.id = id
  BY IdleTypes, Names DEF TickState
<1>2. tick' = [tick EXCEPT ![t] = new]
  OBVIOUS
<1>3. new.pc \in Elsewhere /\ new.pc # "read_steps"
  BY <1>1 DEF Elsewhere, PhaseNames
<1> HIDE DEF new
<1> QED BY <1>1, <1>2, <1>3, OutcomeElsewhere

LEMMA OutcomeResumes ==
    ASSUME TypeOK, NEW t \in Ticks, NEW phase, NEW id \in 0 .. MaxApprovals,
           tick' = [tick EXCEPT ![t] = Resumed(id, phase)],
           \/ tick[t].pc # "idle" /\ id = Mine(t)
           \/ id \in Ids /\ job[id].state # "absent" /\ \A u \in Ticks : Mine(u) # id
    PROVE  Outcome(t)
<1> DEFINE pc == IF phase \in DOMAIN Phases THEN Phases[phase] ELSE "done"
<1>1. pc \in PhaseNames \cup {"done"}
  BY Names
<1>2. tick' = [tick EXCEPT ![t] = [IdleTick EXCEPT !.pc = pc, !.id = id]]
  BY DEF Resumed
<1> HIDE DEF pc
<1> QED BY <1>1, <1>2, OutcomeStarts

LEMMA OutcomeStep ==
    ASSUME TypeOK, TicksOK, NEW t \in Ticks, Execute(t)
    PROVE  Outcome(t)
<1>0. /\ tick[t] \in TickState /\ tick \in [Ticks -> TickState]
      /\ \A id \in Ids : job[id] \in JobRows
      /\ Mine(t) \in 0 .. MaxApprovals /\ step \in Steps /\ step.spec \in Specs
      /\ write.made \in Nat /\ Len(monitors) \in Nat /\ \A id \in Ids : id \in 0 .. MaxApprovals
  BY MonTypes, Names
<1>1. CASE tick' = [tick EXCEPT ![t] = IdleTick]
  BY <1>1, OutcomeIdle
<1>2. CASE tick[t].pc # "idle" /\ Go(t, "done")
  BY <1>2, OutcomeDone
<1>3. CASE /\ tick[t].pc # "idle"
           /\ \E what \in {"generating", "link", "ready", "failed"}, then \in {"done", "refuse"} :
                 SetStep(t, what, then)
  BY <1>3, OutcomeSet
<1>4. ASSUME NEW id \in Ids, Claim(t, id) PROVE Outcome(t)
  <2> DEFINE phase == job[id].phase
  <2>1. tick' = [tick EXCEPT ![t] = Resumed(id, phase)]
        /\ job[id].state # "absent" /\ \A u \in Ticks : Mine(u) # id
    BY <1>4 DEF Claim
  <2> HIDE DEF phase
  <2> QED BY <1>0, <2>1, OutcomeResumes
<1>5. CASE PhaseDone(t)
  <2>1. CASE tick' = [tick EXCEPT ![t] = Resumed(Mine(t), job[Mine(t)].phase + 1)]
    <3>1. Mine(t) \in Ids /\ tick[t].pc # "idle"
      BY <1>5, MineRequested DEF PhaseDone
    <3> DEFINE phase == job[Mine(t)].phase + 1
    <3>2. tick' = [tick EXCEPT ![t] = Resumed(Mine(t), phase)]
      BY <2>1
    <3> HIDE DEF phase
    <3> QED BY <1>0, <3>1, <3>2, OutcomeResumes
  <2> QED BY <1>1, <1>5, <2>1 DEF PhaseDone
<1>6. CASE ReadStep(t)
  <2> DEFINE new == [tick[t] EXCEPT !.pc = "write_steps", !.copy = <<step>>]
  <2>0. <<step>> \in Seq(Steps) /\ Len(<<step>>) = 1 /\ <<step>>[1] = step /\ tick[t].pc # "idle"
        /\ tick[t].set # "" /\ tick[t].then # ""
    BY <1>0, <1>6, OneStep DEF ReadStep, TicksOK
  <2>1. /\ new \in TickState /\ new.pc = "write_steps" /\ new.id = Mine(t)
        /\ new.copy = <<step>> /\ new.set = tick[t].set /\ new.then = tick[t].then
    BY <1>0, <2>0 DEF TickState, Mine
  <2>2. tick' = [tick EXCEPT ![t] = new]
    BY <1>0, <1>6 DEF ReadStep
  <2> HIDE DEF new
  <2> QED BY <1>0, <1>6, <2>0, <2>1, <2>2 DEF Outcome, WorksOn, Creating
<1>7. CASE WriteStep(t)
  <2>1. tick[t].then \in {"done", "refuse"} /\ tick[t].pc # "idle"
    BY <1>0, <1>7 DEF WriteStep, TicksOK, TickState
  <2>2. Refuse(t) \/ Go(t, "done")
    BY <1>7, <2>1 DEF WriteStep
  <2> QED BY <1>1, <1>2, <2>1, <2>2 DEF Refuse, EndsIn
<1>8. CASE Inspect(t)
  BY <1>1, <1>3, <1>8 DEF Inspect, Refuse, EndsIn
<1>9. CASE DraftMonitor(t)
  <2> DEFINE link == [tick[t] EXCEPT !.pc = "read_steps", !.set = "link", !.then = "done", !.made = write.made]
             begin == [tick[t] EXCEPT !.pc = "assert", !.spec = ProposedPayload]
             giveUp == [tick[t] EXCEPT !.pc = "read_steps", !.set = "failed", !.then = "refuse"]
  <2>0. tick[t].pc # "idle"
    BY <1>9 DEF DraftMonitor
  <2>1. \/ tick' = [tick EXCEPT ![t] = IdleTick]
        \/ tick' = [tick EXCEPT ![t] = link]
        \/ CanCreate /\ Approved(Mine(t)) /\ tick' = [tick EXCEPT ![t] = begin]
        \/ tick' = [tick EXCEPT ![t] = giveUp]
    BY <1>9 DEF DraftMonitor, Refuse, EndsIn
  <2>2. link \in TickState /\ link.pc = "read_steps" /\ link.id = Mine(t) /\ link.set = "link" /\ link.then = "done"
    BY <1>0 DEF TickState, Mine
  <2>3. begin \in TickState /\ begin.pc = "assert" /\ begin.id = Mine(t) /\ begin.spec = step.spec
    BY <1>0 DEF TickState, Mine, ProposedPayload
  <2>4. /\ giveUp \in TickState /\ giveUp.pc = "read_steps" /\ giveUp.id = Mine(t)
        /\ giveUp.set = "failed" /\ giveUp.then = "refuse"
    BY <1>0 DEF TickState, Mine
  <2> HIDE DEF link, begin, giveUp
  <2>5. CASE tick' = [tick EXCEPT ![t] = link]
    BY <2>0, <2>2, <2>5, OutcomeElsewhere DEF Elsewhere
  <2>6. CASE tick' = [tick EXCEPT ![t] = giveUp]
    BY <2>0, <2>4, <2>6, OutcomeElsewhere DEF Elsewhere
  <2>7. CASE CanCreate /\ Approved(Mine(t)) /\ tick' = [tick EXCEPT ![t] = begin]
    BY <1>0, <2>0, <2>3, <2>7 DEF Outcome, WorksOn, Creating
  <2> QED BY <1>1, <2>1, <2>5, <2>6, <2>7
<1>10. CASE AssertApproved(t)
  <2>1. CASE Approved(Mine(t)) /\ Go(t, "insert")
    <3> DEFINE new == [tick[t] EXCEPT !.pc = "insert"]
    <3>1. new \in TickState /\ new.pc = "insert" /\ new.id = Mine(t) /\ new.spec = tick[t].spec
      BY <1>0 DEF TickState, Mine
    <3>2. tick' = [tick EXCEPT ![t] = new] /\ tick[t].pc = "assert"
      BY <1>10, <2>1 DEF Go, AssertApproved
    <3> HIDE DEF new
    <3> QED BY <1>0, <2>1, <3>1, <3>2 DEF Outcome, WorksOn, Creating
  <2> QED BY <1>1, <1>10, <2>1 DEF AssertApproved, Refuse, EndsIn
<1>11. CASE InsertWrite(t)
  <2>1. Go(t, "search")
    BY <1>11 DEF InsertWrite
  <2>2. Outcome(t)
    <3> DEFINE new == [tick[t] EXCEPT !.pc = "search"]
    <3>1. new \in TickState /\ new.pc = "search" /\ new.id = Mine(t) /\ new.spec = tick[t].spec
      BY <1>0 DEF TickState, Mine
    <3>2. tick' = [tick EXCEPT ![t] = new] /\ tick[t].pc = "insert"
      BY <1>11, <2>1 DEF Go, InsertWrite
    <3> HIDE DEF new
    <3> QED BY <1>0, <2>1, <3>1, <3>2 DEF Outcome, WorksOn, Creating
  <2> QED BY <2>2
<1>15. CASE Search(t)
  <2>0. tick[t].pc # "idle"
    BY <1>15 DEF Search
  <2>1. CASE Go(t, "create") /\ ((monitors = <<>> /\ UNCHANGED misses) \/ misses' = misses + 1)
    <3> DEFINE new == [tick[t] EXCEPT !.pc = "create"]
    <3>1. new \in TickState /\ new.pc = "create" /\ new.id = Mine(t) /\ new.spec = tick[t].spec
      BY <1>0 DEF TickState, Mine
    <3>2. tick' = [tick EXCEPT ![t] = new] /\ tick[t].pc = "search"
      BY <1>15, <2>1 DEF Go, Search
    <3> HIDE DEF new
    <3> QED BY <1>0, <2>1, <3>1, <3>2 DEF Outcome, WorksOn, Creating
  <2>2. CASE Recover(t, 1)
    BY <2>0, <2>2, OutcomeRecover
  <2> QED BY <1>15, <2>1, <2>2 DEF Search
<1>12. CASE Create(t)
  <2> DEFINE n == Len(monitors) + 1
  <2>1. n \in Nat /\ Recover(t, n) /\ tick[t].pc # "idle"
    BY <1>0, <1>12 DEF Create
  <2> HIDE DEF n
  <2> QED BY <2>1, OutcomeRecover
<1>13. CASE MarkWrite(t) \/ Validate(t)
  BY <1>3, <1>13 DEF MarkWrite, Validate
<1>14. CASE CreateFails(t) \/ TickFails(t)
  BY <1>1, <1>14 DEF CreateFails, TickFails, Throw, EndsIn
<1> QED BY <1>4, <1>5, <1>6, <1>7, <1>8, <1>9, <1>10, <1>11, <1>12, <1>13, <1>14, <1>15
        DEF Execute

LEMMA RowsKept ==
    ASSUME NEW t \in Ticks, Execute(t)
    PROVE  /\ UNCHANGED <<approval, rec, member, calls, analysis>>
           /\ UNCHANGED <<live, losses, passed, asked>>
BY DEF Execute, Claim, PhaseDone, ReadStep, WriteStep, Inspect, DraftMonitor, AssertApproved,
   InsertWrite, Search, Create, CreateFails, MarkWrite, Validate, TickFails, rows, metricVars, specVars

\* An executor moves the row of the job it has.
LEMMA JobsByTick ==
    ASSUME TypeOK, TicksOK, MembersInv(Steps), NEW t \in Ticks, Execute(t)
    PROVE  /\ job' \in [Ids -> JobRows] /\ \A id \in Ids : job'[id].phase \in 1 .. 4
           /\ \A id \in Ids : job'[id].state # "absent" => id \in Requested
<1> DEFINE States == {"queued", "running", "failed", "succeeded"}
<1>0. /\ job \in [Ids -> JobRows] /\ \A id \in Ids : job[id].phase \in 1 .. 4
      /\ \A id \in Ids : job[id].state # "absent" => id \in Requested
      /\ Len(Phases) = 3
  BY MonTypes, Names DEF MembersInv, JobsRequested, TypeOK, MembersTypeOK, JobRows
<1>1. \/ UNCHANGED job
      \/ \E id \in Requested \cap Ids, s \in States : job' = [job EXCEPT ![id].state = s]
      \/ /\ tick[t].pc # "idle"
         /\ \E row \in JobRows : row.phase \in 1 .. 4 /\ job' = [job EXCEPT ![Mine(t)] = row]
  <2>1. CASE tick[t].pc # "idle" /\ \E s \in States : job' = [job EXCEPT ![Mine(t)].state = s]
    BY <2>1, MineRequested
  <2>2. CASE \E id \in Ids : Claim(t, id)
    <3>1. PICK id \in Ids : Claim(t, id)
      BY <2>2
    <3>2. id \in Requested \cap Ids /\ job' = [job EXCEPT ![id].state = "running"]
      BY <1>0, <3>1 DEF Claim
    <3>3. "running" \in States
      OBVIOUS
    <3> HIDE DEF States
    <3> QED BY <3>2, <3>3
  <2>3. CASE UNCHANGED job
    BY <2>3
  <2>4. CASE PhaseDone(t)
    <3>1. Mine(t) \in Ids /\ tick[t].pc # "idle"
      BY <2>4, MineRequested DEF PhaseDone
    <3> DEFINE next == [job[Mine(t)] EXCEPT !.phase = job[Mine(t)].phase + 1]
               last == [state |-> "succeeded", phase |-> Len(Phases) + 1]
    <3>2. job[Mine(t)].phase + 1 <= Len(Phases) => next \in JobRows /\ next.phase \in 1 .. 4
      BY <1>0, <3>1 DEF JobRows
    <3>3. last \in JobRows /\ last.phase \in 1 .. 4
      BY <1>0 DEF JobRows
    <3>4. \/ UNCHANGED job
          \/ job[Mine(t)].phase + 1 <= Len(Phases) /\ job' = [job EXCEPT ![Mine(t)] = next]
          \/ job' = [job EXCEPT ![Mine(t)] = last]
      BY <2>4 DEF PhaseDone
    <3> HIDE DEF next, last
    <3> QED BY <3>1, <3>2, <3>3, <3>4
  <2>5. CASE \/ Inspect(t) \/ DraftMonitor(t) \/ AssertApproved(t) \/ WriteStep(t)
             \/ CreateFails(t) \/ TickFails(t)
    <3>1. UNCHANGED job \/ Refuse(t) \/ Throw(t)
      BY <2>5 DEF Inspect, DraftMonitor, AssertApproved, WriteStep, CreateFails, TickFails
    <3>2. tick[t].pc # "idle"
      BY <2>5 DEF Inspect, DraftMonitor, AssertApproved, WriteStep, CreateFails, TickFails
    <3> QED BY <2>1, <2>3, <3>1, <3>2 DEF Refuse, Throw, EndsIn
  <2> QED BY <2>2, <2>3, <2>4, <2>5 DEF Execute, ReadStep, InsertWrite, Search, Create, MarkWrite,
          Validate
<1>2. CASE UNCHANGED job
  BY <1>0, <1>2
<1>3. ASSUME NEW id \in Ids, NEW row \in JobRows, row.phase \in 1 .. 4, id \in Requested,
             job' = [job EXCEPT ![id] = row]
      PROVE  /\ job' \in [Ids -> JobRows] /\ \A i \in Ids : job'[i].phase \in 1 .. 4
             /\ \A i \in Ids : job'[i].state # "absent" => i \in Requested
  BY <1>0, <1>3
<1>4. ASSUME NEW id \in Requested \cap Ids, NEW s \in States, job' = [job EXCEPT ![id].state = s]
      PROVE  /\ job' \in [Ids -> JobRows] /\ \A i \in Ids : job'[i].phase \in 1 .. 4
             /\ \A i \in Ids : job'[i].state # "absent" => i \in Requested
  <2> DEFINE row == [job[id] EXCEPT !.state = s]
  <2>1. row \in JobRows /\ row.phase = job[id].phase
    BY <1>0 DEF JobRows
  <2>2. job' = [job EXCEPT ![id] = row]
    BY <1>4
  <2> HIDE DEF row
  <2> QED BY <1>0, <1>3, <2>1, <2>2
<1>5. CASE tick[t].pc # "idle"
           /\ \E row \in JobRows : row.phase \in 1 .. 4 /\ job' = [job EXCEPT ![Mine(t)] = row]
  <2>1. Mine(t) \in Requested /\ Mine(t) \in Ids
    BY <1>5, MineRequested
  <2> QED BY <1>3, <1>5, <2>1
<1> QED BY <1>1, <1>2, <1>4, <1>5

LEMMA MembersByTick ==
    ASSUME TypeOK, TicksOK, MembersInv(Steps), NEW t \in Ticks, Execute(t)
    PROVE  MembersInv(Steps)'
<1>1. UNCHANGED <<approval, rec, member, calls>>
  BY RowsKept
<1>2. rec' \in {"active", "dismissed", "accepted"}
  BY <1>1 DEF TypeOK, MembersTypeOK
<1> QED BY <1>1, <1>2, JobsByTick, MembersKept DEF JobRows

LEMMA TicksByTick ==
    ASSUME TypeOK, TicksOK, MembersInv(Steps), NEW t \in Ticks, Execute(t)
    PROVE  TicksOK'
<1>1. Outcome(t) /\ UNCHANGED approval
  BY OutcomeStep, RowsKept
<1>2. IdleTick.pc = "idle" /\ IdleTick.id = 0 /\ 0 \notin Ids
  BY IdleTypes
<1>3. ASSUME NEW u \in Ticks, tick'[u].pc # "idle" PROVE tick'[u].id \in Requested
  <2>1. CASE u # t
    BY <1>1, <1>3, <2>1 DEF Outcome, TicksOK, Mine
  <2>2. CASE u = t
    BY <1>1, <1>2, <1>3, <2>2, MineRequested DEF Outcome, WorksOn, MembersInv, JobsRequested
  <2> QED BY <2>1, <2>2
<1>4. ASSUME NEW u \in Ticks, u # t, tick'[u].id = tick'[t].id, tick'[t].id # 0 PROVE FALSE
  BY <1>1, <1>2, <1>4 DEF Outcome, WorksOn, TicksOK, Mine
<1>5. ASSUME NEW u \in Ticks, NEW v \in Ticks, tick'[u].id = tick'[v].id, tick'[u].id # 0
      PROVE  u = v
  <2>1. CASE u # t /\ v # t
    BY <1>1, <1>5, <2>1 DEF Outcome, TicksOK, Mine
  <2> QED BY <1>4, <1>5, <2>1
<1>6. ASSUME NEW u \in Ticks
      PROVE  /\ tick'[u].pc \in {"read_steps", "write_steps"} => tick'[u].set # "" /\ tick'[u].then # ""
             /\ tick'[u].pc = "write_steps" => Len(tick'[u].copy) = 1
  BY <1>1, <1>6 DEF Outcome, TicksOK
<1> QED BY <1>1, <1>3, <1>5, <1>6 DEF TicksOK, Mine, Requested


-----------------------------------------------------------------------------
(* The monitors.                                                           *)

Made == [spec : Specs, id : Ids]

\* A tick that creates uses its turn up; every other step leaves the monitors alone.
LEMMA MonitorsByTick ==
    ASSUME TypeOK, TicksOK, NEW t \in Ticks, Execute(t)
    PROVE  \/ /\ UNCHANGED <<monitors, late, blind>> /\ misses' \in {misses, misses + 1}
           \/ /\ tick[t].pc = "create" /\ tick'[t].pc \notin Creating
              /\ Created(t) /\ UNCHANGED misses
<1>1. CASE Create(t) \/ CreateFails(t)
  <2>1. tick[t].pc = "create" /\ UNCHANGED misses
    BY <1>1 DEF Create, CreateFails
  <2>2. tick'[t].pc \notin Creating
    <3>1. tick \in [Ticks -> TickState] /\ tick[t] \in TickState /\ IdleTick.pc = "idle"
      BY MonTypes, IdleTypes
    <3>2. CASE Throw(t)
      BY <3>1, <3>2 DEF Throw, EndsIn, Creating
    <3>3. ASSUME NEW n, Recover(t, n) PROVE tick'[t].pc \notin Creating
      <4> DEFINE new == [tick[t] EXCEPT !.pc = "mark", !.made = n]
      <4>1. new.pc = "mark"
        BY <3>1 DEF TickState
      <4>2. tick' = [tick EXCEPT ![t] = new]
        BY <3>1, <3>3 DEF Recover
      <4> HIDE DEF new
      <4> QED BY <3>1, <4>1, <4>2 DEF Creating
    <3> QED BY <1>1, <3>2, <3>3 DEF Create, CreateFails
  <2> QED BY <1>1, <2>1, <2>2 DEF Create, CreateFails
<1>2. CASE Search(t)
  BY <1>2 DEF Search, metricVars
<1>3. CASE UNCHANGED <<monitors, late, misses, blind>>
  BY <1>3
<1> QED BY <1>1, <1>2, <1>3 DEF Execute, Claim, PhaseDone, ReadStep, WriteStep, Inspect,
        DraftMonitor, AssertApproved, InsertWrite, MarkWrite, Validate, TickFails, dataVars, metricVars

LEMMA CreatedTypes ==
    ASSUME TypeOK, TicksOK, NEW t \in Ticks, tick[t].pc # "idle", Created(t)
    PROVE  /\ monitors' \in Seq(Made) /\ Len(monitors') = Len(monitors) + 1
           /\ \A n \in DOMAIN monitors : monitors'[n] = monitors[n]
           /\ \A n \in DOMAIN monitors' \ DOMAIN monitors :
                 monitors'[n].spec = tick[t].spec /\ monitors'[n].id = Mine(t)
           /\ late' = (IF Approved(Mine(t)) THEN late ELSE late + 1) /\ late' \in Nat
           /\ blind' \in [Ids -> Nat] /\ \A id \in Ids \ {Mine(t)} : blind'[id] = blind[id]
           /\ live => UNCHANGED blind
           /\ blind'[Mine(t)] <= blind[Mine(t)] + 1
<1> DEFINE new == [spec |-> tick[t].spec, id |-> Mine(t)]
<1>0. /\ monitors \in Seq(Made) /\ late \in Nat /\ new \in Made /\ blind \in [Ids -> Nat]
      /\ Mine(t) \in Ids /\ new.spec = tick[t].spec /\ new.id = Mine(t)
  <2>1. tick[t].spec \in Specs /\ Mine(t) \in Ids
    BY MonTypes, MineRequested DEF TickState
  <2> QED BY <2>1 DEF TypeOK, Made
<1>1. monitors' = Append(monitors, new)
  BY DEF Created
<1> HIDE DEF new
<1>2. /\ monitors' \in Seq(Made) /\ Len(monitors') = Len(monitors) + 1
      /\ \A n \in 1 .. Len(monitors) : monitors'[n] = monitors[n]
      /\ monitors'[Len(monitors) + 1] = new
  BY <1>0, <1>1, AppendProperties
<1>3. /\ DOMAIN monitors = 1 .. Len(monitors) /\ DOMAIN monitors' = 1 .. (Len(monitors) + 1)
      /\ Len(monitors) \in Nat
  BY <1>0, <1>2, LenProperties
<1>4. \A n \in DOMAIN monitors' \ DOMAIN monitors : monitors'[n] = new
  BY <1>2, <1>3
<1>5. late' = (IF Approved(Mine(t)) THEN late ELSE late + 1) /\ late' \in Nat
  BY <1>0 DEF Created
<1>6. /\ blind' \in [Ids -> Nat] /\ \A id \in Ids \ {Mine(t)} : blind'[id] = blind[id]
      /\ live => UNCHANGED blind
      /\ blind'[Mine(t)] <= blind[Mine(t)] + 1
  <2>1. blind' = IF live THEN blind ELSE [blind EXCEPT ![Mine(t)] = blind[Mine(t)] + 1]
    BY DEF Created
  <2> QED BY <1>0, <2>1
<1> QED BY <1>0, <1>2, <1>3, <1>4, <1>5, <1>6

LEMMA LostByTick ==
    ASSUME TypeOK, TicksOK, NoMonitorOnLostMetric, FoundBefore, NEW t \in Ticks, Execute(t)
    PROVE  NoMonitorOnLostMetric' /\ FoundBefore'
<1>0. /\ Outcome(t) /\ UNCHANGED <<live, passed>> /\ live \in BOOLEAN
      /\ \A id \in Ids : blind[id] \in Nat
  BY OutcomeStep, RowsKept DEF TypeOK
<1>1. ASSUME ~ live, tick'[t].pc \in Creating
      PROVE  /\ tick[t].pc \in Creating /\ tick'[t].id = Mine(t)
             /\ Mine(t) \in passed /\ blind[Mine(t)] = 0
  <2>1. tick[t].pc \in Creating /\ tick'[t].id = Mine(t)
    BY <1>0, <1>1 DEF Outcome, Creating, CanCreate, MetricExists
  <2> QED BY <1>1, <2>1 DEF FoundBefore
<1>2. CASE UNCHANGED blind
  <2>1. NoMonitorOnLostMetric'
    BY <1>0, <1>2 DEF NoMonitorOnLostMetric
  <2>2. ASSUME NEW u \in Ticks, ~ live, tick'[u].pc \in Creating
        PROVE  tick'[u].id \in passed /\ blind[tick'[u].id] = 0
    <3>1. CASE u = t
      BY <1>1, <2>2, <3>1
    <3>2. CASE u # t
      BY <1>0, <2>2, <3>2 DEF Outcome, FoundBefore, Mine
    <3> QED BY <3>1, <3>2
  <2> QED BY <1>0, <1>2, <2>1, <2>2 DEF FoundBefore, Mine
<1>3. CASE tick[t].pc = "create" /\ tick'[t].pc \notin Creating /\ Created(t)
  <2>1. CASE live
    <3>1. UNCHANGED blind
      BY <1>3, <2>1, CreatedTypes
    <3> QED BY <1>2, <3>1
  <2>2. CASE ~ live
    <3>1. Mine(t) \in passed /\ blind[Mine(t)] = 0 /\ Mine(t) \in Ids /\ Mine(t) # 0
      BY <1>3, <2>2, MineRequested DEF FoundBefore, Creating
    <3>2. /\ blind' \in [Ids -> Nat] /\ \A id \in Ids \ {Mine(t)} : blind'[id] = blind[id]
          /\ blind'[Mine(t)] <= blind[Mine(t)] + 1
      BY <1>3, CreatedTypes
    <3>3. NoMonitorOnLostMetric'
      BY <1>0, <3>1, <3>2 DEF NoMonitorOnLostMetric
    <3>4. ASSUME NEW u \in Ticks, tick'[u].pc \in Creating
          PROVE  tick'[u].id \in passed /\ blind'[tick'[u].id] = 0
      <4>1. u # t /\ tick'[u] = tick[u]
        BY <1>0, <1>3, <3>4 DEF Outcome
      <4>2. tick[u].pc # "idle" /\ Mine(u) \in passed /\ blind[Mine(u)] = 0
        BY <2>2, <3>4, <4>1 DEF FoundBefore, Creating
      <4>3. Mine(u) \in Ids /\ Mine(u) # Mine(t)
        BY <3>1, <4>1, <4>2, MineRequested DEF TicksOK
      <4> QED BY <3>2, <4>1, <4>2, <4>3 DEF Mine
    <3> QED BY <1>0, <3>3, <3>4 DEF FoundBefore, Mine
  <2> QED BY <1>0, <2>1, <2>2
<1> QED BY <1>2, <1>3, MonitorsByTick

LEMMA CreateByTick ==
    ASSUME TypeOK, TicksOK, MembersInv(Steps), OneMonitorPerStep, MayCreate, NEW t \in Ticks, Execute(t)
    PROVE  OneMonitorPerStep' /\ MayCreate'
<1>0. /\ Outcome(t) /\ UNCHANGED approval /\ OneActiveApproval
      /\ Len(monitors) \in Nat /\ misses \in Nat /\ late \in Nat
  BY OutcomeStep, RowsKept, MonTypes DEF TypeOK, MembersInv
<1>1. ASSUME NEW u \in Ticks, tick'[u].pc \in {"insert", "search", "create"}
      PROVE  approval[tick'[u].id] \in {"approved", "revoked"}
  <2>1. CASE u # t
    BY <1>0, <1>1, <2>1 DEF Outcome, MayCreate, Mine
  <2>2. CASE u = t
    BY <1>0, <1>1, <2>2 DEF Outcome, MayCreate, Approved, Mine, Creating
  <2> QED BY <2>1, <2>2
<1>2. CASE UNCHANGED <<monitors, late>> /\ misses' \in {misses, misses + 1}
  <2>1. OneMonitorPerStep'
    BY <1>0, <1>2 DEF OneMonitorPerStep
  <2>2. ASSUME NEW u \in Ticks, tick'[u].pc = "create", Approved(tick'[u].id)
        PROVE  Len(monitors) <= misses' + late
    <3>1. CASE u # t
      <4>1. Len(monitors) <= misses + late
        BY <1>0, <2>2, <3>1 DEF Outcome, MayCreate, Mine
      <4> QED BY <1>0, <1>2, <4>1
    <3>2. CASE u = t
      <4>1. \/ monitors = <<>> /\ UNCHANGED misses
            \/ misses' = misses + 1
        BY <1>0, <2>2, <3>2 DEF Outcome
      <4>2. CASE monitors = <<>> /\ UNCHANGED misses
        <5>1. Len(monitors) = 0
          BY <4>2
        <5> QED BY <1>0, <4>2, <5>1
      <4>3. CASE misses' = misses + 1
        BY <1>0, <4>3 DEF OneMonitorPerStep
      <4> QED BY <4>1, <4>2, <4>3
    <3> QED BY <3>1, <3>2
  <2>3. MayCreate'
    BY <1>0, <1>1, <1>2, <2>2 DEF MayCreate, Approved, Mine
  <2> QED BY <2>1, <2>3
<1>3. CASE /\ tick[t].pc = "create" /\ tick'[t].pc \notin Creating
           /\ Created(t) /\ UNCHANGED misses
  <2>1. Len(monitors') = Len(monitors) + 1 /\ late' = (IF Approved(Mine(t)) THEN late ELSE late + 1)
    BY <1>3, CreatedTypes DEF Creating
  <2>2. OneMonitorPerStep'
    <3>1. CASE Approved(Mine(t))
      <4>1. Len(monitors) <= misses + late
        BY <1>3, <3>1 DEF MayCreate
      <4> QED BY <1>0, <1>3, <2>1, <3>1, <4>1 DEF OneMonitorPerStep
    <3>2. CASE ~ Approved(Mine(t))
      BY <1>0, <1>3, <2>1, <3>2 DEF OneMonitorPerStep
    <3> QED BY <3>1, <3>2
  <2>3. ASSUME NEW u \in Ticks, tick'[u].pc = "create", Approved(tick'[u].id)
        PROVE  Len(monitors') <= misses' + late'
    <3>1. u # t /\ tick'[u] = tick[u]
      BY <1>0, <1>3, <2>3 DEF Outcome, Creating
    <3>2. Mine(u) \in Requested /\ Mine(t) \in Requested /\ Mine(u) # 0
      BY <1>3, <2>3, <3>1, MineRequested
    <3>3. Mine(u) # Mine(t)
      BY <3>1, <3>2 DEF TicksOK
    <3>4. Approved(Mine(u)) /\ ~ Approved(Mine(t))
      BY <1>0, <2>3, <3>1, <3>2, <3>3 DEF OneActiveApproval, Active, Approved, Mine
    <3>5. Len(monitors) <= misses + late
      BY <2>3, <3>1, <3>4 DEF MayCreate
    <3> QED BY <1>0, <1>3, <2>1, <3>4, <3>5
  <2>4. MayCreate'
    BY <1>0, <1>1, <2>3 DEF MayCreate, Approved, Mine
  <2> QED BY <2>2, <2>4
<1> QED BY <1>2, <1>3, MonitorsByTick

\* A member's decision gives no tick at work its approval back.
LEMMA CreateByMember ==
    ASSUME TypeOK, TicksOK, MembersInv(Steps), OneMonitorPerStep, MayCreate, ApprovalsMove,
           UNCHANGED <<tick, monitors, misses, late>>
    PROVE  OneMonitorPerStep' /\ MayCreate'
<1>0. \A id \in Requested :
         approval'[id] # approval[id] => <<approval[id], approval'[id]>> \in ApprovalMoves
  BY ApprovalsForward DEF MembersInv
<1>1. ASSUME NEW t \in Ticks, tick[t].pc \in {"insert", "search", "create"}
      PROVE  /\ approval'[Mine(t)] \in {"approved", "revoked"}
             /\ approval'[Mine(t)] = "approved" => Approved(Mine(t))
  <2>1. Mine(t) \in Requested /\ approval[Mine(t)] \in {"approved", "revoked"}
    BY <1>1 DEF TicksOK, MayCreate
  <2> QED BY <1>0, <2>1 DEF ApprovalMoves, Approved
<1>2. OneMonitorPerStep'
  BY DEF OneMonitorPerStep
<1>3. MayCreate'
  BY <1>1 DEF MayCreate, Approved, Mine
<1> QED BY <1>2, <1>3

-----------------------------------------------------------------------------
(* Types.                                                                  *)

\* A tick leaves the step alone, or writes the one it had read with a field set.
LEMMA StepByTick ==
    ASSUME TypeOK, TicksOK, NEW t \in Ticks, Execute(t)
    PROVE  /\ step' \in Steps
           /\ \/ UNCHANGED <<step, replaced>>
              \/ /\ tick[t].pc = "write_steps" /\ tick[t].copy[1] \in Steps
                 /\ step'.spec = tick[t].copy[1].spec
                 /\ tick[t].copy[1].state # "absent" => step'.state # "absent"
                 /\ replaced' = replaced \cup Replaces(tick[t].copy[1], base[t])
<1>1. CASE WriteStep(t)
  <2>0. /\ tick[t] \in TickState /\ tick[t].pc = "write_steps"
        /\ tick[t].set # "" /\ Len(tick[t].copy) = 1
    BY <1>1, MonTypes DEF WriteStep, TicksOK
  <2>1. /\ tick[t].set \in {"generating", "link", "ready", "failed"} /\ tick[t].made \in Nat
        /\ tick[t].copy \in Seq(Steps)
    BY <2>0 DEF TickState
  <2> DEFINE copy == tick[t].copy[1]
             linked == [copy EXCEPT !.made = tick[t].made]
             set == [copy EXCEPT !.state = tick[t].set]
  <2>2. step' = linked \/ (tick[t].set # "link" /\ step' = set)
    BY <1>1 DEF WriteStep
  <2>3. copy \in Steps /\ replaced' = replaced \cup Replaces(copy, base[t])
    <3>1. tick[t].copy \in Seq(Steps) /\ Len(tick[t].copy) = 1
      BY <2>0, <2>1
    <3>2. tick[t].copy[1] \in Steps
      BY <3>1, ElementOfSeq
    <3>3. replaced' = replaced \cup Replaces(tick[t].copy[1], base[t])
      BY <1>1 DEF WriteStep
    <3> QED BY <3>2, <3>3
  <2>4. copy = tick[t].copy[1]
    OBVIOUS
  <2> HIDE DEF copy
  <2>5. linked \in Steps /\ linked.spec = copy.spec /\ linked.state = copy.state
    BY <2>1, <2>3 DEF Steps
  <2>6. tick[t].set # "link" => set \in Steps /\ set.spec = copy.spec /\ set.state # "absent"
    BY <2>1, <2>3 DEF Steps
  <2> HIDE DEF linked, set
  <2> QED BY <2>0, <2>2, <2>3, <2>4, <2>5, <2>6
<1>2. CASE UNCHANGED <<step, replaced>>
  BY <1>2 DEF TypeOK
<1> QED BY <1>1, <1>2 DEF Execute, Claim, PhaseDone, ReadStep, Inspect, DraftMonitor,
        AssertApproved, InsertWrite, Search, Create, CreateFails, MarkWrite, Validate, TickFails, specVars

\* What a tick knows of when it reads the step is every approval there is.
LEMMA BaseByTick ==
    ASSUME TypeOK, NEW t \in Ticks, Execute(t)
    PROVE  /\ base' \in [Members \cup Ticks -> 0 .. MaxApprovals]
           /\ \A w \in (Members \cup Ticks) \ {t} : base'[w] = base[w]
           /\ base'[t] \in {0, base[t], Len(approval)}
<1>0. base \in [Members \cup Ticks -> 0 .. MaxApprovals] /\ 0 \in 0 .. MaxApprovals
  BY ApprovalsAssumption DEF TypeOK, ApprovalsAssumption
<1>1. Len(approval) \in 0 .. MaxApprovals
  <2>1. Len(approval) \in Nat /\ MaxApprovals \in Nat /\ Len(approval) <= MaxApprovals
    BY MemberTypes DEF TypeOK, MembersTypeOK
  <2> QED BY <2>1
<1>2. \/ UNCHANGED base
      \/ base' = [base EXCEPT ![t] = Len(approval)]
      \/ base' = [base EXCEPT ![t] = 0]
  BY DEF Execute, Claim, PhaseDone, ReadStep, WriteStep, Inspect, DraftMonitor,
     AssertApproved, InsertWrite, Search, Create, CreateFails, MarkWrite, Validate, TickFails, specVars
<1> QED BY <1>0, <1>1, <1>2

WriteRow == [state : {"absent", "planned", "failed", "succeeded"}, made : Nat]

LEMMA TypesByTick ==
    ASSUME TypeOK, MembersInv(Steps), TicksOK, NEW t \in Ticks, Execute(t)
    PROVE  TypeOK'
<1>0. /\ Outcome(t) /\ UNCHANGED <<analysis, live, losses, passed, asked, approval>>
      /\ MembersInv(Steps)' /\ step' \in Steps
      /\ MaxFaults \in Nat /\ faults \in 0 .. MaxFaults
      /\ \A id \in Ids : job'[id].phase \in 1 .. 4
  BY OutcomeStep, RowsKept, MembersByTick, StepByTick, JobsByTick, MonTypes DEF TypeOK
<1>1. MembersTypeOK(Steps)' /\ \A id \in Ids : job'[id].phase \in 1 .. Len(Phases) + 1
  <2>1. Len(Phases) = 3
    BY Names
  <2> QED BY <1>0, <2>1 DEF MembersInv
<1>2. write' \in WriteRow
  <2>0. write \in WriteRow /\ tick[t].made \in Nat
    BY MonTypes DEF TypeOK, WriteRow, TickState
  <2>1. \/ UNCHANGED write
        \/ write' = Planned(write)
        \/ write' = [write EXCEPT !.state = "failed"]
        \/ write' = [state |-> "succeeded", made |-> tick[t].made]
    BY DEF Execute, Claim, PhaseDone, ReadStep, WriteStep, Inspect, DraftMonitor, AssertApproved,
       InsertWrite, Search, Create, CreateFails, MarkWrite, Validate, TickFails, dataVars
  <2> QED BY <2>0, <2>1 DEF Planned, WriteRow
<1>3. monitors' \in Seq(Made) /\ late' \in Nat /\ misses' \in Nat /\ blind' \in [Ids -> Nat]
  <2>0. monitors \in Seq(Made) /\ late \in Nat /\ misses \in Nat /\ blind \in [Ids -> Nat]
    BY DEF TypeOK, Made
  <2>1. CASE tick[t].pc = "create" /\ Created(t) /\ UNCHANGED misses
    BY <2>0, <2>1, CreatedTypes
  <2> QED BY <2>0, <2>1, MonitorsByTick
<1>4. faults' \in 0 .. MaxFaults
  <2>1. UNCHANGED faults \/ (faults' = faults + 1 /\ faults < MaxFaults)
    BY DEF Execute, Claim, PhaseDone, ReadStep, WriteStep, Inspect, DraftMonitor, AssertApproved,
       InsertWrite, Search, Create, CreateFails, MarkWrite, Validate, TickFails
  <2> QED BY <1>0, <2>1
<1>5. tick' \in [Ticks -> TickState]
  BY <1>0 DEF Outcome
<1>6. replaced' \subseteq Ids /\ base' \in [Members \cup Ticks -> 0 .. MaxApprovals]
  <2>1. Requested \subseteq Ids /\ replaced \subseteq Ids
    BY MemberTypes DEF TypeOK
  <2> QED BY <2>1, StepByTick, BaseByTick DEF Replaces
<1>7. /\ analysis' \in [Analyses -> AnalysisState] /\ live' \in BOOLEAN /\ losses' \in Nat
      /\ passed' \subseteq Ids /\ asked' \in [Ids -> Specs]
  BY <1>0 DEF TypeOK
<1> QED BY <1>0, <1>1, <1>2, <1>3, <1>4, <1>5, <1>6, <1>7 DEF TypeOK, WriteRow, Made

-----------------------------------------------------------------------------
(* The proposals.                                                          *)

LEMMA ReferencesByTick ==
    ASSUME TypeOK, MembersInv(Steps), TicksOK, ReferencesOK, NEW t \in Ticks, Execute(t)
    PROVE  ReferencesOK'
<1>0. /\ Outcome(t) /\ UNCHANGED approval /\ Requested' = Requested
      /\ monitors \in Seq(Made) /\ base \in [Members \cup Ticks -> 0 .. MaxApprovals]
      /\ Len(approval) \in Nat
  BY OutcomeStep, RowsKept, MemberTypes DEF TypeOK, Made, Requested
<1>1. Requested # {} => step'.state # "absent"
  BY StepByTick DEF ReferencesOK
<1>2. ASSUME NEW u \in Ticks, tick'[u].pc = "write_steps" PROVE tick'[u].copy[1].state # "absent"
  <2>1. CASE u # t
    BY <1>0, <1>2, <2>1 DEF Outcome, ReferencesOK
  <2>2. CASE u = t
    <3>1. tick'[t].copy[1] = step /\ tick[t].pc # "idle"
      BY <1>0, <1>2, <2>2 DEF Outcome, ReadStep
    <3>2. Requested # {}
      BY <3>1, MineRequested
    <3> QED BY <2>2, <3>1, <3>2 DEF ReferencesOK
  <2> QED BY <2>1, <2>2
<1>3. \A w \in Members \cup Ticks : base'[w] <= Len(approval)
  BY <1>0, BaseByTick DEF ReferencesOK
<1>4. \A n \in DOMAIN monitors' : monitors'[n].id \in Requested
  <2>1. CASE UNCHANGED monitors
    BY <2>1 DEF ReferencesOK
  <2>2. CASE tick[t].pc = "create" /\ Created(t)
    <3>1. Mine(t) \in Requested
      BY <2>2, MineRequested
    <3> QED BY <2>2, <3>1, CreatedTypes DEF ReferencesOK
  <2> QED BY <2>1, <2>2, MonitorsByTick
<1> QED BY <1>0, <1>1, <1>2, <1>3, <1>4 DEF ReferencesOK

LEMMA ProposalsByTick ==
    ASSUME TypeOK, MembersInv(Steps), TicksOK, ReferencesOK, ProposalsOK, MonitorIsAsApproved,
           NEW t \in Ticks, Execute(t), Members \cap Ticks = {}
    PROVE  ProposalsOK' /\ MonitorIsAsApproved'
<1>0. /\ Outcome(t) /\ UNCHANGED <<approval, member, asked>> /\ Requested' = Requested
      /\ base \in [Members \cup Ticks -> 0 .. MaxApprovals] /\ replaced \subseteq replaced'
      /\ Requested = 1 .. Len(approval) /\ Len(approval) \in Nat
      /\ MaxApprovals \in Nat
  BY OutcomeStep, RowsKept, StepByTick, MemberTypes DEF TypeOK, Requested
<1>1. ASSUME NEW id \in Requested, Active(id) PROVE Kept(step.spec, id)'
  <2>1. CASE UNCHANGED <<step, replaced>>
    BY <1>0, <1>1, <2>1 DEF ProposalsOK, Kept
  <2>2. CASE /\ tick[t].pc = "write_steps" /\ step'.spec = tick[t].copy[1].spec
             /\ replaced' = replaced \cup Replaces(tick[t].copy[1], base[t])
    <3>1. CASE id <= base[t]
      BY <1>0, <1>1, <2>2, <3>1 DEF ProposalsOK, Kept
    <3>2. CASE ~ (id <= base[t])
      <4>1. id > base[t]
        BY <1>0, <3>2
      <4> QED BY <1>0, <1>1, <2>2, <4>1 DEF Replaces, Kept
    <3> QED BY <3>1, <3>2
  <2> QED BY <2>1, <2>2, StepByTick
<1>2. ASSUME NEW m \in Members, member'[m].pc = "write_steps",
             NEW id \in Requested, Active(id), id <= base'[m]
      PROVE  Kept(member[m].copy[1].spec, id)'
  <2>1. base'[m] = base[m]
    BY BaseByTick
  <2>2. Kept(member[m].copy[1].spec, id)
    BY <1>0, <1>2, <2>1 DEF ProposalsOK
  <2> QED BY <1>0, <2>2 DEF Kept
<1>3. ASSUME NEW u \in Ticks, tick'[u].pc = "write_steps",
             NEW id \in Requested, Active(id), id <= base'[u]
      PROVE  Kept(tick[u].copy[1].spec, id)'
  <2>1. CASE u # t
    <3>1. base'[u] = base[u] /\ tick'[u] = tick[u]
      BY <1>0, <2>1, BaseByTick DEF Outcome
    <3>2. Kept(tick[u].copy[1].spec, id)
      BY <1>3, <3>1 DEF ProposalsOK
    <3> QED BY <1>0, <3>1, <3>2 DEF Kept
  <2>2. CASE u = t
    <3>1. tick'[t].copy[1] = step
      BY <1>0, <1>3, <2>2 DEF Outcome
    <3>2. Kept(step.spec, id)
      BY <1>3 DEF ProposalsOK
    <3> QED BY <1>0, <2>2, <3>1, <3>2 DEF Kept
  <2> QED BY <2>1, <2>2
<1>4. ASSUME NEW u \in Ticks, tick'[u].pc \in Creating PROVE Kept(tick[u].spec, Mine(u))'
  <2>1. CASE u # t
    <3>1. tick'[u] = tick[u]
      BY <1>0, <2>1 DEF Outcome
    <3>2. Kept(tick[u].spec, Mine(u))
      BY <1>4, <3>1 DEF ProposalsOK
    <3> QED BY <1>0, <3>1, <3>2 DEF Kept, Mine
  <2>2. CASE u = t /\ tick'[t].pc = "assert"
    <3>1. tick'[t].id = Mine(t) /\ tick'[t].spec = step.spec /\ Approved(Mine(t)) /\ tick[t].pc # "idle"
      BY <1>0, <2>2 DEF Outcome, Creating
    <3>2. Kept(step.spec, Mine(t))
      BY <3>1, MineRequested DEF ProposalsOK, Approved, Active
    <3> QED BY <1>0, <2>2, <3>1, <3>2 DEF Kept, Mine
  <2>3. CASE u = t /\ tick'[t].pc # "assert"
    <3>1. tick'[t].id = Mine(t) /\ tick'[t].spec = tick[t].spec /\ tick[t].pc \in Creating
      BY <1>0, <1>4, <2>3 DEF Outcome, Creating
    <3>2. Kept(tick[t].spec, Mine(t))
      BY <3>1 DEF ProposalsOK
    <3> QED BY <1>0, <2>3, <3>1, <3>2 DEF Kept, Mine
  <2> QED BY <2>1, <2>2, <2>3
<1>5. ProposalsOK'
  BY <1>0, <1>1, <1>2, <1>3, <1>4 DEF ProposalsOK, Active
<1>6. MonitorIsAsApproved'
  <2>1. CASE UNCHANGED monitors
    BY <1>0, <2>1 DEF MonitorIsAsApproved
  <2>2. CASE tick[t].pc = "create" /\ Created(t)
    <3>1. Kept(tick[t].spec, Mine(t))
      BY <2>2 DEF ProposalsOK, Creating
    <3> QED BY <1>0, <2>2, <3>1, CreatedTypes DEF MonitorIsAsApproved, Kept
  <2> QED BY <2>1, <2>2, MonitorsByTick
<1> QED BY <1>5, <1>6

-----------------------------------------------------------------------------
(* The analyses.                                                           *)

\* A first proposal is inserted; a later one replaces the step.
StepProposed(a) ==
    \/ UNCHANGED <<step, replaced>>
    \/ /\ Proposal(a) # "none" /\ step' = Proposed(a)
       /\ \/ step.state = "absent" /\ UNCHANGED replaced
          \/ At(a, "refresh") /\ replaced' = replaced \cup Replaces(Proposed(a), analysis[a].seen)

\* The approvals an analysis saw are over.
SeenOver(seen) == seen <= Len(approval) /\ \A id \in 1 .. seen : ~ Active(id)

\* What a step of an analysis does to the analysis and to the step it proposes.
AnalysisGoes(a) ==
    /\ analysis' \in [Analyses -> AnalysisState]
    /\ \A b \in Analyses \ {a} : analysis'[b] = analysis[b]
    /\ analysis'[a].pc \in {"check", "refresh"} => Proposal(a)' # "none"
    /\ analysis'[a].pc = "refresh" => SeenOver(analysis'[a].seen)
    /\ StepProposed(a)

LEMMA Proposals ==
    ASSUME NEW a \in Analyses
    PROVE  /\ Proposed(a).spec = a /\ a \in Specs
           /\ Proposal(a) # "none" => Proposed(a) \in Steps /\ Proposed(a).state \in {"available", "locked"}
<1>1. Proposal(a) \in {"none", "available", "locked"}
  BY DEF Proposal, Select
<1>2. a \in Specs
  BY DEF Specs
<1> QED BY <1>1, <1>2 DEF Proposed, Steps

\* The proposal depends on the finding and on the snapshot only.
SameProposal(old, new) ==
    /\ new.finding = old.finding /\ new.covered = old.covered /\ new.live = old.live /\ new.gap = old.gap

LEMMA GoesTo ==
    ASSUME TypeOK, NEW a \in Analyses, NEW new \in AnalysisState,
           analysis' = [analysis EXCEPT ![a] = new], StepProposed(a),
           new.pc \in {"check", "refresh"} => SameProposal(analysis[a], new) /\ Proposal(a) # "none",
           new.pc = "refresh" => SeenOver(new.seen)
    PROVE  AnalysisGoes(a)
<1>1. /\ analysis' \in [Analyses -> AnalysisState] /\ analysis'[a] = new
      /\ \A b \in Analyses \ {a} : analysis'[b] = analysis[b]
  BY DEF TypeOK
<1>2. SameProposal(analysis[a], new) => Proposal(a)' = Proposal(a)
  BY <1>1 DEF SameProposal, Proposal, Select
<1> QED BY <1>1, <1>2 DEF AnalysisGoes

LEMMA AnalysisMoves ==
    ASSUME TypeOK, AnalysesOK, MembersInv(Steps), NEW a \in Analyses, Analyse(a)
    PROVE  AnalysisGoes(a)
<1>0. /\ analysis \in [Analyses -> AnalysisState] /\ analysis[a] \in AnalysisState
      /\ Len(approval) \in 0 .. MaxApprovals /\ live \in BOOLEAN /\ 0 \in 0 .. MaxApprovals
      /\ Requested = 1 .. Len(approval)
  <2>1. /\ Len(approval) \in Nat /\ MaxApprovals \in Nat /\ Len(approval) <= MaxApprovals
        /\ Requested = 1 .. Len(approval)
    BY MemberTypes DEF TypeOK, MembersTypeOK
  <2> QED BY <2>1 DEF TypeOK
<1>1. ASSUME End(a), StepProposed(a) PROVE AnalysisGoes(a)
  <2> DEFINE new == [NoAnalysis EXCEPT !.pc = "end"]
  <2>1. new \in AnalysisState /\ new.pc = "end"
    BY IdleTypes DEF AnalysisState
  <2>2. analysis' = [analysis EXCEPT ![a] = new]
    BY <1>1 DEF End
  <2> HIDE DEF new
  <2> QED BY <1>1, <2>1, <2>2, GoesTo
<1>2. CASE Gather(a)
  <2>1. PICK gap \in BOOLEAN : SaveCoverage(a, gap)
    BY <1>2 DEF Gather
  <2> DEFINE new == [NoAnalysis EXCEPT !.pc = "draft", !.live = ListMetrics,
                       !.covered = MetricCovered(ListMonitors), !.gap = gap]
  <2>2. new \in AnalysisState /\ new.pc = "draft"
    BY <1>0, IdleTypes DEF AnalysisState, ListMetrics, MetricCovered
  <2>3. analysis' = [analysis EXCEPT ![a] = new] /\ StepProposed(a)
    BY <1>2, <2>1 DEF SaveCoverage, Gather, memberVars, specVars, StepProposed
  <2> HIDE DEF new
  <2> QED BY <2>2, <2>3, GoesTo
<1>3. CASE Draft(a)
  <2>1. PICK finding \in Findings : SaveFindings(a, finding)
    BY <1>3 DEF Draft
  <2> DEFINE new == [analysis[a] EXCEPT !.finding = finding, !.pc = "upsert"]
  <2>2. new \in AnalysisState /\ new.pc = "upsert"
    BY <1>0 DEF AnalysisState
  <2>3. analysis' = [analysis EXCEPT ![a] = new] /\ StepProposed(a)
    BY <1>0, <1>3, <2>1 DEF SaveFindings, Draft, memberVars, specVars, StepProposed
  <2> HIDE DEF new
  <2> QED BY <2>2, <2>3, GoesTo
<1>4. CASE Upsert(a)
  <2>0. StepProposed(a)
    BY <1>4 DEF Upsert, StepProposed, specVars
  <2>1. CASE End(a)
    BY <1>1, <2>0, <2>1
  <2>2. CASE analysis' = [analysis EXCEPT ![a].pc = "check"] /\ Proposal(a) # "none"
    <3> DEFINE new == [analysis[a] EXCEPT !.pc = "check"]
    <3>1. new \in AnalysisState /\ new.pc = "check" /\ SameProposal(analysis[a], new)
      BY <1>0 DEF AnalysisState, SameProposal
    <3>2. analysis' = [analysis EXCEPT ![a] = new]
      BY <1>0, <2>2
    <3> HIDE DEF new
    <3> QED BY <2>0, <2>2, <3>1, <3>2, GoesTo
  <2> QED BY <1>4, <2>1, <2>2 DEF Upsert
<1>5. CASE CheckApprovals(a)
  <2>0. StepProposed(a) /\ Proposal(a) # "none"
    BY <1>5 DEF CheckApprovals, memberVars, specVars, StepProposed, AnalysesOK
  <2>1. CASE End(a)
    BY <1>1, <2>0, <2>1
  <2>2. ASSUME NEW n \in 0 .. MaxApprovals, SeenOver(n),
               analysis' = [analysis EXCEPT ![a].seen = n, ![a].pc = "refresh"]
        PROVE  AnalysisGoes(a)
    <3> DEFINE new == [analysis[a] EXCEPT !.seen = n, !.pc = "refresh"]
    <3>1. /\ new \in AnalysisState /\ new.pc = "refresh" /\ new.seen = n
          /\ SameProposal(analysis[a], new)
      BY <1>0 DEF AnalysisState, SameProposal
    <3>2. analysis' = [analysis EXCEPT ![a] = new]
      BY <1>0, <2>2
    <3> HIDE DEF new
    <3> QED BY <2>0, <2>2, <3>1, <3>2, GoesTo
  <2>3. CASE /\ analysis' = [analysis EXCEPT ![a].seen = Len(approval), ![a].pc = "refresh"]
             /\ \A id \in Requested : ~ Freezes(approval[id])
    <3>1. SeenOver(Len(approval))
      BY <1>0, <2>3 DEF SeenOver, Freezes, Active
    <3> QED BY <1>0, <2>2, <2>3, <3>1
  <2>4. CASE analysis' = [analysis EXCEPT ![a].seen = 0, ![a].pc = "refresh"]
    <3>1. SeenOver(0)
      BY <1>0 DEF SeenOver
    <3> QED BY <1>0, <2>2, <2>4, <3>1
  <2> QED BY <1>5, <2>1, <2>3, <2>4 DEF CheckApprovals
<1>6. CASE Refresh(a)
  <2>1. StepProposed(a) /\ End(a)
    BY <1>6 DEF Refresh, AnalysesOK, StepProposed
  <2> QED BY <1>1, <2>1
<1>7. CASE AnalysisFails(a)
  <2> DEFINE new == [analysis[a] EXCEPT !.pc = "upsert", !.seen = 0]
  <2>1. new \in AnalysisState /\ new.pc = "upsert"
    BY <1>0 DEF AnalysisState
  <2>2. analysis' = [analysis EXCEPT ![a] = new] /\ StepProposed(a)
    BY <1>0, <1>7 DEF AnalysisFails, memberVars, specVars, StepProposed
  <2> HIDE DEF new
  <2> QED BY <2>1, <2>2, GoesTo
<1> QED BY <1>2, <1>3, <1>4, <1>5, <1>6, <1>7 DEF Analyse

LEMMA AnalysesByAnalysis ==
    ASSUME TypeOK, AnalysesOK, MembersInv(Steps), NEW a \in Analyses, Analyse(a), UNCHANGED approval
    PROVE  AnalysesOK'
<1>0. AnalysisGoes(a)
  BY AnalysisMoves
<1>1. ASSUME NEW b \in Analyses, b # a
      PROVE  analysis'[b] = analysis[b] /\ Proposal(b)' = Proposal(b)
  BY <1>0, <1>1 DEF AnalysisGoes, Proposal, Select
<1>2. ASSUME NEW b \in Analyses, analysis'[b].pc \in {"check", "refresh"} PROVE Proposal(b)' # "none"
  BY <1>0, <1>1, <1>2 DEF AnalysisGoes, AnalysesOK, At
<1>3. ASSUME NEW b \in Analyses, analysis'[b].pc = "refresh" PROVE SeenOver(analysis'[b].seen)
  BY <1>0, <1>1, <1>3 DEF AnalysisGoes, AnalysesOK, At, SeenOver
<1> QED BY <1>2, <1>3 DEF AnalysesOK, At, Active, SeenOver

\* The approvals an analysis saw stay over, whatever members decide.
LEMMA AnalysesByMember ==
    ASSUME TypeOK, AnalysesOK, MembersInv(Steps), ApprovalsMove, UNCHANGED analysis
    PROVE  AnalysesOK'
<1>0. /\ Requested \subseteq Requested' /\ Requested = 1 .. Len(approval)
      /\ Requested' = 1 .. Len(approval') /\ Len(approval) \in Nat /\ Len(approval') \in Nat
      /\ \A id \in Requested :
            approval'[id] # approval[id] => <<approval[id], approval'[id]>> \in ApprovalMoves
  <2>1. MembersTypeOK(Steps)
    BY DEF MembersInv
  <2>2. approval' \in Seq(ApprovalStates)
    BY <2>1, ApprovalsForward
  <2> QED BY <2>1, <2>2, ApprovalsForward, MemberTypes, LenProperties
<1>1. Len(approval) <= Len(approval')
  BY <1>0
<1>2. \A a \in Analyses : Proposal(a)' = Proposal(a)
  BY DEF Proposal, Select
<1>3. ASSUME NEW a \in Analyses, At(a, "refresh")
      PROVE  /\ analysis[a].seen <= Len(approval')
             /\ \A id \in 1 .. analysis[a].seen : ~ Active(id)'
  <2>0. analysis[a].seen \in Nat
    BY ApprovalsAssumption DEF TypeOK, AnalysisState, ApprovalsAssumption
  <2>1. analysis[a].seen <= Len(approval)
    BY <1>3 DEF AnalysesOK
  <2>2. ASSUME NEW id \in 1 .. analysis[a].seen PROVE ~ Active(id)'
    <3>1. id \in Requested /\ ~ Active(id)
      BY <1>0, <1>3, <2>0, <2>1 DEF AnalysesOK
    <3> QED BY <1>0, <3>1 DEF ApprovalMoves, Active
  <2> QED BY <1>0, <1>1, <2>0, <2>1, <2>2
<1> QED BY <1>2, <1>3 DEF AnalysesOK, At

-----------------------------------------------------------------------------
(* The members.                                                            *)

\* A request leaves the step alone, or writes the one it had read with its state set.
LEMMA StepByMember ==
    ASSUME TypeOK, MembersInv(Steps), NEW m \in Members, MemberCalls(m)
    PROVE  /\ step' \in Steps /\ replaced \subseteq replaced'
           /\ \/ UNCHANGED <<step, replaced>>
              \/ /\ member[m].pc = "write_steps" /\ UNCHANGED approval
                 /\ step'.spec = member[m].copy[1].spec /\ step'.state # "absent"
                 /\ replaced' = replaced \cup Replaces(member[m].copy[1], base[m])
<1>0. /\ Request(m) /\ RequestOK(m) /\ member[m] \in MemberState(Steps) /\ step \in Steps
      /\ replaced' = IF member[m].pc = "write_steps"
                     THEN replaced \cup Replaces(member[m].copy[1], base[m]) ELSE replaced
  BY MemberTypes DEF MemberCalls, MembersInv, TypeOK
<1>1. CASE member[m].pc = "write_steps"
  <2> DEFINE copy == member[m].copy[1]
             set == [copy EXCEPT !.state = "generating"]
  <2>1. WriteSteps(m)
    BY <1>0, <1>1 DEF Request, RequestApproval, ReadApproval, UpdateApproval, MayUpdate, CheckApproved,
       FindJob, InsertJob, RequeueJob, ReadSteps, SetRecommendationState, Oppose, RetryJob, Call
  <2>2. step' = set /\ UNCHANGED approval
    BY <2>1 DEF WriteSteps
  <2>3. copy \in Steps
    <3>1. member[m].copy \in Seq(Steps) /\ Len(member[m].copy) = 1
      BY <1>0, <1>1 DEF MemberState, RequestOK
    <3>2. member[m].copy[1] \in Steps
      BY <3>1, ElementOfSeq
    <3> QED BY <3>2
  <2>4. copy = member[m].copy[1]
    OBVIOUS
  <2> HIDE DEF copy
  <2>5. set \in Steps /\ set.spec = copy.spec /\ set.state # "absent"
    BY <2>3 DEF Steps
  <2> HIDE DEF set
  <2> QED BY <1>0, <1>1, <2>2, <2>4, <2>5
<1>2. CASE member[m].pc # "write_steps"
  <2>1. UNCHANGED step
    BY <1>0, <1>2, RestByRequest
  <2> QED BY <1>0, <1>2, <2>1
<1> QED BY <1>1, <1>2

LEMMA BaseByMember ==
    ASSUME TypeOK, NEW m \in Members, MemberCalls(m)
    PROVE  /\ base' \in [Members \cup Ticks -> 0 .. MaxApprovals]
           /\ \A w \in (Members \cup Ticks) \ {m} : base'[w] = base[w]
           /\ base'[m] \in {0, Len(approval)}
           /\ member[m].pc # "read_steps" => base'[m] = 0
<1>0. base \in [Members \cup Ticks -> 0 .. MaxApprovals] /\ 0 \in 0 .. MaxApprovals
  BY ApprovalsAssumption DEF TypeOK, ApprovalsAssumption
<1>1. Len(approval) \in 0 .. MaxApprovals
  <2>1. Len(approval) \in Nat /\ MaxApprovals \in Nat /\ Len(approval) <= MaxApprovals
    BY MemberTypes DEF TypeOK, MembersTypeOK
  <2> QED BY <2>1
<1>2. base' = [base EXCEPT ![m] = IF member[m].pc = "read_steps" THEN Len(approval) ELSE 0]
  BY DEF MemberCalls
<1> QED BY <1>0, <1>1, <1>2

\* What the approvals asked for stays; a new one asks for the step as it is.
LEMMA AskedByMember ==
    ASSUME TypeOK, MembersInv(Steps), NEW m \in Members, MemberCalls(m)
    PROVE  /\ asked' \in [Ids -> Specs] /\ \A id \in Requested : asked'[id] = asked[id]
           /\ \A id \in Requested' \ Requested : asked'[id] = step.spec
<1>0. /\ asked \in [Ids -> Specs] /\ step.spec \in Specs /\ Requested \subseteq Ids
      /\ asked' = [id \in Ids |-> IF id \in Requested' \ Requested THEN step.spec ELSE asked[id]]
  BY MonTypes, MemberTypes DEF TypeOK, MemberCalls
<1>1. Requested' \subseteq Ids
  <2>1. MembersInv(Steps)'
    BY MembersStep DEF MemberCalls, TypeOK
  <2>2. approval' \in Seq(ApprovalStates) /\ Len(approval') <= MaxApprovals /\ MaxApprovals \in Nat
    BY <2>1, ApprovalsAssumption DEF MembersInv, MembersTypeOK, ApprovalsAssumption
  <2>3. Requested' = 1 .. Len(approval') /\ Len(approval') \in Nat
    BY <2>2, LenProperties DEF Requested
  <2> QED BY <2>2, <2>3 DEF Ids
<1> QED BY <1>0, <1>1

LEMMA ReferencesByMember ==
    ASSUME TypeOK, MembersInv(Steps), ReferencesOK, NEW m \in Members, MemberCalls(m)
    PROVE  ReferencesOK'
<1>0. /\ ApprovalsMove /\ UNCHANGED <<tick, monitors>> /\ Request(m)
      /\ Requested \subseteq Requested' /\ Requested' = 1 .. Len(approval')
      /\ Requested = 1 .. Len(approval) /\ Len(approval) \in Nat /\ Len(approval') \in Nat
      /\ base \in [Members \cup Ticks -> 0 .. MaxApprovals] /\ MaxApprovals \in Nat
  <2>1. MembersTypeOK(Steps) /\ Request(m)
    BY DEF MembersInv, MemberCalls
  <2>2. ApprovalsMove
    BY <2>1, MovesByRequest
  <2>3. approval' \in Seq(ApprovalStates)
    BY <2>1, <2>2, ApprovalsForward
  <2> QED BY <2>1, <2>2, <2>3, ApprovalsForward, MemberTypes, LenProperties DEF MemberCalls, TypeOK, dataVars
<1>1. Len(approval) <= Len(approval')
  BY <1>0
<1>2. Requested' # {} => step'.state # "absent"
  <2>1. CASE step'.state # "absent"
    BY <2>1
  <2>2. CASE UNCHANGED step /\ step.state = "absent"
    <3>1. Requested = {}
      BY <2>2 DEF ReferencesOK
    <3>2. ASSUME RequestApproval(m) PROVE UNCHANGED approval
      BY <2>2, <3>1, <3>2 DEF RequestApproval
    <3>3. ASSUME UpdateApproval(m) PROVE UNCHANGED approval
      BY <3>1, <3>3 DEF UpdateApproval, MayUpdate, MembersInv, RequestOK
    <3>4. UNCHANGED approval
      BY <1>0, <3>2, <3>3 DEF Request, ReadApproval, CheckApproved, FindJob, InsertJob, RequeueJob,
         ReadSteps, WriteSteps, SetRecommendationState, Oppose, RetryJob
    <3> QED BY <3>1, <3>4 DEF Requested
  <2> QED BY <2>1, <2>2, StepByMember
<1>3. \A w \in Members \cup Ticks : base'[w] <= Len(approval')
  <2>1. \A w \in Members \cup Ticks : base[w] <= Len(approval) /\ base[w] \in Nat
    BY <1>0 DEF ReferencesOK
  <2>2. \A w \in (Members \cup Ticks) \ {m} : base'[w] <= Len(approval')
    BY <1>0, <1>1, <2>1, BaseByMember
  <2>3. base'[m] <= Len(approval')
    BY <1>0, <1>1, BaseByMember
  <2> QED BY <2>2, <2>3
<1>4. \A n \in DOMAIN monitors : monitors[n].id \in Requested'
  BY <1>0 DEF ReferencesOK
<1>5. \A t \in Ticks : tick[t].pc = "write_steps" => tick[t].copy[1].state # "absent"
  BY DEF ReferencesOK
<1> QED BY <1>0, <1>2, <1>3, <1>4, <1>5 DEF ReferencesOK

LEMMA ProposalsByMember ==
    ASSUME TypeOK, MembersInv(Steps), TicksOK, ReferencesOK, ProposalsOK, MonitorIsAsApproved,
           NEW m \in Members, MemberCalls(m), Members \cap Ticks = {}
    PROVE  ProposalsOK' /\ MonitorIsAsApproved'
<1>0. /\ UNCHANGED <<tick, monitors>> /\ step \in Steps
      /\ Requested \subseteq Requested' /\ Requested = 1 .. Len(approval) /\ Len(approval) \in Nat
      /\ \A id \in Requested :
            approval'[id] # approval[id] => <<approval[id], approval'[id]>> \in ApprovalMoves
      /\ replaced \subseteq replaced' /\ Moved(Steps, m)
      /\ \A w \in Members \cup Ticks : base[w] \in Nat /\ base[w] <= Len(approval)
      /\ Requested' = 1 .. Len(approval') /\ Len(approval') \in Nat
  <2>1. MembersTypeOK(Steps) /\ Request(m) /\ step \in Steps
    BY DEF MembersInv, MemberCalls, TypeOK
  <2>2. ApprovalsMove /\ Moved(Steps, m)
    BY <2>1, MovesByRequest, MemberMoves
  <2>3. \A w \in Members \cup Ticks : base[w] \in Nat /\ base[w] <= Len(approval)
    BY ApprovalsAssumption DEF TypeOK, ReferencesOK, ApprovalsAssumption
  <2>4. approval' \in Seq(ApprovalStates)
    BY <2>1, <2>2, ApprovalsForward
  <2>5. Len(approval') \in Nat
    BY <2>4, LenProperties
  <2> QED BY <2>1, <2>2, <2>3, <2>5, ApprovalsForward, MemberTypes, StepByMember DEF MemberCalls, dataVars
<1>1. ASSUME NEW spec, NEW id \in Requested, Kept(spec, id) PROVE id \in replaced' \/ spec = asked'[id]
  BY <1>0, <1>1, AskedByMember DEF Kept
<1>2. ASSUME NEW id \in Requested, approval'[id] \in {"requested", "approved"} PROVE Active(id)
  BY <1>0, <1>2 DEF Active, ApprovalMoves
<1>3. ASSUME NEW id \in Requested', approval'[id] \in {"requested", "approved"}
      PROVE  id \in replaced' \/ step'.spec = asked'[id]
  <2>1. CASE UNCHANGED <<step, replaced>> /\ id \in Requested
    <3>1. Kept(step.spec, id)
      BY <1>2, <1>3, <2>1 DEF ProposalsOK
    <3> QED BY <1>1, <2>1, <3>1
  <2>2. CASE UNCHANGED <<step, replaced>> /\ id \notin Requested
    BY <1>3, <2>2, AskedByMember
  <2>3. CASE /\ member[m].pc = "write_steps" /\ UNCHANGED approval
             /\ step'.spec = member[m].copy[1].spec
             /\ replaced' = replaced \cup Replaces(member[m].copy[1], base[m])
    <3>0. id \in Requested /\ Active(id)
      BY <1>2, <1>3, <2>3 DEF Requested
    <3>1. CASE id <= base[m]
      <4>1. Kept(member[m].copy[1].spec, id)
        BY <2>3, <3>0, <3>1 DEF ProposalsOK
      <4> QED BY <1>1, <2>3, <3>0, <4>1
    <3>2. CASE ~ (id <= base[m])
      <4>1. id > base[m]
        BY <1>0, <3>0, <3>2
      <4> QED BY <2>3, <3>0, <4>1, AskedByMember DEF Replaces
    <3> QED BY <3>1, <3>2
  <2> QED BY <2>1, <2>2, <2>3, StepByMember
<1>4. ASSUME NEW o \in Members, member'[o].pc = "write_steps",
             NEW id \in Requested', approval'[id] \in {"requested", "approved"}, id <= base'[o]
      PROVE  id \in replaced' \/ member'[o].copy[1].spec = asked'[id]
  <2>1. CASE o # m
    <3>1. base'[o] = base[o] /\ member'[o] = member[o]
      BY <1>0, <2>1, BaseByMember DEF Moved
    <3>2. id \in Requested
      BY <1>0, <1>4, <3>1
    <3>3. Kept(member[o].copy[1].spec, id)
      BY <1>2, <1>4, <3>1, <3>2 DEF ProposalsOK
    <3> QED BY <1>1, <3>1, <3>2, <3>3
  <2>2. CASE o = m
    <3>1. base'[m] \in {0, Len(approval)}
      BY BaseByMember
    <3>2. id \in Requested
      BY <1>0, <1>4, <2>2, <3>1
    <3>3. Kept(step.spec, id)
      BY <1>2, <1>4, <3>2 DEF ProposalsOK
    <3>4. member'[m].copy[1] = step
      BY <1>0, <1>4, <2>2, OneStep DEF Moved
    <3> QED BY <1>1, <2>2, <3>2, <3>3, <3>4
  <2> QED BY <2>1, <2>2
<1>5. ASSUME NEW t \in Ticks, tick[t].pc = "write_steps",
             NEW id \in Requested', approval'[id] \in {"requested", "approved"}, id <= base'[t]
      PROVE  id \in replaced' \/ tick[t].copy[1].spec = asked'[id]
  <2>1. base'[t] = base[t]
    BY BaseByMember
  <2>2. id \in Requested
    BY <1>0, <1>5, <2>1
  <2>3. Kept(tick[t].copy[1].spec, id)
    BY <1>2, <1>5, <2>1, <2>2 DEF ProposalsOK
  <2> QED BY <1>1, <2>2, <2>3
<1>6. ASSUME NEW t \in Ticks, tick[t].pc \in Creating
      PROVE  Mine(t) \in replaced' \/ tick[t].spec = asked'[Mine(t)]
  <2>1. Mine(t) \in Requested
    BY <1>6, MineRequested DEF Creating
  <2>2. Kept(tick[t].spec, Mine(t))
    BY <1>6 DEF ProposalsOK
  <2> QED BY <1>1, <2>1, <2>2
<1>7. ProposalsOK'
  BY <1>0, <1>3, <1>4, <1>5, <1>6 DEF ProposalsOK, Kept, Active, Mine
<1>8. MonitorIsAsApproved'
  <2>1. ASSUME NEW n \in DOMAIN monitors
        PROVE  monitors[n].id \in replaced' \/ monitors[n].spec = asked'[monitors[n].id]
    <3>1. monitors[n].id \in Requested /\ Kept(monitors[n].spec, monitors[n].id)
      BY <2>1 DEF ReferencesOK, MonitorIsAsApproved, Kept
    <3> QED BY <1>1, <3>1
  <2> QED BY <1>0, <2>1 DEF MonitorIsAsApproved
<1> QED BY <1>7, <1>8

-----------------------------------------------------------------------------
(* The invariant.                                                          *)

LEMMA InvByTick ==
    ASSUME MonitorsInv, NEW t \in Ticks, Execute(t)
    PROVE  MonitorsInv'
<1>0. /\ TypeOK /\ MembersInv(Steps) /\ TicksOK /\ NoMonitorOnLostMetric /\ FoundBefore
      /\ OneMonitorPerStep /\ MayCreate /\ AnalysesOK
      /\ MonitorIsAsApproved /\ ReferencesOK /\ ProposalsOK
  BY DEF MonitorsInv
<1>1. TypeOK' /\ MembersInv(Steps)' /\ TicksOK'
  BY <1>0, TypesByTick, MembersByTick, TicksByTick
<1>2. NoMonitorOnLostMetric' /\ FoundBefore' /\ OneMonitorPerStep' /\ MayCreate'
  BY <1>0, LostByTick, CreateByTick
<1>3. AnalysesOK'
  <2>1. UNCHANGED <<analysis, approval>>
    BY RowsKept
  <2> QED BY <1>0, <2>1, AnalysesByMember DEF ApprovalsMove
<1>4. MonitorIsAsApproved' /\ ReferencesOK' /\ ProposalsOK'
  BY <1>0, ReferencesByTick, ProposalsByTick, MonitorsAssumption DEF MonitorsAssumption
<1> QED BY <1>1, <1>2, <1>3, <1>4 DEF MonitorsInv

LEMMA InvByMember ==
    ASSUME MonitorsInv, NEW m \in Members, MemberCalls(m)
    PROVE  MonitorsInv'
<1>0. /\ TypeOK /\ MembersInv(Steps) /\ TicksOK /\ NoMonitorOnLostMetric /\ FoundBefore
      /\ OneMonitorPerStep /\ MayCreate /\ AnalysesOK
      /\ MonitorIsAsApproved /\ ReferencesOK /\ ProposalsOK
      /\ Request(m) /\ UNCHANGED <<analysis, write, monitors, misses, late, tick, faults>>
      /\ UNCHANGED <<live, losses, passed, blind>>
  BY DEF MonitorsInv, MemberCalls, dataVars, metricVars
<1>1. MembersTypeOK(Steps)
  BY <1>0 DEF MembersInv
<1>2. MembersInv(Steps)' /\ ApprovalsMove /\ Requested \subseteq Requested'
  BY <1>0, <1>1, MembersStep, MovesByRequest, ApprovalsForward DEF TypeOK
<1>3. \A id \in Ids : job'[id].phase = job[id].phase
  BY <1>0, RestByRequest
<1>4. /\ step' \in Steps /\ asked' \in [Ids -> Specs]
      /\ base' \in [Members \cup Ticks -> 0 .. MaxApprovals]
  BY <1>0, StepByMember, AskedByMember, BaseByMember
<1>5. replaced' \subseteq Ids
  <2>1. Requested \subseteq Ids
    BY <1>1, MemberTypes
  <2> QED BY <1>0, <2>1, StepByMember DEF TypeOK, Replaces
<1>6. TypeOK'
  <2>1. MembersTypeOK(Steps)' /\ \A id \in Ids : job'[id].phase \in 1 .. Len(Phases) + 1
    BY <1>0, <1>2, <1>3 DEF MembersInv, TypeOK
  <2> QED BY <1>0, <1>4, <1>5, <2>1 DEF TypeOK
<1>7. TicksOK'
  BY <1>0, <1>2 DEF TicksOK, Mine
<1>8. NoMonitorOnLostMetric' /\ FoundBefore'
  BY <1>0 DEF NoMonitorOnLostMetric, FoundBefore, Mine
<1>9. OneMonitorPerStep' /\ MayCreate' /\ AnalysesOK'
  BY <1>0, <1>2, CreateByMember, AnalysesByMember
<1>10. MonitorIsAsApproved' /\ ReferencesOK' /\ ProposalsOK'
  BY <1>0, ReferencesByMember, ProposalsByMember, MonitorsAssumption DEF MonitorsAssumption
<1> QED BY <1>2, <1>6, <1>7, <1>8, <1>9, <1>10 DEF MonitorsInv

LEMMA InvByAnalysis ==
    ASSUME MonitorsInv, NEW a \in Analyses, Analyse(a)
    PROVE  MonitorsInv'
<1>0. /\ TypeOK /\ MembersInv(Steps) /\ TicksOK /\ NoMonitorOnLostMetric /\ FoundBefore
      /\ OneMonitorPerStep /\ MayCreate /\ AnalysesOK
      /\ MonitorIsAsApproved /\ ReferencesOK /\ ProposalsOK
  BY DEF MonitorsInv
<1>1. /\ UNCHANGED <<approval, job, rec, member, calls, write, monitors, misses, late, tick>>
      /\ UNCHANGED <<live, losses, passed, blind, asked, base>>
  BY DEF Analyse, Gather, Draft, Upsert, CheckApprovals, Refresh, AnalysisFails, memberVars, dataVars,
     metricVars, specVars, rows
<1>2. AnalysisGoes(a)
  BY <1>0, AnalysisMoves
<1>3. faults' \in 0 .. MaxFaults
  <2>1. faults \in 0 .. MaxFaults /\ MaxFaults \in Nat
    BY <1>0, MonTypes DEF TypeOK
  <2>2. UNCHANGED faults \/ (faults' = faults + 1 /\ faults < MaxFaults)
    BY DEF Analyse, Gather, Draft, Upsert, CheckApprovals, Refresh, AnalysisFails
  <2> QED BY <2>1, <2>2
<1>4. MembersInv(Steps)'
  BY <1>0, <1>1, MembersKept DEF MembersInv, MembersTypeOK, JobsRequested
<1>5. /\ replaced \subseteq replaced' /\ replaced' \subseteq Ids
      /\ Requested = 1 .. Len(approval) /\ Len(approval) \in Nat
  <2>1. /\ Requested \subseteq Ids /\ replaced \subseteq Ids
        /\ Requested = 1 .. Len(approval) /\ Len(approval) \in Nat
    BY <1>0, MemberTypes DEF TypeOK
  <2> QED BY <1>2, <2>1 DEF AnalysisGoes, StepProposed, Replaces
<1>6. TypeOK'
  <2>1. analysis' \in [Analyses -> AnalysisState] /\ step' \in Steps
    BY <1>0, <1>2, Proposals DEF AnalysisGoes, StepProposed, TypeOK
  <2>2. MembersTypeOK(Steps)'
    BY <1>4 DEF MembersInv
  <2> QED BY <1>0, <1>1, <1>3, <1>5, <2>1, <2>2 DEF TypeOK
<1>7. TicksOK' /\ NoMonitorOnLostMetric' /\ FoundBefore' /\ OneMonitorPerStep' /\ MayCreate'
  <2>1. TicksOK'
    BY <1>0, <1>1 DEF TicksOK, Mine, Requested
  <2>2. NoMonitorOnLostMetric' /\ FoundBefore'
    BY <1>0, <1>1 DEF NoMonitorOnLostMetric, FoundBefore, Mine
  <2>3. OneMonitorPerStep' /\ MayCreate'
    BY <1>0, <1>1 DEF OneMonitorPerStep, MayCreate, Mine, Approved
  <2> QED BY <2>1, <2>2, <2>3
<1>8. AnalysesOK'
  BY <1>0, <1>1, AnalysesByAnalysis
<1>9. ReferencesOK'
  <2>1. Requested' = Requested /\ (step.state # "absent" => step'.state # "absent")
    BY <1>1, <1>2, Proposals DEF Requested, AnalysisGoes, StepProposed
  <2> QED BY <1>0, <1>1, <2>1 DEF ReferencesOK
<1>10. ASSUME NEW id \in Requested, Active(id) PROVE Kept(step.spec, id)'
  <2>1. CASE UNCHANGED <<step, replaced>>
    BY <1>0, <1>1, <1>10, <2>1 DEF ProposalsOK, Kept
  <2>2. CASE step.state = "absent"
    BY <1>0, <1>10, <2>2 DEF ReferencesOK
  <2>3. CASE /\ At(a, "refresh") /\ step' = Proposed(a)
             /\ replaced' = replaced \cup Replaces(Proposed(a), analysis[a].seen)
    <3>1. analysis[a].seen \in Nat
      BY <1>0, ApprovalsAssumption DEF TypeOK, AnalysisState, ApprovalsAssumption
    <3>2. id > analysis[a].seen
      BY <1>0, <1>5, <1>10, <2>3, <3>1 DEF AnalysesOK
    <3> QED BY <1>1, <1>10, <2>3, <3>2 DEF Replaces, Kept
  <2> QED BY <1>2, <2>1, <2>2, <2>3 DEF AnalysisGoes, StepProposed
<1>11. ProposalsOK'
  <2>1. ASSUME NEW spec, NEW id, Kept(spec, id) PROVE id \in replaced' \/ spec = asked[id]
    BY <1>5, <2>1 DEF Kept
  <2>2. ASSUME NEW m \in Members, member[m].pc = "write_steps",
               NEW id \in Requested, Active(id), id <= base[m]
        PROVE  Kept(member[m].copy[1].spec, id)'
    <3>1. Kept(member[m].copy[1].spec, id)
      BY <1>0, <2>2 DEF ProposalsOK
    <3> QED BY <1>1, <2>1, <3>1 DEF Kept
  <2>3. ASSUME NEW t \in Ticks, tick[t].pc = "write_steps",
               NEW id \in Requested, Active(id), id <= base[t]
        PROVE  Kept(tick[t].copy[1].spec, id)'
    <3>1. Kept(tick[t].copy[1].spec, id)
      BY <1>0, <2>3 DEF ProposalsOK
    <3> QED BY <1>1, <2>1, <3>1 DEF Kept
  <2>4. ASSUME NEW t \in Ticks, tick[t].pc \in Creating PROVE Kept(tick[t].spec, Mine(t))'
    <3>1. Kept(tick[t].spec, Mine(t))
      BY <1>0, <2>4 DEF ProposalsOK
    <3> QED BY <1>1, <2>1, <3>1 DEF Kept, Mine
  <2> QED BY <1>1, <1>10, <2>2, <2>3, <2>4 DEF ProposalsOK, Requested, Active, Mine
<1>12. MonitorIsAsApproved'
  BY <1>0, <1>1, <1>5 DEF MonitorIsAsApproved
<1> QED BY <1>4, <1>6, <1>7, <1>8, <1>9, <1>11, <1>12 DEF MonitorsInv

\* The metric appears or disappears, or nothing happens.
LEMMA InvByMetric ==
    ASSUME MonitorsInv, UNCHANGED <<memberVars, analysis, dataVars, specVars, tick, faults>>,
           MetricAppears \/ MetricDisappears \/ UNCHANGED metricVars
    PROVE  MonitorsInv'
<1>0. /\ TypeOK /\ MembersInv(Steps) /\ TicksOK /\ NoMonitorOnLostMetric /\ FoundBefore
      /\ OneMonitorPerStep /\ MayCreate /\ AnalysesOK
      /\ MonitorIsAsApproved /\ ReferencesOK /\ ProposalsOK
  BY DEF MonitorsInv
<1>1. /\ UNCHANGED <<approval, job, rec, step, member, calls, analysis, tick, faults>>
      /\ UNCHANGED <<write, monitors, misses, late, asked, replaced, base>>
      /\ Requested' = Requested
  BY DEF memberVars, dataVars, specVars, Requested
<1>2. /\ live' \in BOOLEAN /\ losses' \in Nat /\ passed' \subseteq Ids /\ blind' \in [Ids -> Nat]
      /\ NoMonitorOnLostMetric' /\ FoundBefore'
  <2>0. /\ live \in BOOLEAN /\ losses \in Nat /\ passed \subseteq Ids /\ blind \in [Ids -> Nat]
    BY <1>0 DEF TypeOK
  <2>1. CASE MetricDisappears
    <3>1. /\ live' = FALSE /\ losses' = losses + 1 /\ blind' = [id \in Ids |-> 0]
          /\ passed' = {Mine(t) : t \in {u \in Ticks : tick[u].pc \in Creating}}
      BY <2>1 DEF MetricDisappears, Creating
    <3>2. \A t \in Ticks : tick[t].pc \in Creating => Mine(t) \in Ids
      BY <1>0, MineRequested DEF Creating
    <3>3. passed' \subseteq Ids /\ \A t \in Ticks : tick[t].pc \in Creating => Mine(t) \in passed'
      BY <3>1, <3>2
    <3>4. NoMonitorOnLostMetric'
      BY <3>1 DEF NoMonitorOnLostMetric
    <3>5. FoundBefore'
      BY <1>1, <3>1, <3>2, <3>3 DEF FoundBefore, Mine
    <3>6. blind' \in [Ids -> Nat]
      BY <3>1
    <3>7. losses' \in Nat
      <4>1. losses \in Nat /\ losses' = losses + 1
        BY <2>0, <3>1
      <4> QED BY <4>1
    <3>8. live' \in BOOLEAN
      <4>1. live' = FALSE
        BY <3>1
      <4> QED BY <4>1
    <3> QED BY <3>3, <3>4, <3>5, <3>6, <3>7, <3>8
  <2>2. CASE MetricAppears
    BY <1>0, <1>1, <2>0, <2>2 DEF MetricAppears, NoMonitorOnLostMetric, FoundBefore
  <2>3. CASE UNCHANGED metricVars
    BY <1>0, <1>1, <2>0, <2>3 DEF metricVars, NoMonitorOnLostMetric, FoundBefore, Mine
  <2> QED BY <2>1, <2>2, <2>3
<1>3. MembersInv(Steps)'
  BY <1>0, <1>1, MembersKept DEF MembersInv, MembersTypeOK, JobsRequested
<1>4. TypeOK'
  <2>1. MembersTypeOK(Steps)'
    BY <1>3 DEF MembersInv
  <2> QED BY <1>0, <1>1, <1>2, <2>1 DEF TypeOK
<1>5. TicksOK'
  BY <1>0, <1>1 DEF TicksOK, Mine
<1>6. OneMonitorPerStep' /\ MayCreate'
  BY <1>0, <1>1 DEF OneMonitorPerStep, MayCreate, Mine, Approved
<1>7. AnalysesOK'
  BY <1>0, <1>1, AnalysesByMember DEF ApprovalsMove
<1>8. MonitorIsAsApproved' /\ ReferencesOK' /\ ProposalsOK'
  <2>1. MonitorIsAsApproved' /\ ReferencesOK'
    BY <1>0, <1>1 DEF MonitorIsAsApproved, ReferencesOK
  <2>2. ProposalsOK'
    BY <1>0, <1>1 DEF ProposalsOK, Kept, Active, Mine
  <2> QED BY <2>1, <2>2
<1> QED BY <1>2, <1>3, <1>4, <1>5, <1>6, <1>7, <1>8 DEF MonitorsInv

LEMMA InvAtInit ==
    ASSUME Init
    PROVE  MonitorsInv
<1>0. /\ MembersInit /\ step = [state |-> "absent", made |-> 0, spec |-> 0]
      /\ analysis = [a \in Analyses |-> NoAnalysis] /\ write = NoWrite /\ live \in BOOLEAN
      /\ monitors = <<>> /\ tick = [t \in Ticks |-> IdleTick]
      /\ misses = 0 /\ late = 0 /\ faults = 0
      /\ losses = 0 /\ passed = {} /\ blind = [id \in Ids |-> 0]
      /\ asked = [id \in Ids |-> 0] /\ replaced = {} /\ base = [w \in Members \cup Ticks |-> 0]
  BY DEF Init
<1>1. MembersInv(Steps) /\ Requested = {} /\ Len(approval) = 0
  <2>1. approval = <<>>
    BY <1>0 DEF MembersInit
  <2>2. Len(approval) = 0
    BY <2>1
  <2>3. MembersInv(Steps)
    BY <1>0, MembersStart
  <2>4. Requested = 1 .. 0
    BY <2>2, <2>3, MemberTypes DEF MembersInv
  <2> QED BY <2>2, <2>3, <2>4
<1>2. \A t \in Ticks : tick[t].pc = "idle" /\ Mine(t) = 0
  BY <1>0, IdleTypes DEF Mine
<1>3. TypeOK
  <2>1. \A id \in Ids : job[id].phase \in 1 .. Len(Phases) + 1
    <3>1. \A id \in Ids : job[id].phase = 1
      BY <1>0 DEF MembersInit, NoJob
    <3> QED BY <3>1, Names
  <2>2. step \in Steps
    BY <1>0 DEF Steps, Specs
  <2>3. write \in [state : {"absent", "planned", "failed", "succeeded"}, made : Nat]
    BY <1>0 DEF NoWrite
  <2>4. analysis \in [Analyses -> AnalysisState] /\ tick \in [Ticks -> TickState]
    BY <1>0, IdleTypes
  <2>5. monitors \in Seq(Made) /\ misses \in Nat /\ late \in Nat /\ faults \in 0 .. MaxFaults
    BY <1>0, MonitorsAssumption DEF MonitorsAssumption
  <2>6. /\ losses \in Nat /\ passed \subseteq Ids /\ blind \in [Ids -> Nat]
        /\ asked \in [Ids -> Specs] /\ replaced \subseteq Ids
        /\ base \in [Members \cup Ticks -> 0 .. MaxApprovals]
    BY <1>0, ApprovalsAssumption DEF ApprovalsAssumption, Specs
  <2> QED BY <1>0, <1>1, <2>1, <2>2, <2>3, <2>4, <2>5, <2>6 DEF TypeOK, MembersInv, Made
<1>4. DOMAIN monitors = {} /\ Len(monitors) = 0
  BY <1>0
<1>5. TicksOK /\ FoundBefore /\ MayCreate
  <2>1. \A t \in Ticks : tick[t].pc \notin Creating
    BY <1>2 DEF Creating
  <2> QED BY <1>2, <2>1 DEF TicksOK, FoundBefore, MayCreate
<1>6. NoMonitorOnLostMetric /\ OneMonitorPerStep /\ MonitorIsAsApproved
  BY <1>0, <1>4 DEF NoMonitorOnLostMetric, OneMonitorPerStep, MonitorIsAsApproved
<1>7. AnalysesOK
  BY <1>0, IdleTypes DEF AnalysesOK, At
<1>8. ReferencesOK /\ ProposalsOK
  <2>1. ReferencesOK
    BY <1>0, <1>1, <1>2, <1>4 DEF ReferencesOK
  <2>2. ProposalsOK
    BY <1>0, <1>1, <1>2 DEF ProposalsOK, Creating
  <2> QED BY <2>1, <2>2
<1> QED BY <1>1, <1>3, <1>5, <1>6, <1>7, <1>8 DEF MonitorsInv

LEMMA MonitorsInvariant == Spec => []MonitorsInv
<1>1. Init => MonitorsInv
  BY InvAtInit
<1>2. MonitorsInv /\ [Next]_vars => MonitorsInv'
  <2> SUFFICES ASSUME MonitorsInv, [Next]_vars PROVE MonitorsInv'
    OBVIOUS
  <2>1. ASSUME NEW a \in Analyses, Analyse(a) PROVE MonitorsInv'
    BY <2>1, InvByAnalysis
  <2>2. ASSUME NEW t \in Ticks, Execute(t) PROVE MonitorsInv'
    BY <2>2, InvByTick
  <2>3. ASSUME NEW m \in Members, MemberCalls(m) PROVE MonitorsInv'
    BY <2>3, InvByMember
  <2>4. CASE MetricAppears \/ MetricDisappears
    <3>1. UNCHANGED <<memberVars, analysis, dataVars, specVars, tick, faults>>
      BY <2>4 DEF MetricAppears, MetricDisappears
    <3> QED BY <2>4, <3>1, InvByMetric
  <2>5. CASE UNCHANGED vars
    <3>1. UNCHANGED <<memberVars, analysis, dataVars, specVars, tick, faults>> /\ UNCHANGED metricVars
      BY <2>5 DEF vars, monVars
    <3> QED BY <3>1, InvByMetric
  <2> QED BY <2>1, <2>2, <2>3, <2>4, <2>5 DEF Next
<1> QED BY <1>1, <1>2, PTL DEF Spec

-----------------------------------------------------------------------------
(* Theorems.                                                               *)

\* Once the metric is gone, a job creates a monitor only with an attempt that had found it
\* before, and one at most, with any number of ticks, jobs and losses
\* (agent-ddalert.ts:146-154).
THEOREM LostMetricsGetNoMonitor == Spec => []NoMonitorOnLostMetric
<1>1. MonitorsInv => NoMonitorOnLostMetric
  BY DEF MonitorsInv
<1> QED BY <1>1, MonitorsInvariant, PTL

\* One monitor for a step, but for the failed searches and the late writes, with any number
\* of ticks, members and approvals (agent-ddalert.ts:165-167).
THEOREM StepGetsOneMonitor == Spec => []OneMonitorPerStep
<1>1. MonitorsInv => OneMonitorPerStep
  BY DEF MonitorsInv
<1> QED BY <1>1, MonitorsInvariant, PTL

\* A monitor is the one its approval was requested for, but where a writer with an older
\* reading replaced the step under it, with any number of analyses, members and ticks, and
\* looks for approvals that fail (recgen-store.ts:244-258).
THEOREM MonitorsAsApproved == Spec => []MonitorIsAsApproved
<1>1. MonitorsInv => MonitorIsAsApproved
  BY DEF MonitorsInv
<1> QED BY <1>1, MonitorsInvariant, PTL
=============================================================================
