---------------------------- MODULE JobLifecycle ----------------------------
(***************************************************************************)
(* What the job engine promises to whoever enqueues a job: the job runs    *)
(* its phases once each, in plan order; whatever interrupts it keeps the   *)
(* phases it completed; it is reported succeeded when all are done, and    *)
(* only a failed job is started over, on request, from where it stopped.   *)
(* Leases, ticks, attempts and clocks are not visible at this level.       *)
(***************************************************************************)
EXTENDS Naturals

CONSTANTS Jobs, NumPhases

VARIABLES
    status,     \* what the console shows of a job
    done        \* the phases it has completed

vars == <<status, done>>

Phases == 1 .. NumPhases

\* The phases completed after at most one more, the first that is missing.
Further(d) == {d} \cup {d \cup {p} : p \in {q \in Phases \ d : \A r \in Phases \ d : q <= r}}

Init ==
    /\ status = [j \in Jobs |-> "absent"]
    /\ done = [j \in Jobs |-> {}]

Move(j, from, to) ==
    /\ status[j] = from
    /\ status' = [status EXCEPT ![j] = to]

Submit(j) == Move(j, "absent", "waiting") /\ UNCHANGED done

Start(j) == Move(j, "waiting", "running") /\ UNCHANGED done

Advance(j) ==
    /\ status[j] = "running"
    /\ \E d \in Further(done[j]) : done' = [done EXCEPT ![j] = d]
    /\ UNCHANGED status

\* The attempt ends early: to be continued, or for good.  What ended it may have
\* come after a phase and before the report of it.
Stop(j) ==
    /\ \E s \in {"waiting", "failed"} : Move(j, "running", s)
    /\ \E d \in Further(done[j]) : done' = [done EXCEPT ![j] = d]

Finish(j) == done[j] = Phases /\ Move(j, "running", "succeeded") /\ UNCHANGED done

Retry(j) == Move(j, "failed", "waiting") /\ UNCHANGED done

Next == \E j \in Jobs :
            Submit(j) \/ Start(j) \/ Advance(j) \/ Stop(j) \/ Finish(j) \/ Retry(j)

Spec == Init /\ [][Next]_vars
=============================================================================
