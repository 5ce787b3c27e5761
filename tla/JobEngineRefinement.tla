------------------------ MODULE JobEngineRefinement ------------------------
(***************************************************************************)
(* JobEngine implements JobLifecycle: a row's phases are the done set, and *)
(* the console's view of its state is the status (queued and retrying are  *)
(* both "waiting").                                                        *)
(***************************************************************************)
EXTENDS JobEngine

StatusOf(row) == IF row.state \in {"queued", "retrying"} THEN "waiting" ELSE row.state

DoneIn(ph) == {p \in Phases : ph[p] = "succeeded"}

StatusMap == [j \in Jobs |-> StatusOf(jobs[j])]
DoneMap == [j \in Jobs |-> DoneIn(jobs[j].phases)]

Lifecycle == INSTANCE JobLifecycle WITH status <- StatusMap, done <- DoneMap

\* Every behaviour of the engine, crashes and reclaims included, is one the job's
\* owner could have seen from a single uninterrupted worker (worker.ts runTick).
ImplementsLifecycle == Lifecycle!Spec
=============================================================================
