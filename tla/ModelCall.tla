----------------------------- MODULE ModelCall -----------------------------
(***************************************************************************)
(* The audit row of a model call (lib/model-call.ts, functions/_shared/    *)
(* model-call-store.ts): one ai_model_calls row per job and purpose, kept  *)
(* through failed calls, retries and resumptions.                          *)
(***************************************************************************)

NoCall == [status |-> "absent", answer |-> <<>>]

\* What a finished call leaves to be recorded.  A failed call has a row too.
Succeeded(answer) == [status |-> "succeeded", answer |-> <<answer>>]
Failed == [status |-> "failed", answer |-> <<>>]

\* (Mutant) The last call is recorded, whatever it was.
SavedLast(row, c) == c

\* saveModelCall: an insert, or behind the unique key an update by a success only.
SavedCall(row, c) ==
    IF row.status = "absent" \/ c.status = "succeeded" THEN c ELSE row

\* The balanced-JSON parser finds an object in the text of the answer.
IsJson(answer) == answer.kind # "prose"

\* The schema registered for the output accepts that object.
FitsSchema(answer) == answer.kind # "invalid"

\* An answer that is not what was asked for is recorded but yields nothing.
Validated(answer, nothing) ==
    IF IsJson(answer) /\ FitsSchema(answer) THEN answer ELSE nothing
=============================================================================
