--------------------------- MODULE GithubDelivery ---------------------------
(***************************************************************************)
(* The log of GitHub deliveries (functions/github-webhook/index.ts,        *)
(* recordDelivery and markDelivery of github-webhook-store.ts): one        *)
(* inbound_webhooks row per delivery id, which decides whether a           *)
(* redelivery is handled again.                                            *)
(***************************************************************************)

Unseen == [status |-> "absent", valid |-> FALSE]

DeliveryRows == [status : {"absent", "received", "processed", "failed", "ignored"},
                 valid  : BOOLEAN]

\* (Mutant) Whatever was recorded once.
IsRecorded(row) == row.status # "absent"

\* Handled, or ignored for a reason that a redelivery would not change.
IsTerminal(row) == row.status = "processed" \/ (row.status = "ignored" /\ row.valid)

\* The row behind the unique delivery id: inserted, or refreshed unless it is terminal.
Recorded(row, status, valid) ==
    IF IsTerminal(row) THEN row ELSE [status |-> status, valid |-> valid]

Marked(row, status) == [row EXCEPT !.status = status]
=============================================================================
