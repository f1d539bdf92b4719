--------------------------- MODULE ExecutionStatus ---------------------------
(***************************************************************************)
(* The status machine of an execution record, as the table of              *)
(* server/storage/executions_store.py states it.  Every writer of a record *)
(* names a status of this module; only some of them consult the table.     *)
(***************************************************************************)

Status == {"QUEUED", "RUNNING", "CANCELING", "CANCELED", "SUCCESS", "FAILED"}

FINAL_STATUSES == {"CANCELED", "SUCCESS", "FAILED"}

ALLOWED_TRANSITIONS ==
    [s \in Status |->
        CASE s = "QUEUED"    -> {"RUNNING", "CANCELED"}
          [] s = "RUNNING"   -> {"SUCCESS", "FAILED", "CANCELING"}
          [] s = "CANCELING" -> {"CANCELED", "FAILED"}
          [] OTHER           -> {}]

\* True when the call returns, false when it raises ValueError.
validate_status_transition(from_status, to_status) ==
    \/ from_status = to_status
    \/ to_status \in ALLOWED_TRANSITIONS[from_status]

=============================================================================
