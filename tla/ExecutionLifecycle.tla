------------------------- MODULE ExecutionLifecycle -------------------------
(***************************************************************************)
(* What an observer of the execution records is promised: a record appears *)
(* once, as QUEUED or as RUNNING, and after that only makes moves of the   *)
(* relation Moves.  ExecutionQueue gives the moves its writers keep, which *)
(* are more than those of the table in ExecutionStatus.                    *)
(***************************************************************************)
EXTENDS ExecutionStatus

CONSTANTS Exec,     \* the executions
          Moves     \* pairs <<from, to>> a record may make in one step

VARIABLE status     \* status[e]: "ABSENT" before the record is created

Init == status = [e \in Exec |-> "ABSENT"]

Create(e) ==
    /\ status[e] = "ABSENT"
    /\ \E s \in {"QUEUED", "RUNNING"} : status' = [status EXCEPT ![e] = s]

Move(e) ==
    \E m \in Moves :
        /\ status[e] = m[1]
        /\ status' = [status EXCEPT ![e] = m[2]]

Next == \E e \in Exec : Create(e) \/ Move(e)

Spec == Init /\ [][Next]_status

=============================================================================
