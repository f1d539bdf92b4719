-------------------------- MODULE MCExecutionQueue --------------------------
(* Instances of ExecutionQueue for TLC: what the executions are created as. *)
EXTENDS ExecutionQueue

CONSTANTS w1, w2, c1, c2

\* What the server itself creates.
Queued(ws) == [status |-> "QUEUED", worker |-> NoWorker, fits |-> ws]

\* Every worker may take every execution.
Open == [e \in Exec |-> {Queued(Worker)}]

\* The oldest execution is posted by a client, with any status and workerId.
FirstPosted ==
    [e \in Exec |-> IF e = 1 THEN {r \in Posted : r.fits = Worker} ELSE {Queued(Worker)}]

\* The last execution is posted as running on w1.
LastRunning ==
    [e \in Exec |->
        IF \E f \in Exec : f > e THEN {Queued(Worker)}
        ELSE {[Queued(Worker) EXCEPT !.status = "RUNNING", !.worker = w1]}]

\* The oldest execution may be pinned to a worker that does not exist, may be
\* open to all, or may be posted as running on w1.
FirstInTheWay ==
    [e \in Exec |->
        IF e = 1
        THEN {Queued({}), Queued(Worker), [Queued(Worker) EXCEPT !.status = "RUNNING", !.worker = w1]}
        ELSE {Queued(Worker)}]

\* The execution is pinned to w1.
Pinned == [e \in Exec |-> {Queued({w1})}]

=============================================================================
