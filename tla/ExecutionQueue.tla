--------------------------- MODULE ExecutionQueue ---------------------------
(***************************************************************************)
(* The execution queue: one threaded Flask server that keeps a JSON record *)
(* per execution and a SQLite index over the records, and workers that     *)
(* claim executions over HTTP, run them and report the result.             *)
(*                                                                         *)
(* Two kinds of code write a record.  claim, cancel, stop and recovery     *)
(* read and write it under flock; update_execution_record (finish, PATCH)  *)
(* and the orphan pruning of the index do so without the lock.  A writer   *)
(* of either kind is two steps here, the read and the write, so that the   *)
(* others may come in between.                                             *)
(***************************************************************************)
EXTENDS Integers, FiniteSets, ExecutionStatus

CONSTANTS Exec,            \* executions, numbers in queuedAt order
          Worker,          \* registered workers
          Born,            \* Born[e]: the records e may be created as
          MaxConcurrency,  \* slots of a worker, sent with every claim
          ClaimCall,       \* claim requests one worker may have in the server
          Patched,         \* executions some API client sends PATCH for
          Deleted,         \* executions retention or a user may delete
          ListLimit,       \* rows list_queued returns
          Stopped,         \* executions some user cancels or stops
          Tofu,            \* executions that run OpenTofu, the others run Ansible
          MaxFaults        \* bound: crashes, timeouts and lost messages

CONSTANTS NoWorker, NoExec, Free

\* The fields of a record that matter here: its status, its workerId, and the
\* workers that meet the requirements in its runParams.
Record == [status : Status \cup {"ABSENT"}, worker : Worker \cup {NoWorker},
           fits : SUBSET Worker]

\* The server itself creates QUEUED records without a workerId; the body of a
\* POST may name a workerId, and RUNNING.
Posted == {r \in Record : r.status \in {"QUEUED", "RUNNING"}}

ASSUME QueueAssumption ==
    /\ Exec \subseteq Nat
    /\ Born \in [Exec -> SUBSET Posted]
    /\ MaxConcurrency \in Nat \ {0}
    /\ Patched \subseteq Exec
    /\ Deleted \subseteq Exec \ Patched    \* both for one execution are not modelled
    /\ Stopped \subseteq Exec
    /\ Tofu \subseteq Exec
    /\ NoWorker \notin Worker
    /\ NoExec \notin Exec

VARIABLES
    record,      \* record[e]: the JSON file
    gone,        \* deleted: record[e] is what the file was, for those who hold it open
    lock,        \* lock[e]: who holds flock on the file
    seen,        \* seen[e]: the record the holder of the lock has read
    update,      \* update[e][o]: an unlocked update_execution_record call
    creating,    \* creating[e]: the record written whose row is still to be added
    queuedRow,   \* rows of queued_executions
    runningRow,  \* rows of running_executions: the worker of e, or NoWorker
    claim,       \* claim[w][c]: the server thread of a claim request
    waiting,     \* waiting[w]: the claim w's loop waits for, or Free
    run,         \* run[w][e]: what worker w is doing with e
    scanDue,     \* the disk scan interval has elapsed
    faults

fileVars == <<record, gone, lock, seen>>
indexVars == <<creating, queuedRow, runningRow>>
workerVars == <<waiting, run>>
vars == <<record, gone, lock, seen, update, creating, queuedRow, runningRow,
          claim, waiting, run, scanDue, faults>>

-----------------------------------------------------------------------------
(* Types.                                                                  *)

\* The routes and the timeouts that lock a record, and claims.
Locker(op) == <<"server", op>>
Holder == {Locker(op) : op \in {"cancel", "stop", "expire", "force"}} \cup (Worker \X ClaimCall)

ASSUME HolderAssumption ==
    /\ "server" \notin Worker
    /\ Free \notin Holder
    /\ Free \notin ClaimCall

Origin == {"finish", "patch"}
Update == [pc : {"none", "sent", "write", "index"},
           by : Worker \cup {NoWorker},
           status : Status \cup {"unset"},
           seen : Record]

Claim == [pc : {"idle", "prune", "fail", "list", "lock", "write", "index", "answer"},
          back : {"list", "write"},    \* where pruning was called from
          todo : SUBSET Exec,          \* rows pruning has still to visit
          orphan : Exec \cup {NoExec}, \* row pruning is about to mark FAILED
          read : Record,               \* what pruning has read of the orphan
          cands : SUBSET Exec,         \* queued_runs
          exec : Exec \cup {NoExec}]   \* record locked, then claimed

Absent == [status |-> "ABSENT", worker |-> NoWorker, fits |-> {}]
NoUpdate == [pc |-> "none", by |-> NoWorker, status |-> "unset", seen |-> Absent]
NoClaim == [pc |-> "idle", back |-> "list", todo |-> {}, orphan |-> NoExec,
            read |-> Absent, cands |-> {}, exec |-> NoExec]

TypeOK ==
    /\ record \in [Exec -> Record]
    /\ gone \subseteq Exec
    /\ lock \in [Exec -> Holder \cup {Free}]
    /\ seen \in [Exec -> Record]
    /\ update \in [Exec -> [Origin -> Update]]
    /\ creating \in [Exec -> Record]
    /\ queuedRow \subseteq Exec
    /\ runningRow \in [Exec -> Worker \cup {NoWorker}]
    /\ claim \in [Worker -> [ClaimCall -> Claim]]
    /\ waiting \in [Worker -> ClaimCall \cup {Free}]
    /\ run \in [Worker -> [Exec -> {"none", "running", "stopping", "reporting"}]]
    /\ scanDue \in BOOLEAN
    /\ faults \in Nat

Init ==
    /\ record = [e \in Exec |-> Absent]
    /\ gone = {}
    /\ lock = [e \in Exec |-> Free]
    /\ seen = [e \in Exec |-> Absent]
    /\ update = [e \in Exec |-> [o \in Origin |-> NoUpdate]]
    /\ creating = [e \in Exec |-> Absent]
    /\ queuedRow = {}
    /\ runningRow = [e \in Exec |-> NoWorker]
    /\ claim = [w \in Worker |-> [c \in ClaimCall |-> NoClaim]]
    /\ waiting = [w \in Worker |-> Free]
    /\ run = [w \in Worker |-> [e \in Exec |-> "none"]]
    /\ scanDue = TRUE
    /\ faults = 0

\* What somebody finds who opens the file now.
File(e) == IF e \in gone THEN Absent ELSE record[e]

-----------------------------------------------------------------------------
(* Creating a record: the file is written first, its row after.  Deleting  *)
(* it leaves its rows, and whoever works on it, where they are.            *)

HasRow(r) == r.status = "QUEUED" \/ r.worker # NoWorker

\* Nothing counts the slots of a worker that a RUNNING record is created with.
create_execution_record(e) ==
    /\ record[e].status = "ABSENT"
    /\ \A f \in Exec : f < e => record[f].status # "ABSENT"
    /\ \E r \in Born[e] :
        /\ record' = [record EXCEPT ![e] = r]
        /\ creating' = [creating EXCEPT ![e] = IF HasRow(r) THEN r ELSE Absent]
    /\ UNCHANGED <<gone, lock, seen, update, queuedRow, runningRow, claim, waiting, run,
                   scanDue, faults>>

add_created_row(e) ==
    /\ creating[e] # Absent
    /\ creating' = [creating EXCEPT ![e] = Absent]
    /\ IF creating[e].status = "QUEUED"
       THEN queuedRow' = queuedRow \cup {e} /\ UNCHANGED runningRow
       ELSE /\ queuedRow' = queuedRow \ {e}
            /\ runningRow' = [runningRow EXCEPT ![e] = creating[e].worker]
    /\ UNCHANGED <<fileVars, update, claim, waiting, run, scanDue, faults>>

\* By retention or by a user, whatever the status.
delete_execution(e) ==
    /\ e \in Deleted
    /\ File(e).status # "ABSENT"
    /\ gone' = gone \cup {e}
    /\ UNCHANGED <<record, lock, seen, update, indexVars, claim, workerVars, scanDue, faults>>

-----------------------------------------------------------------------------
(* Writers under flock other than claim: the cancel and stop routes and    *)
(* the two timeouts of recovery.  None of them touches the index.          *)

LockAndRead(e, op, from) ==
    /\ lock[e] = Free
    /\ File(e).status = from
    /\ lock' = [lock EXCEPT ![e] = Locker(op)]
    /\ seen' = [seen EXCEPT ![e] = record[e]]
    /\ UNCHANGED <<record, gone, update, indexVars, claim, workerVars, scanDue, faults>>

WriteAndUnlock(e, op, to) ==
    /\ lock[e] = Locker(op)
    /\ record' = [record EXCEPT ![e] = [seen[e] EXCEPT !.status = to]]
    /\ lock' = [lock EXCEPT ![e] = Free]
    /\ seen' = [seen EXCEPT ![e] = Absent]
    /\ UNCHANGED <<gone, update, indexVars, claim, workerVars, scanDue, faults>>

api_cancel_execution(e) ==
    \/ e \in Stopped /\ LockAndRead(e, "cancel", "QUEUED")
    \/ WriteAndUnlock(e, "cancel", "CANCELED")

\* Mutant: the status is not checked before the stop is stored.
api_stop_execution_AnyStatus(e) ==
    \/ e \in Stopped /\ \E s \in Status : LockAndRead(e, "stop", s)
    \/ WriteAndUnlock(e, "stop", "CANCELING")

api_stop_execution(e) ==
    \/ e \in Stopped /\ LockAndRead(e, "stop", "RUNNING")
    \/ WriteAndUnlock(e, "stop", "CANCELING")

\* Mutant: a stuck execution is put back in the queue.
server_recover_stuck_executions_Requeue(e) ==
    \/ LockAndRead(e, "expire", "RUNNING")
    \/ WriteAndUnlock(e, "expire", "QUEUED")
    \/ LockAndRead(e, "force", "CANCELING")
    \/ WriteAndUnlock(e, "force", "CANCELED")

\* Mutant: recovery knows no CANCELING timeout.
server_recover_stuck_executions_RunningOnly(e) ==
    \/ LockAndRead(e, "expire", "RUNNING")
    \/ WriteAndUnlock(e, "expire", "FAILED")

\* The age of the record is not in the state: any RUNNING (CANCELING) record
\* may be one that is older than 30 (5) minutes.
server_recover_stuck_executions(e) ==
    \/ LockAndRead(e, "expire", "RUNNING")
    \/ WriteAndUnlock(e, "expire", "FAILED")
    \/ LockAndRead(e, "force", "CANCELING")
    \/ WriteAndUnlock(e, "force", "CANCELED")

-----------------------------------------------------------------------------
(* update_execution_record: read and validate, write, sync the index.      *)

\* The finish route and pruning: the record is the worker's, or nobody's.
Owns(w, r) == r.worker \in {NoWorker, w}

\* A call without a status keeps the one it has read.
NewStatus(u, r) == IF u.status = "unset" THEN r.status ELSE u.status

\* Mutant: what the client sent is stored as it is, unchecked.
UpdateRead_AsSent(e, o) ==
    LET u == update[e][o]
    IN  /\ u.pc = "sent"
        /\ update' = [update EXCEPT ![e][o] = [u EXCEPT !.pc = "write", !.seen = File(e)]]
        /\ UNCHANGED <<fileVars, indexVars, claim, workerVars, scanDue, faults>>

\* Whom the record fits once the fields of the call are merged: a PATCH may bring
\* other runParams.
Merged(o, r) == IF o = "patch" THEN SUBSET Worker ELSE {r.fits}

UpdateRead(e, o) ==
    LET u == update[e][o]
        r == File(e)
        new == NewStatus(u, r)
    IN  /\ u.pc = "sent"
        /\ IF /\ r.status # "ABSENT"
              /\ o = "finish" => Owns(u.by, r)
              /\ validate_status_transition(r.status, new)
           THEN \E ws \in Merged(o, r) :
                   update' = [update EXCEPT ![e][o] =
                      [u EXCEPT !.pc = "write", !.status = new, !.seen = [r EXCEPT !.fits = ws]]]
           ELSE update' = [update EXCEPT ![e][o] = NoUpdate]
        /\ UNCHANGED <<fileVars, indexVars, claim, workerVars, scanDue, faults>>

\* open(..., 'w') brings a deleted record back.
UpdateWrite(e, o) ==
    LET u == update[e][o]
    IN  /\ u.pc = "write"
        /\ record' = [record EXCEPT ![e] = [u.seen EXCEPT !.status = u.status]]
        /\ gone' = gone \ {e}
        /\ update' = [update EXCEPT ![e][o].pc = "index"]
        /\ UNCHANGED <<lock, seen, indexVars, claim, workerVars, scanDue, faults>>

UpdateIndex(e, o) ==
    LET u == update[e][o]
        owner == u.seen.worker
    IN  /\ u.pc = "index"
        /\ update' = [update EXCEPT ![e][o] = NoUpdate]
        /\ queuedRow' = IF u.status = "QUEUED" THEN queuedRow \cup {e} ELSE queuedRow \ {e}
        /\ runningRow' = [runningRow EXCEPT ![e] =
                             IF u.status = "RUNNING" THEN owner ELSE NoWorker]
        /\ UNCHANGED <<fileVars, creating, claim, workerVars, scanDue, faults>>

\* PATCH /api/executions/<id>: a change of the status, or of fields other
\* than the status and the workerId ("unset"), or of both.
api_update_execution(e, s) ==
    /\ e \in Patched
    /\ File(e).status # "ABSENT"
    /\ update[e]["patch"].pc = "none"
    /\ update' = [update EXCEPT ![e]["patch"] =
                     [NoUpdate EXCEPT !.pc = "sent", !.status = s]]
    /\ UNCHANGED <<fileVars, indexVars, claim, workerVars, scanDue, faults>>

-----------------------------------------------------------------------------
(* A claim request in the server.                                          *)

RowsOf(w) == {e \in Exec : runningRow[e] = w}
running_count_for_worker(w) == Cardinality(RowsOf(w))

\* Mutant: one too many.
BelowLimit_OffByOne(w) == running_count_for_worker(w) <= MaxConcurrency

BelowLimit(w) == running_count_for_worker(w) < MaxConcurrency

ClaimStep(w, c, rec) == claim' = [claim EXCEPT ![w][c] = rec]

\* At the limit every row of the worker is visited, otherwise the claim goes on.
CheckLimit(w, c, rec, back) ==
    IF BelowLimit(w)
    THEN ClaimStep(w, c, [rec EXCEPT !.pc = back])
    ELSE ClaimStep(w, c, [rec EXCEPT !.pc = "prune", !.back = back, !.todo = RowsOf(w)])

\* Mutant: the loop claims without a slot.
FreeSlot_Always(w) == TRUE

FreeSlot(w) == Cardinality({e \in Exec : run[w][e] # "none"}) < MaxConcurrency

\* The loop of the worker reserves a slot, then sends the request.
ClaimBegin(w, c) ==
    /\ waiting[w] = Free
    /\ FreeSlot(w)
    /\ claim[w][c].pc = "idle"
    /\ waiting' = [waiting EXCEPT ![w] = c]
    /\ CheckLimit(w, c, NoClaim, "list")
    /\ UNCHANGED <<fileVars, update, indexVars, run, scanDue, faults>>

\* prune_stale_running_for_worker with current_execution_id=None: a row whose
\* record is gone, not RUNNING, or not this worker's, is dropped; any other row is
\* taken for the orphan of a restarted worker.
PruneRow(w, c, e) ==
    LET k == claim[w][c]
    IN  /\ k.pc = "prune"
        /\ e \in k.todo
        /\ IF File(e).status = "RUNNING" /\ Owns(w, record[e])
           THEN /\ ClaimStep(w, c, [k EXCEPT !.pc = "fail", !.orphan = e, !.read = record[e]])
                /\ UNCHANGED runningRow
           ELSE /\ ClaimStep(w, c, [k EXCEPT !.todo = @ \ {e}])
                /\ runningRow' = [runningRow EXCEPT ![e] = NoWorker]
        /\ UNCHANGED <<fileVars, update, creating, queuedRow, workerVars, scanDue, faults>>

PruneFail(w, c) ==
    LET k == claim[w][c]
        e == k.orphan
    IN  /\ k.pc = "fail"
        /\ record' = [record EXCEPT ![e] = [k.read EXCEPT !.status = "FAILED"]]
        /\ runningRow' = [runningRow EXCEPT ![e] = NoWorker]
        /\ ClaimStep(w, c, [k EXCEPT !.pc = "prune", !.orphan = NoExec, !.read = Absent,
                                     !.todo = @ \ {e}])
        /\ UNCHANGED <<gone, lock, seen, update, creating, queuedRow, workerVars, scanDue, faults>>

\* After pruning the count is taken again; a claim still at the limit gives
\* up (at entry) or leaves the locked candidate and tries the next one.
PruneDone(w, c) ==
    LET k == claim[w][c]
    IN  /\ k.pc = "prune"
        /\ k.todo = {}
        /\ IF k.back = "list"
           THEN /\ ClaimStep(w, c, [k EXCEPT !.pc = IF BelowLimit(w) THEN "list" ELSE "answer"])
                /\ UNCHANGED <<lock, seen>>
           ELSE IF BelowLimit(w)
           THEN /\ ClaimStep(w, c, [k EXCEPT !.pc = "write"])
                /\ UNCHANGED <<lock, seen>>
           ELSE /\ ClaimStep(w, c, [k EXCEPT !.pc = "lock", !.exec = NoExec,
                                             !.cands = @ \ {k.exec}])
                /\ lock' = [lock EXCEPT ![k.exec] = Free]
                /\ seen' = [seen EXCEPT ![k.exec] = Absent]
        /\ UNCHANGED <<record, gone, update, indexVars, workerVars, scanDue, faults>>

IsQueued(e) == File(e).status = "QUEUED"

\* _check_execution_requirements
Fits(w, e) == w \in record[e].fits

\* Mutant: the records are never scanned.
ScanDisk_Never(listed) == FALSE

ScanDisk(listed) == listed = {} /\ scanDue

\* The oldest ListLimit rows, and those among them that w may take.
FirstRows == {e \in queuedRow : Cardinality({f \in queuedRow : f < e}) < ListLimit}
Readable == {e \in Exec : lock[e] = Free \/ e \in gone}
Listed(w) == {e \in FirstRows \cap Readable : IsQueued(e) /\ Fits(w, e)}

\* With none left, the records themselves are scanned if the interval has elapsed.
ScansDisk(w) == ScanDisk(Listed(w))
Candidates(w) == IF ScansDisk(w) THEN {e \in Readable : IsQueued(e) /\ Fits(w, e)} ELSE Listed(w)

\* Rows of records that are gone or not QUEUED are dropped, records that are locked or
\* not for this worker passed over; a scan adds the queue rows it misses.
ClaimList(w, c) ==
    /\ claim[w][c].pc = "list"
    /\ queuedRow' = (queuedRow \ {e \in FirstRows \cap Readable : ~IsQueued(e)})
                       \cup (IF ScansDisk(w) THEN {e \in Readable : IsQueued(e)} ELSE {})
    /\ scanDue' = (scanDue /\ ~ScansDisk(w))
    /\ ClaimStep(w, c, [claim[w][c] EXCEPT !.pc = "lock", !.cands = Candidates(w)])
    /\ UNCHANGED <<fileVars, update, creating, runningRow, workerVars, faults>>

\* Mutant: the candidate is not read again under the lock.
StillQueued_Trusted(e) == TRUE

StillQueued(e) == IsQueued(e)

\* The candidates are tried in queuedAt order.
ClaimLock(w, c, e) ==
    LET k == claim[w][c]
    IN  /\ k.pc = "lock"
        /\ e \in k.cands
        /\ \A f \in k.cands : e <= f
        /\ lock[e] = Free \/ e \in gone
        /\ IF StillQueued(e)
           THEN /\ lock' = [lock EXCEPT ![e] = <<w, c>>]
                /\ seen' = [seen EXCEPT ![e] = record[e]]
                /\ CheckLimit(w, c, [k EXCEPT !.exec = e], "write")
           ELSE /\ ClaimStep(w, c, [k EXCEPT !.cands = @ \ {e}])
                /\ UNCHANGED <<lock, seen>>
        /\ UNCHANGED <<record, gone, update, indexVars, workerVars, scanDue, faults>>

ClaimNone(w, c) ==
    /\ claim[w][c].pc = "lock"
    /\ claim[w][c].cands = {}
    /\ ClaimStep(w, c, [claim[w][c] EXCEPT !.pc = "answer"])
    /\ UNCHANGED <<fileVars, update, indexVars, workerVars, scanDue, faults>>

ClaimWrite(w, c) ==
    LET k == claim[w][c]
    IN  /\ k.pc = "write"
        /\ record' = [record EXCEPT ![k.exec] =
                         [seen[k.exec] EXCEPT !.status = "RUNNING", !.worker = w]]
        /\ ClaimStep(w, c, [k EXCEPT !.pc = "index"])
        /\ UNCHANGED <<gone, lock, seen, update, indexVars, workerVars, scanDue, faults>>

mark_running_execution(w, c) ==
    LET k == claim[w][c]
    IN  /\ k.pc = "index"
        /\ runningRow' = [runningRow EXCEPT ![k.exec] = w]
        /\ queuedRow' = queuedRow \ {k.exec}
        /\ lock' = [lock EXCEPT ![k.exec] = Free]
        /\ seen' = [seen EXCEPT ![k.exec] = Absent]
        /\ ClaimStep(w, c, [k EXCEPT !.pc = "answer"])
        /\ UNCHANGED <<record, gone, update, creating, workerVars, scanDue, faults>>

\* The response: the worker starts what it was given, unless it no longer
\* waits for this request.
ClaimAnswer(w, c) ==
    LET e == claim[w][c].exec
    IN  /\ claim[w][c].pc = "answer"
        /\ ClaimStep(w, c, NoClaim)
        /\ IF waiting[w] = c
           THEN /\ waiting' = [waiting EXCEPT ![w] = Free]
                /\ run' = IF e = NoExec THEN run ELSE [run EXCEPT ![w][e] = "running"]
           ELSE UNCHANGED workerVars
        /\ UNCHANGED <<fileVars, update, indexVars, scanDue, faults>>

ScanIntervalElapses ==
    /\ ~scanDue
    /\ scanDue' = TRUE
    /\ UNCHANGED <<fileVars, update, indexVars, claim, workerVars, faults>>

-----------------------------------------------------------------------------
(* The worker process.                                                     *)

Fault ==
    /\ faults < MaxFaults
    /\ faults' = faults + 1

\* The client of the worker gives up on a claim after ten seconds; the thread
\* of the server goes on.
ClaimTimeout(w) ==
    /\ waiting[w] # Free
    /\ Fault
    /\ waiting' = [waiting EXCEPT ![w] = Free]
    /\ UNCHANGED <<fileVars, update, indexVars, claim, run, scanDue>>

\* The two-second status poll sees CANCELING (with OpenTofu also CANCELED): SIGTERM.
ObserveCanceling(w, e) ==
    /\ run[w][e] = "running"
    /\ File(e).status \in {"CANCELING"} \cup (IF e \in Tofu THEN {"CANCELED"} ELSE {})
    /\ run' = [run EXCEPT ![w][e] = "stopping"]
    /\ UNCHANGED <<fileVars, update, indexVars, claim, waiting, scanDue, faults>>

\* The final status executePlaybook reads from the server before it reports;
\* executeTofuRun does not look.
FinalStatusSeen(e) == IF e \in Tofu THEN {} ELSE {File(e).status} \cap FINAL_STATUSES

\* The status settled on once the process is gone: the final one read, or,
\* with none there or none readable, the run's own.
ReportStatus(w, e) ==
    (IF run[w][e] = "stopping" THEN {"CANCELED"} ELSE {"SUCCESS", "FAILED"})
        \cup FinalStatusSeen(e)

FinishExecution(w, e, s) ==
    /\ run[w][e] \in {"running", "stopping"}
    /\ s \in ReportStatus(w, e)
    /\ update[e]["finish"].pc = "none"
    /\ run' = [run EXCEPT ![w][e] = "reporting"]
    /\ update' = [update EXCEPT ![e]["finish"] =
                     [NoUpdate EXCEPT !.pc = "sent", !.by = w, !.status = s]]
    /\ UNCHANGED <<fileVars, indexVars, claim, waiting, scanDue, faults>>

\* The worker's own polling ends a run: a status it stops for has the process
\* killed, after which it is reported.
KilledAndReported(w, e) ==
    \/ ObserveCanceling(w, e)
    \/ /\ run[w][e] = "stopping" \/ FinalStatusSeen(e) # {}
       /\ \E s \in FINAL_STATUSES : FinishExecution(w, e, s)

FinishLost(e) ==
    /\ update[e]["finish"].pc = "sent"
    /\ Fault
    /\ update' = [update EXCEPT ![e]["finish"] = NoUpdate]
    /\ UNCHANGED <<fileVars, indexVars, claim, workerVars, scanDue>>

\* The slot is freed by any answer to the report, or by fifteen seconds
\* without one.
ReleaseSlot(w, e) ==
    /\ run[w][e] = "reporting"
    /\ \/ update[e]["finish"].pc = "none" /\ UNCHANGED faults
       \/ Fault
    /\ run' = [run EXCEPT ![w][e] = "none"]
    /\ UNCHANGED <<fileVars, update, indexVars, claim, waiting, scanDue>>

-----------------------------------------------------------------------------
(* Crashes.                                                                *)

\* A worker process dies and restarts with the same token.
WorkerCrash(w) ==
    /\ Fault
    /\ run' = [run EXCEPT ![w] = [e \in Exec |-> "none"]]
    /\ waiting' = [waiting EXCEPT ![w] = Free]
    /\ UNCHANGED <<fileVars, update, indexVars, claim, scanDue>>

\* The server dies with its threads and locks.  At startup the queue rows are
\* rebuilt if there are none, and the running rows are made to fit the records
\* that are there.
IsRunning(e) == File(e).status = "RUNNING" /\ record[e].worker # NoWorker

\* Mutant: startup only drops rows.
RunningRowAtStartup_DropOnly(e) == IF IsRunning(e) THEN runningRow[e] ELSE NoWorker

RunningRowAtStartup(e) ==
    IF e \in gone THEN runningRow[e]
    ELSE IF IsRunning(e) THEN record[e].worker ELSE NoWorker

backfill_if_empty ==
    LET queued == {e \in Exec : IsQueued(e)}
        rows == IF queuedRow = {} THEN queued ELSE queuedRow
    IN  /\ queuedRow' = {e \in rows : ~IsRunning(e)}
        /\ runningRow' = [e \in Exec |-> RunningRowAtStartup(e)]

ServerRestart ==
    /\ Fault
    /\ lock' = [e \in Exec |-> Free]
    /\ seen' = [e \in Exec |-> Absent]
    /\ update' = [e \in Exec |-> [o \in Origin |-> NoUpdate]]
    /\ creating' = [e \in Exec |-> Absent]
    /\ claim' = [w \in Worker |-> [c \in ClaimCall |-> NoClaim]]
    /\ waiting' = [w \in Worker |-> Free]
    /\ scanDue' = TRUE
    /\ backfill_if_empty
    /\ UNCHANGED <<record, gone, run>>

-----------------------------------------------------------------------------

UpdateStep(e, o) == UpdateRead(e, o) \/ UpdateWrite(e, o) \/ UpdateIndex(e, o)

ServerStep(w, c) ==
    \/ \E e \in Exec : PruneRow(w, c, e) \/ ClaimLock(w, c, e)
    \/ PruneFail(w, c) \/ PruneDone(w, c)
    \/ ClaimList(w, c) \/ ClaimNone(w, c)
    \/ ClaimWrite(w, c) \/ mark_running_execution(w, c) \/ ClaimAnswer(w, c)

Next ==
    \/ \E e \in Exec :
        \/ create_execution_record(e) \/ add_created_row(e) \/ delete_execution(e)
        \/ api_cancel_execution(e) \/ api_stop_execution(e)
        \/ server_recover_stuck_executions(e)
        \/ \E o \in Origin : UpdateStep(e, o)
        \/ \E s \in Status \cup {"unset"} : api_update_execution(e, s)
        \/ FinishLost(e)
    \/ \E w \in Worker, c \in ClaimCall : ClaimBegin(w, c) \/ ServerStep(w, c)
    \/ \E w \in Worker, e \in Exec :
        \/ ObserveCanceling(w, e) \/ ReleaseSlot(w, e)
        \/ \E s \in FINAL_STATUSES : FinishExecution(w, e, s)
    \/ \E w \in Worker : ClaimTimeout(w) \/ WorkerCrash(w)
    \/ ScanIntervalElapses
    \/ ServerRestart

Spec == Init /\ [][Next]_vars

(* Threads of the server go on, the recovery thread and the workers' loops *)
(* poll forever.  Nothing is assumed of users, of the tools a worker runs  *)
(* (a playbook may hang) or of faults.                                     *)
Fairness ==
    /\ \A e \in Exec :
        /\ WF_vars(add_created_row(e))
        /\ WF_vars(WriteAndUnlock(e, "cancel", "CANCELED"))
        /\ WF_vars(WriteAndUnlock(e, "stop", "CANCELING"))
        /\ WF_vars(server_recover_stuck_executions(e))
        /\ \A o \in Origin : WF_vars(UpdateStep(e, o))
    /\ \A w \in Worker, c \in ClaimCall : WF_vars(ClaimBegin(w, c)) /\ WF_vars(ServerStep(w, c))
    /\ \A w \in Worker, e \in Exec :
        /\ WF_vars(KilledAndReported(w, e))
        /\ WF_vars(ReleaseSlot(w, e))
    /\ WF_vars(ScanIntervalElapses)

FairSpec == Spec /\ Fairness

-----------------------------------------------------------------------------
(* Properties.                                                             *)

Started == {"RUNNING", "CANCELING"} \cup FINAL_STATUSES

\* The worker a started record names.  A QUEUED record may be posted with a
\* workerId, which says nothing: the claim of any worker overwrites it.
Owner(e) == IF record[e].status \in Started THEN record[e].worker ELSE NoWorker

\* An execution is started at most once: from the claim, or from its creation as
\* RUNNING, its record keeps its worker, never returns to QUEUED and is never
\* claimed again (server_claim_next_execution against all other writers).
StartedOnce ==
    [][\A e \in Exec : record[e].status \in Started =>
          /\ record'[e].worker = record[e].worker
          /\ record'[e].status = "RUNNING" => record[e].status = "RUNNING"
          /\ record'[e].status \in Started]_vars

\* A worker process only works on executions whose record, or what the record
\* was when it was deleted, is started and names it; no two workers run the same.
RunsOwnExecution ==
    \A w \in Worker, e \in Exec : run[w][e] # "none" => Owner(e) = w

\* An execution canceled while it was queued never runs, nor changes again
\* (api_cancel_execution against a claim that has listed the execution).  One posted
\* with a workerId cannot be told from one stopped later, and is not covered.
CanceledInQueueIsFinal ==
    [][\A e \in Exec : record[e].status = "CANCELED" /\ record[e].worker = NoWorker =>
          record'[e] = record[e]]_vars

IsRunningOf(e, w) == File(e).status = "RUNNING" /\ record[e].worker = w

\* The concurrency check counts rows, not records: no RUNNING record is
\* missing from its worker's rows, except while the claim that made it
\* RUNNING, or the request that created it so, is still to write its row.
RunningIsIndexed ==
    \A w \in Worker, e \in Exec : IsRunningOf(e, w) =>
        \/ runningRow[e] = w
        \/ \E c \in ClaimCall : claim[w][c].pc = "index" /\ claim[w][c].exec = e
        \/ creating[e].status = "RUNNING"

\* The executions nobody creates RUNNING: a claim has to start them.
Claimed == {e \in Exec : \A r \in Born[e] : r.status = "QUEUED"}

\* Claims never give a worker more executions than it has slots, whatever records
\* are created RUNNING for it besides: those are not counted here, and pass no
\* check (server_claim_next_execution).
AtMostMaxRunning ==
    \A w \in Worker : Cardinality({e \in Claimed : IsRunningOf(e, w)}) <= MaxConcurrency

\* An execution its worker is still running is marked FAILED by the
\* 30-minute timeout or by nobody: pruning only fails orphans.
LiveRunNotFailed ==
    [][\A w \in Worker, e \in Exec :
          /\ run[w][e] \in {"running", "stopping"}
          /\ record[e].status # "FAILED"
          /\ record'[e].status = "FAILED"
          => lock[e] = Locker("expire") /\ lock'[e] = Free]_vars

\* Moves of a record that survive the races: a lost update may replace what
\* became of a started execution, but only by another outcome of a started one.
KeptMoves == ({"QUEUED"} \X {"RUNNING", "CANCELED"}) \cup (Started \X (Started \ {"RUNNING"}))

Kept == INSTANCE ExecutionLifecycle
            WITH status <- [e \in Exec |-> record[e].status], Moves <- KeptMoves

\* The records implement the life cycle with the moves KeptMoves.
KeptLifecycle == Kept!Spec

\* "Final statuses ... cannot be changed" (validate_status_transition).
FinalIsFinal ==
    [][\A e \in Exec : record[e].status \in FINAL_STATUSES =>
          record'[e].status = record[e].status]_vars

\* No call that is under way has anything else left to write to e, whose status
\* is final: neither a holder of its lock, an update, a claim nor pruning.
Settled(e) ==
    /\ record[e].status \in FINAL_STATUSES
    /\ lock[e] = Free
    /\ \A o \in Origin : update[e][o].pc = "write" => update[e][o].status = record[e].status
    /\ \A w \in Worker, c \in ClaimCall :
          claim[w][c].orphan # e /\ (claim[w][c].exec = e => claim[w][c].pc = "answer")

\* The same sentence for every call that starts later: once those under way are
\* done a final status is never changed again, by PATCH, report, stop, timeout,
\* pruning, a claim that has listed the execution, or a restart.
SettledIsFinal ==
    [][\A e \in Exec : Settled(e) =>
          Settled(e)' /\ record'[e].status = record[e].status]_vars

\* A stop request comes to an end even if the worker never reports: a
\* CANCELING record becomes final (server_recover_stuck_executions).
StopTakesEffect ==
    \A e \in Stopped : File(e).status = "CANCELING" ~>
        File(e).status \in FINAL_STATUSES \cup {"ABSENT"}

\* A run that nothing ends if its tool hangs: OpenTofu after the timeout, or any
\* run whose record was deleted.
OutOfReach == \E w \in Worker, e \in Exec : run[w][e] = "running" /\ (e \in Tofu \/ e \in gone)

\* A queued execution that fits some worker is claimed, canceled or deleted, unless
\* a run out of reach takes the slot for good: neither lost index rows, rows of
\* dead runs or of posted RUNNING records at the limit, pruning, a lost claim response
\* nor an older execution that no worker may take blocks the queue
\* (server_claim_next_execution).
NoStarvation ==
    \A e \in Exec : (IsQueued(e) /\ record[e].fits # {}) ~> (~IsQueued(e) \/ OutOfReach)

-----------------------------------------------------------------------------
(* The inductive invariant behind the safety properties, for a system in   *)
(* which nobody sends PATCH (Patched = {}).                                *)

\* What a route or a timeout has read under the lock still holds as far as it
\* matters to what it will write.
LockersAreCurrent ==
    \A e \in Exec :
        /\ lock[e] = Locker("cancel") =>
              record[e].status = "QUEUED" /\ seen[e] = record[e]
        /\ \A op \in {"stop", "expire", "force"} : lock[e] = Locker(op) =>
              /\ record[e].status \in Started /\ seen[e].worker = record[e].worker
              /\ record[e].worker = NoWorker => record[e].status \in {"RUNNING", "CANCELING"}

\* A claim holds the lock of a QUEUED record from ClaimLock to ClaimWrite.
HoldsCandidate(k) == k.pc = "write" \/ (k.pc \in {"prune", "fail"} /\ k.back = "write")

HoldsItsLock(w, c) ==
    LET k == claim[w][c]
    IN  /\ HoldsCandidate(k) =>
              k.exec \in Exec /\ lock[k.exec] = <<w, c>> /\ record[k.exec].status = "QUEUED"
        /\ k.pc = "index" =>
              k.exec \in Exec /\ lock[k.exec] = <<w, c>> /\ Owner(k.exec) = w
        /\ k.pc = "answer" => k.exec = NoExec \/ Owner(k.exec) = w
        /\ k.exec # NoExec => HoldsCandidate(k) \/ k.pc \in {"index", "answer"}

ClaimsHoldTheirLock == \A w \in Worker, c \in ClaimCall : HoldsItsLock(w, c)

\* Pruning only visits, and only fails, records of its own worker.
PrunesOwn(w, c) ==
    LET k == claim[w][c]
    IN  /\ k.pc \in {"prune", "fail"} => \A e \in k.todo : Owner(e) = w
        /\ k.pc = "fail" =>
              k.orphan \in Exec /\ Owner(k.orphan) = w /\ k.read.worker = w

PruningIsOwn == \A w \in Worker, c \in ClaimCall : PrunesOwn(w, c)

\* The only unlocked updates are reports of the record's worker.
UpdatesAreReports ==
    \A e \in Exec, o \in Origin :
        LET u == update[e][o]
        IN  u.pc # "none" =>
              /\ u.by \in Worker
              /\ Owner(e) = u.by
              /\ u.status \in FINAL_STATUSES
              /\ u.pc \in {"write", "index"} => u.seen.worker = u.by
              /\ u.pc = "index" => record[e].status # "RUNNING"

\* A row, and one that is still to be added, is that of the record's worker.
RowsAreOwn ==
    \A w \in Worker, e \in Exec :
        \/ runningRow[e] = w
        \/ creating[e].status = "RUNNING" /\ creating[e].worker = w
        => Owner(e) = w

OwnershipInv ==
    /\ LockersAreCurrent
    /\ ClaimsHoldTheirLock
    /\ PruningIsOwn
    /\ UpdatesAreReports
    /\ RowsAreOwn
    /\ RunsOwnExecution
    /\ RunningIsIndexed

=============================================================================
