--------------------- MODULE ExecutionQueueSafetyProofs ---------------------
(***************************************************************************)
(* Safety theorems about ExecutionQueue.  The ownership theorems are about *)
(* a system in which nobody sends PATCH: a PATCH writes back a record it   *)
(* has read without the lock, worker included.                             *)
(***************************************************************************)
EXTENDS ExecutionQueueProofs

ServerOp == {"cancel", "stop", "expire", "force"}

LEMMA StatusFacts ==
    /\ Started = {"RUNNING", "CANCELING", "CANCELED", "SUCCESS", "FAILED"}
    /\ FINAL_STATUSES = {"CANCELED", "SUCCESS", "FAILED"}
  BY DEF Started, FINAL_STATUSES

LEMMA OwnerIs ==
    \A e \in Exec, w \in Worker :
        Owner(e) = w <=> record[e].status \in Started /\ record[e].worker = w
  BY QueueAssumption DEF Owner

\* Nobody is two holders of a lock.
LEMMA LockFacts ==
    /\ \A op \in ServerOp : Locker(op) # Free
    /\ \A w \in Worker, c \in ClaimCall :
          <<w, c>> # Free /\ \A op \in ServerOp : Locker(op) # <<w, c>>
    /\ \A a, b \in ServerOp : Locker(a) = Locker(b) => a = b
  BY HolderAssumption DEF Holder, Locker, ServerOp

LEMMA ClaimTypes ==
    ASSUME TypeInv, NEW w \in Worker, NEW c \in ClaimCall
    PROVE  /\ claim[w][c] \in Claim
           /\ claim[w][c].exec \in Exec \cup {NoExec}
           /\ claim[w][c].orphan \in Exec \cup {NoExec}
           /\ claim[w][c].todo \subseteq Exec
<1>1. claim[w][c] \in Claim
  BY DEF TypeInv, TypeOK
<1> QED
  BY <1>1 DEF Claim

-----------------------------------------------------------------------------
(* What every step but a restart keeps, and what follows from it for the   *)
(* parts of the invariant the step does not touch.                         *)

\* A started record keeps its worker, and does not become RUNNING again.
OwnersStay ==
    \A e \in Exec, w \in Worker : Owner(e) = w =>
        /\ Owner(e)' = w
        /\ record'[e].status = "RUNNING" => record[e].status = "RUNNING"

\* A claim other than k keeps its lock and its candidate.
LocksStay(k) ==
    \A e \in Exec, w \in Worker, c \in ClaimCall :
        lock[e] = <<w, c>> /\ <<w, c>> # k =>
            /\ lock'[e] = <<w, c>>
            /\ record[e].status = "QUEUED" => record'[e].status = "QUEUED"

LEMMA KeepHoldsItsLock ==
    ASSUME TypeInv, OwnersStay, NEW k, LocksStay(k), NEW w \in Worker, NEW c \in ClaimCall,
           <<w, c>> # k, claim'[w][c] = claim[w][c], HoldsItsLock(w, c)
    PROVE  HoldsItsLock(w, c)'
  BY ClaimTypes DEF OwnersStay, LocksStay, Owner, HoldsItsLock, HoldsCandidate

LEMMA KeepPrunesOwn ==
    ASSUME TypeInv, OwnersStay, NEW w \in Worker, NEW c \in ClaimCall,
           claim'[w][c] = claim[w][c], PrunesOwn(w, c)
    PROVE  PrunesOwn(w, c)'
  BY ClaimTypes DEF OwnersStay, PrunesOwn

LEMMA KeepUpdates ==
    ASSUME OwnersStay, UpdatesAreReports, UNCHANGED update
    PROVE  UpdatesAreReports'
  BY DEF OwnersStay, UpdatesAreReports

LEMMA KeepRows ==
    ASSUME OwnersStay, RowsAreOwn, UNCHANGED creating,
           \A e \in Exec : runningRow'[e] \in {runningRow[e], NoWorker}
    PROVE  RowsAreOwn'
  BY QueueAssumption DEF OwnersStay, RowsAreOwn

LEMMA KeepRuns ==
    ASSUME OwnersStay, RunsOwnExecution,
           \A w \in Worker, e \in Exec : run'[w][e] # "none" => run[w][e] # "none"
    PROVE  RunsOwnExecution'
  BY DEF OwnersStay, RunsOwnExecution

\* A record that is RUNNING after the step was so before, and keeps its row or
\* the claim that is about to write it.
LEMMA KeepIndexed ==
    ASSUME RunningIsIndexed, UNCHANGED creating,
           \A e \in Exec : e \notin gone' /\ record'[e].status = "RUNNING" =>
               e \notin gone /\ record'[e] = record[e] /\ runningRow'[e] = runningRow[e],
           \A w \in Worker, c \in ClaimCall : claim[w][c].pc = "index" =>
               claim'[w][c] = claim[w][c]
    PROVE  RunningIsIndexed'
  BY DEF RunningIsIndexed, IsRunningOf, File, Absent

\* A step that leaves the claims alone.
LEMMA KeepClaims ==
    ASSUME TypeInv, OwnershipInv, OwnersStay, LocksStay(Free), UNCHANGED claim
    PROVE  ClaimsHoldTheirLock' /\ PruningIsOwn'
<1>1. \A w \in Worker, c \in ClaimCall : <<w, c>> # Free
  BY LockFacts
<1> QED
  BY <1>1, KeepHoldsItsLock, KeepPrunesOwn
     DEF OwnershipInv, ClaimsHoldTheirLock, PruningIsOwn

\* A step of the claim <<w, c>>.
LEMMA KeepOtherClaims ==
    ASSUME TypeInv, OwnershipInv, OwnersStay, NEW w \in Worker, NEW c \in ClaimCall,
           LocksStay(<<w, c>>), NEW k \in Claim, ClaimStep(w, c, k),
           HoldsItsLock(w, c)', PrunesOwn(w, c)'
    PROVE  ClaimsHoldTheirLock' /\ PruningIsOwn'
<1> SUFFICES ASSUME NEW x \in Worker, NEW d \in ClaimCall, <<x, d>> # <<w, c>>
             PROVE  HoldsItsLock(x, d)' /\ PrunesOwn(x, d)'
  BY DEF ClaimsHoldTheirLock, PruningIsOwn
<1>1. claim'[x][d] = claim[x][d]
  BY ClaimStepChange DEF TypeInv
<1> QED
  BY <1>1, KeepHoldsItsLock, KeepPrunesOwn
     DEF OwnershipInv, ClaimsHoldTheirLock, PruningIsOwn

\* Steps that change nothing the invariant speaks of, except perhaps updates.
LEMMA KeepAllButUpdates ==
    ASSUME OwnershipInv, UNCHANGED <<gone, record, lock, seen, creating, runningRow, claim, run>>,
           UpdatesAreReports'
    PROVE  OwnershipInv'
<1>1. RunningIsIndexed'
  BY KeepIndexed DEF OwnershipInv
<1> QED
  BY <1>1 DEF OwnershipInv, LockersAreCurrent, ClaimsHoldTheirLock,
              HoldsItsLock, HoldsCandidate, PruningIsOwn, PrunesOwn, RowsAreOwn, RunsOwnExecution, Owner

LEMMA KeepAll ==
    ASSUME OwnershipInv, UNCHANGED <<gone, record, lock, seen, update, creating, runningRow, claim, run>>
    PROVE  OwnershipInv'
  BY KeepAllButUpdates DEF OwnershipInv, UpdatesAreReports, Owner

-----------------------------------------------------------------------------
(* Creation and the writers under the lock.                                *)

LEMMA OwnInit == Init => OwnershipInv
  BY QueueAssumption, LockFacts
     DEF Init, OwnershipInv, LockersAreCurrent, ClaimsHoldTheirLock, HoldsItsLock,
         HoldsCandidate, PruningIsOwn, PrunesOwn, UpdatesAreReports, RowsAreOwn,
         RunsOwnExecution, RunningIsIndexed, IsRunningOf, File, Absent, NoUpdate, NoClaim, ServerOp

LEMMA OwnCreate ==
    ASSUME TypeInv, OwnershipInv, NEW e \in Exec, create_execution_record(e)
    PROVE  OwnershipInv'
<1>1. PICK r \in Posted :
          /\ record[e].status = "ABSENT" /\ record'[e] = r
          /\ creating'[e] = IF HasRow(r) THEN r ELSE Absent
          /\ \A f \in Exec : f # e => record'[f] = record[f] /\ creating'[f] = creating[f]
          /\ UNCHANGED <<gone, lock, seen, update, runningRow, claim, run>>
  BY QueueAssumption DEF create_execution_record, TypeInv, TypeOK
<1>2. r \in Record /\ r.status \in {"QUEUED", "RUNNING"}
  BY DEF Posted
<1>3. Owner(e) = NoWorker /\ \A f \in Exec : f # e => Owner(f)' = Owner(f)
  BY <1>1, StatusFacts DEF Owner
<1>4. OwnersStay /\ LocksStay(Free)
  BY <1>1, <1>3, QueueAssumption DEF OwnersStay, LocksStay, Owner
<1>5. LockersAreCurrent'
  BY <1>1, StatusFacts DEF OwnershipInv, LockersAreCurrent
<1>6. r.status = "RUNNING" => Owner(e)' = r.worker
  BY <1>1, StatusFacts DEF Owner
<1>7. RowsAreOwn'
  BY <1>1, <1>3, <1>6, QueueAssumption DEF OwnershipInv, RowsAreOwn, Absent
<1>8. RunningIsIndexed'
  BY <1>1, <1>2, QueueAssumption DEF OwnershipInv, RunningIsIndexed, IsRunningOf, HasRow, File, Absent
<1> QED
  BY <1>1, <1>4, <1>5, <1>7, <1>8, KeepClaims, KeepUpdates, KeepRuns DEF OwnershipInv

LEMMA OwnAddRow ==
    ASSUME TypeInv, OwnershipInv, NEW e \in Exec, add_created_row(e)
    PROVE  OwnershipInv'
<1>1. /\ creating[e] \in Posted /\ HasRow(creating[e])
      /\ creating'[e] = Absent
      /\ creating[e].status = "QUEUED" => UNCHANGED runningRow
      /\ creating[e].status # "QUEUED" => runningRow'[e] = creating[e].worker
      /\ \A f \in Exec : f # e => creating'[f] = creating[f] /\ runningRow'[f] = runningRow[f]
      /\ UNCHANGED <<gone, record, lock, seen, update, claim, run>>
  BY QueueAssumption DEF add_created_row, TypeInv, TypeOK, RowToCome, fileVars
<1>2. creating[e].status # "QUEUED" => creating[e].status = "RUNNING" /\ creating[e].worker \in Worker
  BY <1>1 DEF Posted, HasRow, Record
<1>3. OwnersStay /\ LocksStay(Free)
  BY <1>1 DEF OwnersStay, LocksStay, Owner
<1>4. LockersAreCurrent'
  BY <1>1 DEF OwnershipInv, LockersAreCurrent
<1>5. RowsAreOwn'
  BY <1>1, <1>2 DEF OwnershipInv, RowsAreOwn, Owner, Absent
<1>6. RunningIsIndexed'
  <2> SUFFICES ASSUME NEW w \in Worker, NEW f \in Exec, IsRunningOf(f, w)'
               PROVE  \/ runningRow'[f] = w
                      \/ \E c \in ClaimCall : claim'[w][c].pc = "index" /\ claim'[w][c].exec = f
                      \/ creating'[f].status = "RUNNING"
    BY DEF RunningIsIndexed
  <2>1. IsRunningOf(f, w)
    BY <1>1 DEF IsRunningOf, File
  <2>2. Owner(f) = w
    BY <2>1, StatusFacts DEF IsRunningOf, File, Owner, Absent
  <2>3. CASE f # e \/ creating[e].status = "QUEUED"
    BY <1>1, <2>1, <2>3 DEF OwnershipInv, RunningIsIndexed
  <2>4. CASE f = e /\ creating[e].status # "QUEUED"
    BY <1>1, <1>2, <2>2, <2>4 DEF OwnershipInv, RowsAreOwn
  <2> QED
    BY <2>3, <2>4
<1> QED
  BY <1>1, <1>3, <1>4, <1>5, <1>6, KeepClaims, KeepUpdates, KeepRuns DEF OwnershipInv

LEMMA OwnLock ==
    ASSUME TypeInv, OwnershipInv, NEW e \in Exec, NEW op \in ServerOp, NEW s \in Status,
           LockAndRead(e, op, s),
           IF op = "cancel" THEN s = "QUEUED" ELSE s \in {"RUNNING", "CANCELING"}
    PROVE  OwnershipInv'
<1>1. /\ lock[e] = Free
      /\ record[e].status = s
      /\ lock'[e] = Locker(op) /\ seen'[e] = record[e]
      /\ \A f \in Exec : f # e => lock'[f] = lock[f] /\ seen'[f] = seen[f]
      /\ UNCHANGED <<gone, record, update, creating, runningRow, claim, run>>
  BY DEF LockAndRead, File, Absent, Status, TypeInv, TypeOK, indexVars, workerVars
<1>2. op # "cancel" => record[e].status \in Started
  BY <1>1, StatusFacts
<1>3. OwnersStay /\ LocksStay(Free)
  BY <1>1, LockFacts DEF OwnersStay, LocksStay, Owner
<1>4. LockersAreCurrent'
  BY <1>1, <1>2, LockFacts DEF OwnershipInv, LockersAreCurrent, ServerOp
<1> QED
  BY <1>1, <1>3, <1>4, KeepClaims, KeepUpdates, KeepRows, KeepRuns, KeepIndexed
     DEF OwnershipInv

LEMMA OwnUnlock ==
    ASSUME TypeInv, OwnershipInv, NEW e \in Exec, NEW op \in ServerOp, NEW s \in Status,
           WriteAndUnlock(e, op, s),
           IF op = "cancel" THEN s = "CANCELED" ELSE s \in Started \ {"RUNNING"}
    PROVE  OwnershipInv'
<1>1. /\ lock[e] = Locker(op) /\ lock'[e] = Free
      /\ record'[e].status = s /\ record'[e].worker = seen[e].worker
      /\ \A f \in Exec : f # e => record'[f] = record[f] /\ lock'[f] = lock[f] /\ seen'[f] = seen[f]
      /\ UNCHANGED <<gone, update, creating, runningRow, claim, run>>
  BY DEF WriteAndUnlock, TypeInv, TypeOK, Record, indexVars, workerVars
<1>2. record'[e].worker = record[e].worker
  BY <1>1 DEF OwnershipInv, LockersAreCurrent, ServerOp
<1>3. /\ op = "cancel" => record[e].status = "QUEUED"
      /\ op # "cancel" => record[e].status \in Started
  BY <1>1 DEF OwnershipInv, LockersAreCurrent, ServerOp
<1>4. OwnersStay /\ LocksStay(Free)
  BY <1>1, <1>2, <1>3, LockFacts, StatusFacts, QueueAssumption DEF OwnersStay, LocksStay, Owner
<1>5. LockersAreCurrent'
  BY <1>1, LockFacts DEF OwnershipInv, LockersAreCurrent, ServerOp
<1>6. RunningIsIndexed'
  BY <1>1, StatusFacts, KeepIndexed DEF OwnershipInv
<1> QED
  BY <1>1, <1>4, <1>5, <1>6, KeepClaims, KeepUpdates, KeepRows, KeepRuns
     DEF OwnershipInv

\* A deletion only takes files away.
LEMMA OwnDelete ==
    ASSUME TypeInv, OwnershipInv, NEW e \in Exec, delete_execution(e)
    PROVE  OwnershipInv'
<1>1. gone \subseteq gone' /\ UNCHANGED <<record, lock, seen, update, creating, runningRow, claim, run>>
  BY DEF delete_execution, indexVars, workerVars
<1>2. RunningIsIndexed'
  BY <1>1, KeepIndexed DEF OwnershipInv
<1>3. OwnersStay /\ LocksStay(Free)
  BY <1>1 DEF OwnersStay, LocksStay, Owner
<1>4. LockersAreCurrent'
  BY <1>1 DEF OwnershipInv, LockersAreCurrent
<1> QED
  BY <1>1, <1>2, <1>3, <1>4, KeepClaims, KeepUpdates, KeepRows, KeepRuns DEF OwnershipInv

LEMMA OwnRecords ==
    ASSUME TypeInv, OwnershipInv, NEW e \in Exec,
           \/ create_execution_record(e) \/ add_created_row(e) \/ delete_execution(e)
           \/ api_cancel_execution(e) \/ api_stop_execution(e)
           \/ server_recover_stuck_executions(e)
    PROVE  OwnershipInv'
<1>1. CASE api_cancel_execution(e)
  BY <1>1, OwnLock, OwnUnlock DEF api_cancel_execution, ServerOp, Status
<1>2. CASE api_stop_execution(e)
  BY <1>2, OwnLock, OwnUnlock, StatusFacts DEF api_stop_execution, ServerOp, Status
<1>3. CASE server_recover_stuck_executions(e)
  BY <1>3, OwnLock, OwnUnlock, StatusFacts DEF server_recover_stuck_executions, ServerOp, Status
<1> QED
  BY <1>1, <1>2, <1>3, OwnCreate, OwnAddRow, OwnDelete

-----------------------------------------------------------------------------
(* Updates, which nobody sends but a worker that finishes.                 *)

LEMMA OwnUpdateRead ==
    ASSUME TypeInv, OwnershipInv, NEW e \in Exec, NEW o \in Origin, UpdateRead(e, o)
    PROVE  OwnershipInv'
<1> DEFINE u == update[e][o]
           new == NewStatus(u, File(e))
           u2(ws) == [u EXCEPT !.pc = "write", !.status = new, !.seen = [File(e) EXCEPT !.fits = ws]]
<1>1. UNCHANGED <<gone, record, lock, seen, creating, runningRow, claim, run>>
  BY DEF UpdateRead, fileVars, indexVars, workerVars
<1>2. u \in Update /\ u.pc = "sent"
  <2>1. u.pc = "sent"
    BY DEF UpdateRead
  <2> QED
    BY <2>1 DEF TypeInv, TypeOK
<1>3. /\ u.by \in Worker /\ Owner(e) = u.by /\ u.status \in FINAL_STATUSES
      /\ record[e].worker = u.by
  BY <1>2, OwnerIs DEF OwnershipInv, UpdatesAreReports
<1>4. PICK v \in Update :
          /\ update' = [update EXCEPT ![e][o] = v]
          /\ v.pc # "none" =>
                /\ v.pc = "write" /\ v.by = u.by /\ v.status \in FINAL_STATUSES
                /\ v.seen.worker = record[e].worker
  <2>1. CASE update' = [update EXCEPT ![e][o] = NoUpdate]
    BY <2>1, NoUpdateType DEF NoUpdate
  <2>2. ASSUME File(e).status # "ABSENT", NEW ws \in SUBSET Worker,
               update' = [update EXCEPT ![e][o] = u2(ws)]
        PROVE  u2(ws) \in Update /\ u2(ws).pc = "write" /\ u2(ws).by = u.by
               /\ u2(ws).status = u.status /\ u2(ws).seen.worker = record[e].worker
    <3>0. File(e) = record[e] /\ record[e] \in Record
      BY <2>2 DEF File, Absent, TypeInv, TypeOK
    <3>1. new = u.status
      BY <1>3, StatusFacts DEF NewStatus
    <3>2. /\ [record[e] EXCEPT !.fits = ws] \in Record
          /\ [record[e] EXCEPT !.fits = ws].worker = record[e].worker
      BY <3>0 DEF Record
    <3> QED
      BY <1>2, <3>0, <3>1, <3>2 DEF Update
  <2>3. Merged(o, File(e)) \subseteq SUBSET Worker
    BY NoUpdateType DEF Merged, File, Record, TypeInv, TypeOK
  <2>4. \/ update' = [update EXCEPT ![e][o] = NoUpdate]
        \/ /\ File(e).status # "ABSENT"
           /\ \E ws \in SUBSET Worker : update' = [update EXCEPT ![e][o] = u2(ws)]
    BY <2>3 DEF UpdateRead
  <2> HIDE DEF u2
  <2> QED
    BY <1>3, <2>1, <2>2, <2>4
<1>5. \A f \in Exec, p \in Origin : update'[f][p] = IF f = e /\ p = o THEN v ELSE update[f][p]
  BY <1>4, UpdateChange DEF TypeInv
<1>6. UpdatesAreReports'
  BY <1>1, <1>3, <1>4, <1>5 DEF OwnershipInv, UpdatesAreReports, Owner
<1> QED
  BY <1>1, <1>6, KeepAllButUpdates

LEMMA OwnUpdateWrite ==
    ASSUME TypeInv, OwnershipInv, NEW e \in Exec, NEW o \in Origin, UpdateWrite(e, o)
    PROVE  OwnershipInv'
<1> DEFINE u == update[e][o]
<1>1. u \in Update /\ u.pc = "write" /\ u.seen \in Record
  <2>1. u \in Update /\ u.pc = "write"
    BY DEF TypeInv, TypeOK, UpdateWrite
  <2> QED
    BY <2>1 DEF Update
<1>2. /\ u.by \in Worker /\ Owner(e) = u.by /\ u.seen.worker = u.by
      /\ record[e].worker = u.by /\ record[e].status \in Started
      /\ u.status \in FINAL_STATUSES
  BY <1>1, OwnerIs DEF OwnershipInv, UpdatesAreReports
<1>3. /\ record'[e].status = u.status /\ record'[e].worker = u.seen.worker
      /\ \A f \in Exec : f # e => record'[f] = record[f]
      /\ gone' = gone \ {e}
      /\ UNCHANGED <<lock, seen, creating, runningRow, claim, run>>
  BY <1>1 DEF UpdateWrite, TypeInv, TypeOK, Record, indexVars, workerVars
<1>4. \A f \in Exec, p \in Origin :
          /\ update'[f][p].by = update[f][p].by
          /\ update'[f][p].status = update[f][p].status
          /\ update'[f][p].seen = update[f][p].seen
          /\ update'[f][p].pc = IF f = e /\ p = o THEN "index" ELSE update[f][p].pc
  BY <1>1 DEF UpdateWrite, TypeInv, TypeOK, Update
<1>5. OwnersStay /\ LocksStay(Free)
  BY <1>2, <1>3, StatusFacts DEF OwnersStay, LocksStay, Owner
<1>6. LockersAreCurrent'
  <2>1. record[e].status # "QUEUED" /\ record[e].worker # NoWorker /\ u.status \in Started
    BY <1>2, StatusFacts, QueueAssumption
  <2> QED
    BY <1>2, <1>3, <2>1 DEF OwnershipInv, LockersAreCurrent
<1>7. UpdatesAreReports'
  BY <1>1, <1>2, <1>3, <1>4, <1>5, StatusFacts DEF OwnershipInv, UpdatesAreReports, OwnersStay
<1>8. RunningIsIndexed'
  BY <1>2, <1>3, StatusFacts, KeepIndexed DEF OwnershipInv
<1> QED
  BY <1>3, <1>5, <1>6, <1>7, <1>8, KeepClaims, KeepRows, KeepRuns DEF OwnershipInv

LEMMA OwnUpdateIndex ==
    ASSUME TypeInv, OwnershipInv, NEW e \in Exec, NEW o \in Origin, UpdateIndex(e, o)
    PROVE  OwnershipInv'
<1> DEFINE u == update[e][o]
<1>1. u.pc = "index" /\ u.status \in FINAL_STATUSES /\ record[e].status # "RUNNING"
  BY DEF UpdateIndex, OwnershipInv, UpdatesAreReports
<1>2. /\ runningRow'[e] = NoWorker
      /\ \A f \in Exec : f # e => runningRow'[f] = runningRow[f]
      /\ \A f \in Exec, p \in Origin :
            update'[f][p] = IF f = e /\ p = o THEN NoUpdate ELSE update[f][p]
      /\ UNCHANGED <<gone, record, lock, seen, creating, claim, run>>
  BY <1>1, StatusFacts DEF UpdateIndex, TypeInv, TypeOK, fileVars, workerVars
<1>3. OwnersStay /\ LocksStay(Free)
  BY <1>2 DEF OwnersStay, LocksStay, Owner
<1>4. UpdatesAreReports'
  BY <1>2 DEF OwnershipInv, UpdatesAreReports, NoUpdate, Owner
<1>5. LockersAreCurrent'
  BY <1>2 DEF OwnershipInv, LockersAreCurrent
<1>6. RunningIsIndexed'
  BY <1>1, <1>2, KeepIndexed DEF OwnershipInv
<1> QED
  BY <1>2, <1>3, <1>4, <1>5, <1>6, KeepClaims, KeepRows, KeepRuns DEF OwnershipInv

LEMMA OwnFinish ==
    ASSUME TypeInv, OwnershipInv, NEW w \in Worker, NEW e \in Exec, NEW s \in FINAL_STATUSES,
           FinishExecution(w, e, s)
    PROVE  OwnershipInv'
<1> DEFINE u == [NoUpdate EXCEPT !.pc = "sent", !.by = w, !.status = s]
<1>1. u \in Update /\ u.pc = "sent" /\ u.by = w /\ u.status = s
  BY DEF NoUpdate, Update, Absent, Record, FINAL_STATUSES, Status
<1>2. update' = [update EXCEPT ![e]["finish"] = u]
  BY DEF FinishExecution
<1> HIDE DEF u
<1>3. /\ \A f \in Exec, p \in Origin :
            update'[f][p] = IF f = e /\ p = "finish" THEN u ELSE update[f][p]
      /\ UNCHANGED <<gone, record, lock, seen, creating, runningRow, claim>>
  BY <1>1, <1>2, UpdateChange DEF FinishExecution, TypeInv, Origin, fileVars, indexVars
<1>4. /\ run[w][e] # "none"
      /\ \A x \in Worker, f \in Exec : run'[x][f] # "none" => run[x][f] # "none"
  BY RunChange DEF FinishExecution, TypeInv
<1>5. Owner(e) = w
  BY <1>4 DEF OwnershipInv, RunsOwnExecution
<1>6. OwnersStay /\ LocksStay(Free)
  BY <1>3 DEF OwnersStay, LocksStay, Owner
<1>7. UpdatesAreReports'
  BY <1>1, <1>3, <1>5 DEF OwnershipInv, UpdatesAreReports, Owner
<1>8. LockersAreCurrent'
  BY <1>3 DEF OwnershipInv, LockersAreCurrent
<1> QED
  BY <1>3, <1>4, <1>6, <1>7, <1>8, KeepClaims, KeepRows, KeepRuns, KeepIndexed DEF OwnershipInv

LEMMA OwnUpdates ==
    ASSUME TypeInv, OwnershipInv, Patched = {}, NEW e \in Exec,
           \/ \E o \in Origin : UpdateStep(e, o)
           \/ \E s \in Status \cup {"unset"} : api_update_execution(e, s)
           \/ FinishLost(e)
    PROVE  OwnershipInv'
<1>1. ~ \E s \in Status \cup {"unset"} : api_update_execution(e, s)
  BY DEF api_update_execution
<1>2. ASSUME FinishLost(e)
      PROVE  OwnershipInv'
  <2>1. /\ \A f \in Exec, p \in Origin : update'[f][p] \in {update[f][p], NoUpdate}
        /\ UNCHANGED <<gone, record, lock, seen, creating, runningRow, claim, run>>
    BY <1>2, NoUpdateType, UpdateChange
       DEF FinishLost, TypeInv, Origin, fileVars, indexVars, workerVars
  <2>2. UpdatesAreReports'
    BY <2>1 DEF OwnershipInv, UpdatesAreReports, NoUpdate, Owner
  <2> QED
    BY <2>1, <2>2, KeepAllButUpdates
<1> QED
  BY <1>1, <1>2, OwnUpdateRead, OwnUpdateWrite, OwnUpdateIndex DEF UpdateStep

-----------------------------------------------------------------------------
(* The claim.                                                              *)

LEMMA OwnClaimBegin ==
    ASSUME TypeInv, OwnershipInv, NEW w \in Worker, NEW c \in ClaimCall, ClaimBegin(w, c)
    PROVE  OwnershipInv'
<1>1. UNCHANGED <<gone, record, lock, seen, update, creating, runningRow, run>> /\ claim[w][c].pc = "idle"
  BY DEF ClaimBegin, fileVars, indexVars
<1>2. PICK k \in Claim :
          /\ ClaimStep(w, c, k)
          /\ k.exec = NoExec
          /\ k.pc = "list" \/ (k.pc = "prune" /\ k.back = "list" /\ k.todo = RowsOf(w))
  BY CheckLimitChange, NoClaimType DEF ClaimBegin, TypeInv, NoClaim
<1>3. /\ claim' \in [Worker -> [ClaimCall -> Claim]]
      /\ \A x \in Worker, d \in ClaimCall :
            claim'[x][d] = IF x = w /\ d = c THEN k ELSE claim[x][d]
  BY <1>2, ClaimStepChange DEF TypeInv
<1>4. OwnersStay /\ LocksStay(<<w, c>>)
  BY <1>1 DEF OwnersStay, LocksStay, Owner
<1>5. HoldsItsLock(w, c)'
  BY <1>2, <1>3 DEF HoldsItsLock, HoldsCandidate
<1>6. PrunesOwn(w, c)'
  BY <1>1, <1>2, <1>3 DEF PrunesOwn, RowsOf, OwnershipInv, RowsAreOwn, Owner
<1>7. LockersAreCurrent'
  BY <1>1 DEF OwnershipInv, LockersAreCurrent
<1>8. RunningIsIndexed'
  BY <1>1, <1>3, KeepIndexed DEF OwnershipInv
<1> QED
  BY <1>1, <1>2, <1>4, <1>5, <1>6, <1>7, <1>8, KeepOtherClaims, KeepUpdates, KeepRows, KeepRuns
     DEF OwnershipInv

LEMMA OwnPruneRow ==
    ASSUME TypeInv, OwnershipInv, NEW w \in Worker, NEW c \in ClaimCall, NEW e \in Exec,
           PruneRow(w, c, e)
    PROVE  OwnershipInv'
<1> DEFINE k == claim[w][c]
           k1 == [k EXCEPT !.pc = "fail", !.orphan = e, !.read = record[e]]
           k2 == [k EXCEPT !.todo = @ \ {e}]
<1>1. UNCHANGED <<gone, record, lock, seen, update, creating, run>> /\ k.pc = "prune" /\ e \in k.todo
  BY DEF PruneRow, fileVars, workerVars
<1>2. Owner(e) = w /\ record[e].worker = w
  BY <1>1, OwnerIs DEF OwnershipInv, PruningIsOwn, PrunesOwn
<1>3. k \in Claim
  BY ClaimTypes
<1>4. PICK j \in Claim :
          /\ ClaimStep(w, c, j)
          /\ j.exec = k.exec /\ j.back = k.back /\ j.todo \subseteq k.todo
          /\ j.pc = "prune" \/ (j.pc = "fail" /\ j.orphan = e /\ j.read = record[e])
  <2>1. /\ k1 \in Claim /\ k1.exec = k.exec /\ k1.back = k.back /\ k1.todo = k.todo
        /\ k1.pc = "fail" /\ k1.orphan = e /\ k1.read = record[e]
    BY <1>3 DEF Claim, TypeInv, TypeOK
  <2>2. /\ k2 \in Claim /\ k2.exec = k.exec /\ k2.back = k.back /\ k2.todo \subseteq k.todo
        /\ k2.pc = "prune"
    BY <1>1, <1>3 DEF Claim
  <2>3. ClaimStep(w, c, k1) \/ ClaimStep(w, c, k2)
    BY DEF PruneRow
  <2> HIDE DEF k1, k2
  <2> QED
    BY <2>1, <2>2, <2>3
<1>5. /\ \A f \in Exec : runningRow'[f] \in {runningRow[f], NoWorker}
      /\ \A f \in Exec : f \notin gone /\ record[f].status = "RUNNING" =>
            runningRow'[f] = runningRow[f]
  BY <1>2 DEF PruneRow, Owns, File, TypeInv, TypeOK
<1>6. \A x \in Worker, d \in ClaimCall :
          claim'[x][d] = IF x = w /\ d = c THEN j ELSE claim[x][d]
  BY <1>4, ClaimStepChange DEF TypeInv
<1>7. OwnersStay /\ LocksStay(<<w, c>>)
  BY <1>1 DEF OwnersStay, LocksStay, Owner
<1>8. HoldsItsLock(w, c)'
  <2>1. /\ k.back = "write" => /\ k.exec \in Exec /\ lock[k.exec] = <<w, c>>
                               /\ record[k.exec].status = "QUEUED"
        /\ k.back # "write" => k.exec = NoExec
    BY <1>1 DEF OwnershipInv, ClaimsHoldTheirLock, HoldsItsLock, HoldsCandidate
  <2>2. claim'[w][c] = j
    BY <1>6
  <2>3. k.back = "write" => lock'[k.exec] = <<w, c>> /\ record'[k.exec].status = "QUEUED"
    BY <2>1, <1>1
  <2> QED
    BY <1>4, <2>1, <2>2, <2>3 DEF HoldsItsLock, HoldsCandidate
<1>9. PrunesOwn(w, c)'
  BY <1>1, <1>2, <1>4, <1>6 DEF PrunesOwn, OwnershipInv, PruningIsOwn, Owner
<1>10. LockersAreCurrent'
  BY <1>1 DEF OwnershipInv, LockersAreCurrent
<1>11. RunningIsIndexed'
  BY <1>1, <1>5, <1>6, KeepIndexed DEF OwnershipInv
<1> QED
  BY <1>1, <1>4, <1>5, <1>7, <1>8, <1>9, <1>10, <1>11, KeepOtherClaims, KeepUpdates, KeepRows,
     KeepRuns
     DEF OwnershipInv

LEMMA OwnPruneFail ==
    ASSUME TypeInv, OwnershipInv, NEW w \in Worker, NEW c \in ClaimCall, PruneFail(w, c)
    PROVE  OwnershipInv'
<1> DEFINE k == claim[w][c]
           e == k.orphan
           j == [k EXCEPT !.pc = "prune", !.orphan = NoExec, !.read = Absent, !.todo = @ \ {e}]
<1>1. k \in Claim /\ k.read \in Record /\ k.pc = "fail"
  <2>1. k \in Claim /\ k.pc = "fail"
    BY ClaimTypes DEF PruneFail
  <2> QED
    BY <2>1 DEF Claim
<1>2. /\ e \in Exec /\ Owner(e) = w /\ k.read.worker = w
      /\ record[e].worker = w /\ record[e].status \in Started
  BY <1>1, OwnerIs DEF OwnershipInv, PruningIsOwn, PrunesOwn
<1>3. /\ record'[e].status = "FAILED" /\ record'[e].worker = w
      /\ \A f \in Exec : f # e => record'[f] = record[f] /\ runningRow'[f] = runningRow[f]
      /\ runningRow'[e] = NoWorker
      /\ UNCHANGED <<gone, lock, seen, update, creating, run>>
  BY <1>1, <1>2 DEF PruneFail, TypeInv, TypeOK, Record, workerVars
<1>4. /\ j \in Claim /\ ClaimStep(w, c, j) /\ j.pc = "prune" /\ j.exec = k.exec
      /\ j.back = k.back /\ j.todo \subseteq k.todo
  BY <1>1, NoUpdateType DEF PruneFail, Claim
<1> HIDE DEF j
<1>5. \A x \in Worker, d \in ClaimCall :
          claim'[x][d] = IF x = w /\ d = c THEN j ELSE claim[x][d]
  BY <1>4, ClaimStepChange DEF TypeInv
<1>6. record[e].status \in Started /\ record[e].status # "QUEUED" /\ w # NoWorker
  BY <1>2, StatusFacts, QueueAssumption
<1>7. OwnersStay /\ LocksStay(<<w, c>>)
  BY <1>2, <1>3, <1>6, StatusFacts DEF OwnersStay, LocksStay, Owner
<1>8. HoldsItsLock(w, c)'
  <2>1. /\ k.back = "write" => /\ k.exec \in Exec /\ lock[k.exec] = <<w, c>>
                               /\ record[k.exec].status = "QUEUED"
        /\ k.back # "write" => k.exec = NoExec
    BY <1>1 DEF OwnershipInv, ClaimsHoldTheirLock, HoldsItsLock, HoldsCandidate
  <2>2. claim'[w][c] = j
    BY <1>5
  <2>3. k.back = "write" => lock'[k.exec] = <<w, c>> /\ record'[k.exec].status = "QUEUED"
    BY <2>1, <1>2, <1>3, <1>6
  <2> QED
    BY <1>4, <2>1, <2>2, <2>3 DEF HoldsItsLock, HoldsCandidate
<1>9. PrunesOwn(w, c)'
  BY <1>1, <1>2, <1>3, <1>4, <1>5, <1>7, ClaimTypes
     DEF PrunesOwn, OwnershipInv, PruningIsOwn, OwnersStay
<1>10. LockersAreCurrent'
  BY <1>2, <1>3, <1>6, StatusFacts DEF OwnershipInv, LockersAreCurrent
<1>11. RunningIsIndexed'
  BY <1>1, <1>3, <1>5, KeepIndexed DEF OwnershipInv
<1> QED
  BY <1>3, <1>4, <1>7, <1>8, <1>9, <1>10, <1>11, KeepOtherClaims, KeepUpdates, KeepRows,
     KeepRuns
     DEF OwnershipInv

LEMMA OwnPruneDone ==
    ASSUME TypeInv, OwnershipInv, NEW w \in Worker, NEW c \in ClaimCall, PruneDone(w, c)
    PROVE  OwnershipInv'
<1> DEFINE k == claim[w][c]
           k1 == [k EXCEPT !.pc = IF BelowLimit(w) THEN "list" ELSE "answer"]
           k2 == [k EXCEPT !.pc = "write"]
           k3 == [k EXCEPT !.pc = "lock", !.exec = NoExec, !.cands = @ \ {k.exec}]
<1>1. k \in Claim /\ k.pc = "prune" /\ UNCHANGED <<gone, record, update, creating, runningRow, run>>
  BY ClaimTypes DEF PruneDone, indexVars, workerVars
<1>2. k.back \in {"list", "write"}
  BY <1>1 DEF Claim
<1>3. /\ k.back = "write" => /\ k.exec \in Exec /\ lock[k.exec] = <<w, c>>
                             /\ record[k.exec].status = "QUEUED"
      /\ k.back # "write" => k.exec = NoExec
  BY <1>1 DEF OwnershipInv, ClaimsHoldTheirLock, HoldsItsLock, HoldsCandidate
<1>4. /\ k1 \in Claim /\ k1.exec = k.exec /\ k1.pc \in {"list", "answer"}
      /\ k2 \in Claim /\ k2.exec = k.exec /\ k2.pc = "write"
      /\ k3 \in Claim /\ k3.exec = NoExec /\ k3.pc = "lock"
  BY <1>1 DEF Claim
<1>5. PICK j \in Claim :
          /\ ClaimStep(w, c, j)
          /\ \/ /\ k.back = "list" /\ j.exec = NoExec /\ j.pc \in {"list", "answer"}
                /\ UNCHANGED <<lock, seen>>
             \/ /\ k.back = "write" /\ j.exec = k.exec /\ j.pc = "write"
                /\ UNCHANGED <<lock, seen>>
             \/ /\ k.back = "write" /\ j.exec = NoExec /\ j.pc = "lock"
                /\ lock' = [lock EXCEPT ![k.exec] = Free]
                /\ seen' = [seen EXCEPT ![k.exec] = Absent]
  <2>1. \/ k.back = "list" /\ ClaimStep(w, c, k1) /\ UNCHANGED <<lock, seen>>
        \/ k.back = "write" /\ ClaimStep(w, c, k2) /\ UNCHANGED <<lock, seen>>
        \/ /\ k.back = "write" /\ ClaimStep(w, c, k3)
           /\ lock' = [lock EXCEPT ![k.exec] = Free]
           /\ seen' = [seen EXCEPT ![k.exec] = Absent]
    BY <1>2 DEF PruneDone
  <2> HIDE DEF k1, k2, k3
  <2> QED
    BY <1>3, <1>4, <2>1
<1>6. claim'[w][c] = j
  BY <1>5, ClaimStepChange DEF TypeInv
<1>7. \A f \in Exec : \/ lock'[f] = lock[f] /\ seen'[f] = seen[f]
                      \/ lock[f] = <<w, c>> /\ lock'[f] = Free
  BY <1>3, <1>5 DEF TypeInv, TypeOK
<1>8. OwnersStay /\ LocksStay(<<w, c>>)
  BY <1>1, <1>7 DEF OwnersStay, LocksStay, Owner
<1>9. HoldsItsLock(w, c)'
  BY <1>1, <1>3, <1>5, <1>6 DEF HoldsItsLock, HoldsCandidate
<1>10. PrunesOwn(w, c)'
  BY <1>5, <1>6 DEF PrunesOwn
<1>11. LockersAreCurrent'
  BY <1>1, <1>7, LockFacts DEF OwnershipInv, LockersAreCurrent, ServerOp
<1>12. RunningIsIndexed'
  <2>1. \A x \in Worker, d \in ClaimCall : claim[x][d].pc = "index" => claim'[x][d] = claim[x][d]
    BY <1>1, <1>5, ClaimStepChange DEF TypeInv
  <2> QED
    BY <1>1, <2>1, KeepIndexed DEF OwnershipInv
<1> QED
  BY <1>1, <1>5, <1>8, <1>9, <1>10, <1>11, <1>12, KeepOtherClaims, KeepUpdates, KeepRows,
     KeepRuns
     DEF OwnershipInv

\* A step of a claim that holds no candidate, before or after.
LEMMA OwnNoCandidate ==
    ASSUME TypeInv, OwnershipInv, NEW w \in Worker, NEW c \in ClaimCall, NEW k \in Claim,
           ClaimStep(w, c, k), k.exec = NoExec, k.pc \in {"idle", "list", "lock", "answer"},
           claim[w][c].pc # "index",
           UNCHANGED <<gone, record, lock, seen, update, creating, runningRow, run>>
    PROVE  OwnershipInv'
<1>1. \A x \in Worker, d \in ClaimCall :
          claim'[x][d] = IF x = w /\ d = c THEN k ELSE claim[x][d]
  BY ClaimStepChange DEF TypeInv
<1>2. OwnersStay /\ LocksStay(<<w, c>>)
  BY DEF OwnersStay, LocksStay, Owner
<1>3. HoldsItsLock(w, c)' /\ PrunesOwn(w, c)'
  BY <1>1 DEF HoldsItsLock, HoldsCandidate, PrunesOwn
<1>4. LockersAreCurrent'
  BY DEF OwnershipInv, LockersAreCurrent
<1>5. RunningIsIndexed'
  BY <1>1, KeepIndexed DEF OwnershipInv
<1> QED
  BY <1>2, <1>3, <1>4, <1>5, KeepOtherClaims, KeepUpdates, KeepRows, KeepRuns DEF OwnershipInv

LEMMA OwnClaimList ==
    ASSUME TypeInv, OwnershipInv, NEW w \in Worker, NEW c \in ClaimCall,
           ClaimList(w, c) \/ ClaimNone(w, c)
    PROVE  OwnershipInv'
<1> DEFINE k == claim[w][c]
           k1 == [k EXCEPT !.pc = "lock", !.cands = Candidates(w)]
           k2 == [k EXCEPT !.pc = "answer"]
<1>1. k \in Claim /\ k.pc \in {"list", "lock"}
  BY ClaimTypes DEF ClaimList, ClaimNone
<1>2. k.exec = NoExec
  BY <1>1 DEF OwnershipInv, ClaimsHoldTheirLock, HoldsItsLock, HoldsCandidate
<1>3. Candidates(w) \subseteq Exec
  BY DEF Candidates, Listed, Readable
<1>4. /\ k1 \in Claim /\ k1.exec = NoExec /\ k1.pc = "lock"
      /\ k2 \in Claim /\ k2.exec = NoExec /\ k2.pc = "answer"
  BY <1>1, <1>2, <1>3 DEF Claim
<1>5. /\ ClaimStep(w, c, k1) \/ ClaimStep(w, c, k2)
      /\ UNCHANGED <<gone, record, lock, seen, update, creating, runningRow, run>>
  BY DEF ClaimList, ClaimNone, fileVars, indexVars, workerVars
<1> HIDE DEF k1, k2
<1> QED
  BY <1>1, <1>4, <1>5, OwnNoCandidate

LEMMA OwnClaimLock ==
    ASSUME TypeInv, OwnershipInv, NEW w \in Worker, NEW c \in ClaimCall, NEW e \in Exec,
           ClaimLock(w, c, e)
    PROVE  OwnershipInv'
<1> DEFINE k == claim[w][c]
           k1 == [k EXCEPT !.exec = e]
           k2 == [k EXCEPT !.cands = @ \ {e}]
<1>1. k \in Claim /\ k.pc = "lock" /\ UNCHANGED <<gone, record, update, creating, runningRow, run>>
  BY ClaimTypes DEF ClaimLock, indexVars, workerVars
<1>2. k.exec = NoExec
  BY <1>1 DEF OwnershipInv, ClaimsHoldTheirLock, HoldsItsLock, HoldsCandidate
<1>3. k1 \in Claim /\ k1.exec = e /\ k2 \in Claim /\ k2.exec = NoExec /\ k2.pc = "lock"
  BY <1>1, <1>2 DEF Claim
<1>4. CASE ~StillQueued(e)
  <2>1. ClaimStep(w, c, k2) /\ UNCHANGED <<lock, seen>>
    BY <1>4 DEF ClaimLock
  <2> HIDE DEF k2
  <2> QED
    BY <1>1, <1>3, <2>1, OwnNoCandidate
<1>5. CASE StillQueued(e)
  <2>1. /\ CheckLimit(w, c, k1, "write")
        /\ lock'[e] = <<w, c>> /\ seen'[e] = record[e]
        /\ \A f \in Exec : f # e => lock'[f] = lock[f] /\ seen'[f] = seen[f]
    BY <1>5 DEF ClaimLock, TypeInv, TypeOK
  <2> HIDE DEF k1
  <2>0. lock[e] = Free /\ record[e].status = "QUEUED"
    BY <1>5 DEF ClaimLock, StillQueued, IsQueued, File, Absent
  <2>2. PICK j \in Claim :
            /\ ClaimStep(w, c, j) /\ j.exec = e
            /\ j.pc = "write" \/ (j.pc = "prune" /\ j.back = "write" /\ j.todo = RowsOf(w))
    BY <1>3, <2>1, CheckLimitChange DEF TypeInv
  <2>3. \A x \in Worker, d \in ClaimCall :
            claim'[x][d] = IF x = w /\ d = c THEN j ELSE claim[x][d]
    BY <2>2, ClaimStepChange DEF TypeInv
  <2>4. OwnersStay /\ LocksStay(<<w, c>>)
    BY <1>1, <2>0, <2>1, LockFacts DEF OwnersStay, LocksStay, Owner
  <2>5. HoldsItsLock(w, c)'
    BY <1>1, <2>0, <2>1, <2>2, <2>3 DEF HoldsItsLock, HoldsCandidate
  <2>6. PrunesOwn(w, c)'
    BY <1>1, <2>2, <2>3 DEF PrunesOwn, RowsOf, OwnershipInv, RowsAreOwn, Owner
  <2>7. LockersAreCurrent'
    BY <1>1, <2>1, LockFacts DEF OwnershipInv, LockersAreCurrent, ServerOp
  <2>8. RunningIsIndexed'
    BY <1>1, <2>3, KeepIndexed DEF OwnershipInv
  <2> QED
    BY <1>1, <2>2, <2>4, <2>5, <2>6, <2>7, <2>8, KeepOtherClaims, KeepUpdates, KeepRows,
       KeepRuns
       DEF OwnershipInv
<1> QED
  BY <1>4, <1>5

LEMMA OwnClaimWrite ==
    ASSUME TypeInv, OwnershipInv, NEW w \in Worker, NEW c \in ClaimCall, ClaimWrite(w, c)
    PROVE  OwnershipInv'
<1> DEFINE k == claim[w][c]
           e == k.exec
           j == [k EXCEPT !.pc = "index"]
<1>1. k \in Claim /\ k.pc = "write"
  BY ClaimTypes DEF ClaimWrite
<1>2. e \in Exec /\ lock[e] = <<w, c>> /\ record[e].status = "QUEUED"
  BY <1>1 DEF OwnershipInv, ClaimsHoldTheirLock, HoldsItsLock, HoldsCandidate
<1>3. Owner(e) = NoWorker /\ seen[e] \in Record
  BY <1>2, StatusFacts DEF Owner, TypeInv, TypeOK
<1>4. /\ record'[e].status = "RUNNING" /\ record'[e].worker = w
      /\ \A f \in Exec : f # e => record'[f] = record[f]
      /\ UNCHANGED <<gone, lock, seen, update, creating, runningRow, run>>
  BY <1>2, <1>3, WithWorker DEF ClaimWrite, TypeInv, TypeOK, indexVars, workerVars
<1>5. j \in Claim /\ ClaimStep(w, c, j) /\ j.pc = "index" /\ j.exec = e
  BY <1>1 DEF ClaimWrite, Claim
<1> HIDE DEF j
<1>6. \A x \in Worker, d \in ClaimCall :
          claim'[x][d] = IF x = w /\ d = c THEN j ELSE claim[x][d]
  BY <1>5, ClaimStepChange DEF TypeInv
<1>7. OwnersStay /\ LocksStay(<<w, c>>)
  BY <1>2, <1>3, <1>4, QueueAssumption DEF OwnersStay, LocksStay, Owner
<1>8. HoldsItsLock(w, c)'
  BY <1>2, <1>4, <1>5, <1>6, StatusFacts DEF HoldsItsLock, HoldsCandidate, Owner
<1>9. PrunesOwn(w, c)'
  BY <1>5, <1>6 DEF PrunesOwn
<1>10. LockersAreCurrent'
  <2>1. \A op \in ServerOp : lock[e] # Locker(op)
    BY <1>2, LockFacts
  <2> QED
    BY <1>4, <2>1 DEF OwnershipInv, LockersAreCurrent, ServerOp
<1>11. RunningIsIndexed'
  BY <1>1, <1>4, <1>5, <1>6 DEF OwnershipInv, RunningIsIndexed, IsRunningOf, File
<1> QED
  BY <1>4, <1>5, <1>7, <1>8, <1>9, <1>10, <1>11, KeepOtherClaims, KeepUpdates, KeepRows,
     KeepRuns
     DEF OwnershipInv

LEMMA OwnMarkRunning ==
    ASSUME TypeInv, OwnershipInv, NEW w \in Worker, NEW c \in ClaimCall,
           mark_running_execution(w, c)
    PROVE  OwnershipInv'
<1> DEFINE k == claim[w][c]
           e == k.exec
           j == [k EXCEPT !.pc = "answer"]
<1>1. k \in Claim /\ k.pc = "index"
  BY ClaimTypes DEF mark_running_execution
<1>2. e \in Exec /\ lock[e] = <<w, c>> /\ Owner(e) = w
  BY <1>1 DEF OwnershipInv, ClaimsHoldTheirLock, HoldsItsLock
<1>3. /\ runningRow'[e] = w /\ lock'[e] = Free
      /\ \A f \in Exec : f # e =>
            runningRow'[f] = runningRow[f] /\ lock'[f] = lock[f] /\ seen'[f] = seen[f]
      /\ UNCHANGED <<gone, record, update, creating, run>>
  BY <1>2 DEF mark_running_execution, TypeInv, TypeOK, workerVars
<1>4. j \in Claim /\ ClaimStep(w, c, j) /\ j.pc = "answer" /\ j.exec = e
  BY <1>1 DEF mark_running_execution, Claim
<1> HIDE DEF j
<1>5. \A x \in Worker, d \in ClaimCall :
          claim'[x][d] = IF x = w /\ d = c THEN j ELSE claim[x][d]
  BY <1>4, ClaimStepChange DEF TypeInv
<1>6. OwnersStay /\ LocksStay(<<w, c>>)
  BY <1>2, <1>3 DEF OwnersStay, LocksStay, Owner
<1>7. HoldsItsLock(w, c)'
  BY <1>2, <1>3, <1>4, <1>5 DEF HoldsItsLock, HoldsCandidate, Owner
<1>8. PrunesOwn(w, c)'
  BY <1>4, <1>5 DEF PrunesOwn
<1>9. LockersAreCurrent'
  BY <1>3, LockFacts DEF OwnershipInv, LockersAreCurrent, ServerOp
<1>10. RowsAreOwn'
  BY <1>2, <1>3 DEF OwnershipInv, RowsAreOwn, Owner
<1>11. RunningIsIndexed'
  BY <1>1, <1>2, <1>3, <1>5, OwnerIs DEF OwnershipInv, RunningIsIndexed, IsRunningOf, File, Absent
<1> QED
  BY <1>3, <1>4, <1>6, <1>7, <1>8, <1>9, <1>10, <1>11, KeepOtherClaims, KeepUpdates,
     KeepRuns
     DEF OwnershipInv

LEMMA OwnClaimAnswer ==
    ASSUME TypeInv, OwnershipInv, NEW w \in Worker, NEW c \in ClaimCall, ClaimAnswer(w, c)
    PROVE  OwnershipInv'
<1> DEFINE e == claim[w][c].exec
<1>1. /\ claim[w][c].pc = "answer" /\ e \in Exec \cup {NoExec} /\ ClaimStep(w, c, NoClaim)
      /\ UNCHANGED <<gone, record, lock, seen, update, creating, runningRow>>
  BY ClaimTypes DEF ClaimAnswer, fileVars, indexVars
<1>2. e = NoExec \/ Owner(e) = w
  BY <1>1 DEF OwnershipInv, ClaimsHoldTheirLock, HoldsItsLock
<1>3. \A x \in Worker, d \in ClaimCall :
          claim'[x][d] = IF x = w /\ d = c THEN NoClaim ELSE claim[x][d]
  BY <1>1, NoClaimType, ClaimStepChange DEF TypeInv
<1>4. OwnersStay /\ LocksStay(<<w, c>>)
  BY <1>1 DEF OwnersStay, LocksStay, Owner
<1>5. HoldsItsLock(w, c)' /\ PrunesOwn(w, c)'
  BY <1>3 DEF HoldsItsLock, HoldsCandidate, PrunesOwn, NoClaim
<1>6. RunsOwnExecution'
  <2>1. UNCHANGED run \/ (e # NoExec /\ run' = [run EXCEPT ![w][e] = "running"])
    BY DEF ClaimAnswer, workerVars
  <2>2. \A x \in Worker, f \in Exec :
            run'[x][f] # "none" => run[x][f] # "none" \/ (x = w /\ f = e /\ e # NoExec)
    BY <1>1, <2>1, RunChange DEF TypeInv
  <2> QED
    BY <1>1, <1>2, <2>2 DEF OwnershipInv, RunsOwnExecution, Owner
<1>7. LockersAreCurrent'
  BY <1>1 DEF OwnershipInv, LockersAreCurrent
<1>8. RunningIsIndexed'
  BY <1>1, <1>3, KeepIndexed DEF OwnershipInv
<1> QED
  BY <1>1, <1>4, <1>5, <1>6, <1>7, <1>8, NoClaimType, KeepOtherClaims, KeepUpdates, KeepRows
     DEF OwnershipInv

-----------------------------------------------------------------------------
(* Workers and crashes.                                                    *)

LEMMA OwnWorker ==
    ASSUME TypeInv, OwnershipInv, NEW w \in Worker,
           \/ ClaimTimeout(w) \/ WorkerCrash(w)
           \/ \E e \in Exec : ObserveCanceling(w, e) \/ ReleaseSlot(w, e)
    PROVE  OwnershipInv'
<1>1. UNCHANGED <<gone, record, lock, seen, update, creating, runningRow, claim>>
  BY DEF ClaimTimeout, WorkerCrash, ObserveCanceling, ReleaseSlot, fileVars, indexVars
<1>2. \A x \in Worker, f \in Exec : run'[x][f] # "none" => run[x][f] # "none"
  <2>1. ASSUME NEW e \in Exec, ObserveCanceling(w, e) \/ ReleaseSlot(w, e)
        PROVE  \A x \in Worker, f \in Exec : run'[x][f] # "none" => run[x][f] # "none"
    BY <2>1, RunChange DEF ObserveCanceling, ReleaseSlot, TypeInv
  <2>2. CASE WorkerCrash(w)
    BY <2>2 DEF WorkerCrash, TypeInv, TypeOK
  <2> QED
    BY <2>1, <2>2 DEF ClaimTimeout
<1>3. OwnersStay /\ LocksStay(Free)
  BY <1>1 DEF OwnersStay, LocksStay, Owner
<1>4. LockersAreCurrent'
  BY <1>1 DEF OwnershipInv, LockersAreCurrent
<1> QED
  BY <1>1, <1>2, <1>3, <1>4, KeepClaims, KeepUpdates, KeepRows, KeepRuns, KeepIndexed
     DEF OwnershipInv

LEMMA OwnRestart ==
    ASSUME TypeInv, OwnershipInv, ServerRestart
    PROVE  OwnershipInv'
<1>1. /\ UNCHANGED <<gone, record, run>>
      /\ \A e \in Exec : /\ lock'[e] = Free /\ runningRow'[e] = RunningRowAtStartup(e)
                        /\ creating'[e] = Absent
      /\ \A e \in Exec, o \in Origin : update'[e][o] = NoUpdate
      /\ \A w \in Worker, c \in ClaimCall : claim'[w][c] = NoClaim
  BY DEF ServerRestart, backfill_if_empty
<1>2. RunsOwnExecution'
  BY <1>1 DEF OwnershipInv, RunsOwnExecution, Owner
<1>3. LockersAreCurrent'
  BY <1>1, LockFacts DEF LockersAreCurrent, ServerOp
<1>4. ClaimsHoldTheirLock' /\ PruningIsOwn'
  BY <1>1 DEF ClaimsHoldTheirLock, HoldsItsLock, HoldsCandidate, PruningIsOwn, PrunesOwn, NoClaim
<1>5. UpdatesAreReports'
  BY <1>1 DEF UpdatesAreReports, NoUpdate
<1>6. RowsAreOwn' /\ RunningIsIndexed'
  BY <1>1, QueueAssumption
     DEF OwnershipInv, RowsAreOwn, RunningIsIndexed, RunningRowAtStartup, IsRunning, IsRunningOf,
         File, Absent, Owner, Started
<1> QED
  BY <1>2, <1>3, <1>4, <1>5, <1>6 DEF OwnershipInv

LEMMA OwnNext == Patched = {} /\ TypeInv /\ OwnershipInv /\ [Next]_vars => OwnershipInv'
<1> SUFFICES ASSUME Patched = {}, TypeInv, OwnershipInv, [Next]_vars
             PROVE  OwnershipInv'
  OBVIOUS
<1>1. CASE UNCHANGED vars
  BY <1>1, KeepAll DEF vars
<1>2. CASE ScanIntervalElapses
  BY <1>2, KeepAll DEF ScanIntervalElapses, fileVars, indexVars, workerVars
<1> QED
  BY <1>1, <1>2, OwnRecords, OwnUpdates, OwnFinish, OwnClaimBegin, OwnPruneRow, OwnPruneFail,
     OwnPruneDone, OwnClaimList, OwnClaimLock, OwnClaimWrite, OwnMarkRunning, OwnClaimAnswer,
     OwnWorker, OwnRestart
     DEF Next, ServerStep

\* The ownership invariant: from its start a record names its worker, and
\* all that server threads and workers hold about a started record agrees with it.
THEOREM Ownership == Patched = {} => (Spec => []OwnershipInv)
<1> SUFFICES ASSUME Patched = {}
             PROVE  Spec => []OwnershipInv
  OBVIOUS
<1>1. Init => TypeInv /\ OwnershipInv
  BY TypeInit, OwnInit
<1>2. TypeInv /\ OwnershipInv /\ [Next]_vars => (TypeInv /\ OwnershipInv)'
  BY TypeNext, OwnNext
<1> QED
  BY <1>1, <1>2, PTL DEF Spec

\* A worker process only works on executions whose record names it.
THEOREM RunsOwnExecutionHolds == Patched = {} => (Spec => []RunsOwnExecution)
<1>1. OwnershipInv => RunsOwnExecution
  BY DEF OwnershipInv
<1> QED
  BY <1>1, Ownership, PTL

\* Every RUNNING record has a row its worker's limit counts, or will get it.
THEOREM RunningIsIndexedHolds == Patched = {} => (Spec => []RunningIsIndexed)
<1>1. OwnershipInv => RunningIsIndexed
  BY DEF OwnershipInv
<1> QED
  BY <1>1, Ownership, PTL

-----------------------------------------------------------------------------
(* What a step does to a record, from which the action properties follow.  *)

\* The ways a record changes.
RecordMove(e) ==
    \/ record'[e] = record[e]
    \/ record[e].status = "ABSENT" /\ record'[e].status \in {"QUEUED", "RUNNING"}
    \/ record[e].status = "QUEUED" /\ record'[e].status \in {"RUNNING", "CANCELED"}
    \/ /\ record[e].status \in Started
       /\ record[e].worker = NoWorker => record[e].status \in {"RUNNING", "CANCELING"}
       /\ record'[e].worker = record[e].worker
       /\ record'[e].status \in Started \ {"RUNNING"}

OneRecordMoves ==
    \/ record' = record
    \/ \E e \in Exec : RecordMove(e) /\ record' = [record EXCEPT ![e] = record'[e]]

LEMMA MoveOf ==
    ASSUME TypeInv, NEW e \in Exec, NEW r, record' = [record EXCEPT ![e] = r]
    PROVE  record'[e] = r /\ record' = [record EXCEPT ![e] = record'[e]]
  BY DEF TypeInv, TypeOK

LEMMA UnlockMoves ==
    ASSUME TypeInv, OwnershipInv, NEW e \in Exec, NEW op \in ServerOp, NEW s \in Status,
           WriteAndUnlock(e, op, s),
           IF op = "cancel" THEN s = "CANCELED" ELSE s \in Started \ {"RUNNING"}
    PROVE  OneRecordMoves
<1>1. lock[e] = Locker(op) /\ record' = [record EXCEPT ![e] = [seen[e] EXCEPT !.status = s]]
  BY DEF WriteAndUnlock
<1>2. record'[e].status = s /\ record'[e].worker = seen[e].worker
  BY <1>1 DEF TypeInv, TypeOK, Record
<1>3. CASE op = "cancel"
  <2>1. record[e].status = "QUEUED"
    BY <1>1, <1>3 DEF OwnershipInv, LockersAreCurrent
  <2> QED
    BY <1>1, <1>2, <1>3, <2>1, MoveOf DEF OneRecordMoves, RecordMove
<1>4. CASE op # "cancel"
  <2>1. /\ record[e].status \in Started /\ seen[e].worker = record[e].worker
        /\ record[e].worker = NoWorker => record[e].status \in {"RUNNING", "CANCELING"}
    BY <1>1, <1>4 DEF OwnershipInv, LockersAreCurrent, ServerOp
  <2> QED
    BY <1>1, <1>2, <1>4, <2>1, MoveOf DEF OneRecordMoves, RecordMove
<1> QED
  BY <1>3, <1>4

LEMMA UpdateWriteMoves ==
    ASSUME TypeInv, OwnershipInv, NEW e \in Exec, NEW o \in Origin, UpdateWrite(e, o)
    PROVE  OneRecordMoves
<1> DEFINE u == update[e][o]
<1>1. u \in Update /\ u.pc = "write"
  BY DEF TypeInv, TypeOK, UpdateWrite
<1>2. u.seen \in Record
  BY <1>1 DEF Update
<1>3. /\ u.by \in Worker /\ Owner(e) = u.by /\ u.seen.worker = u.by
      /\ u.status \in FINAL_STATUSES
  BY <1>1 DEF OwnershipInv, UpdatesAreReports
<1>4. record[e].worker = u.by /\ record[e].worker # NoWorker /\ record[e].status \in Started
  BY <1>3, OwnerIs, QueueAssumption
<1>5. record' = [record EXCEPT ![e] = [u.seen EXCEPT !.status = u.status]]
  BY DEF UpdateWrite
<1>6. record'[e].status = u.status /\ record'[e].worker = u.seen.worker
  BY <1>2, <1>5 DEF TypeInv, TypeOK, Record
<1> QED
  <2>1. RecordMove(e)
    BY <1>3, <1>4, <1>6, StatusFacts DEF RecordMove
  <2> QED
    BY <1>5, <2>1, MoveOf DEF OneRecordMoves

LEMMA ClaimMoves ==
    ASSUME TypeInv, OwnershipInv, NEW w \in Worker, NEW c \in ClaimCall,
           ClaimWrite(w, c) \/ PruneFail(w, c)
    PROVE  OneRecordMoves
<1> DEFINE k == claim[w][c]
<1>0. k \in Claim
  BY ClaimTypes
<1>1. CASE ClaimWrite(w, c)
  <2> DEFINE r == [seen[k.exec] EXCEPT !.status = "RUNNING", !.worker = w]
  <2>1. k.pc = "write" /\ record' = [record EXCEPT ![k.exec] = r]
    BY <1>1 DEF ClaimWrite
  <2>2. k.exec \in Exec /\ record[k.exec].status = "QUEUED"
    BY <2>1 DEF OwnershipInv, ClaimsHoldTheirLock, HoldsItsLock, HoldsCandidate
  <2>3. r.status = "RUNNING"
    BY <2>2, WithWorker DEF TypeInv, TypeOK
  <2> HIDE DEF r
  <2> QED
    BY <2>1, <2>2, <2>3, MoveOf DEF OneRecordMoves, RecordMove
<1>2. CASE PruneFail(w, c)
  <2>1. k.pc = "fail" /\ record' = [record EXCEPT ![k.orphan] = [k.read EXCEPT !.status = "FAILED"]]
    BY <1>2 DEF PruneFail
  <2>2. k.orphan \in Exec /\ Owner(k.orphan) = w /\ k.read.worker = w
    BY <2>1 DEF OwnershipInv, PruningIsOwn, PrunesOwn
  <2>3. k.read \in Record
    BY <1>0 DEF Claim
  <2>4. record'[k.orphan].status = "FAILED" /\ record'[k.orphan].worker = w
    BY <2>1, <2>2, <2>3 DEF Record, TypeInv, TypeOK
  <2>5. record[k.orphan].worker = w /\ w # NoWorker /\ record[k.orphan].status \in Started
    BY <2>2, OwnerIs, QueueAssumption
  <2> QED
    <3>1. RecordMove(k.orphan)
      BY <2>2, <2>4, <2>5, StatusFacts DEF RecordMove
    <3> QED
      BY <2>1, <2>2, <3>1, MoveOf DEF OneRecordMoves
<1> QED
  BY <1>1, <1>2

LEMMA CreateMoves ==
    ASSUME TypeInv, NEW e \in Exec, create_execution_record(e)
    PROVE  OneRecordMoves
<1>1. PICK r \in Posted : record[e].status = "ABSENT" /\ record' = [record EXCEPT ![e] = r]
  BY QueueAssumption DEF create_execution_record
<1> QED
  BY <1>1, MoveOf DEF OneRecordMoves, RecordMove, Posted

LEMMA NextMoves ==
    ASSUME Patched = {}, TypeInv, OwnershipInv, [Next]_vars
    PROVE  OneRecordMoves
<1>1. ASSUME NEW e \in Exec,
             \/ api_cancel_execution(e) \/ api_stop_execution(e)
             \/ server_recover_stuck_executions(e)
      PROVE  OneRecordMoves
  <2>1. ASSUME NEW op, NEW s, LockAndRead(e, op, s)
        PROVE  OneRecordMoves
    BY <2>1 DEF LockAndRead, OneRecordMoves
  <2> QED
    BY <1>1, <2>1, UnlockMoves, StatusFacts
       DEF api_cancel_execution, api_stop_execution, server_recover_stuck_executions,
           ServerOp, Status
<1>2. ASSUME NEW e \in Exec,
             \/ add_created_row(e) \/ delete_execution(e) \/ FinishLost(e)
             \/ \E o \in Origin : UpdateRead(e, o) \/ UpdateIndex(e, o)
             \/ \E s \in Status \cup {"unset"} : api_update_execution(e, s)
      PROVE  OneRecordMoves
  BY <1>2 DEF add_created_row, delete_execution, FinishLost, UpdateRead, UpdateIndex, api_update_execution,
              fileVars, OneRecordMoves
<1>3. ASSUME NEW w \in Worker, NEW c \in ClaimCall,
             \/ ClaimBegin(w, c) \/ PruneDone(w, c) \/ ClaimList(w, c) \/ ClaimNone(w, c)
             \/ mark_running_execution(w, c) \/ ClaimAnswer(w, c)
             \/ \E e \in Exec : PruneRow(w, c, e) \/ ClaimLock(w, c, e)
      PROVE  OneRecordMoves
  BY <1>3 DEF ClaimBegin, PruneDone, ClaimList, ClaimNone, mark_running_execution, ClaimAnswer,
              PruneRow, ClaimLock, fileVars, OneRecordMoves
<1>4. ASSUME NEW w \in Worker,
             \/ ClaimTimeout(w) \/ WorkerCrash(w)
             \/ \E e \in Exec :
                   \/ ObserveCanceling(w, e) \/ ReleaseSlot(w, e)
                   \/ \E s \in FINAL_STATUSES : FinishExecution(w, e, s)
      PROVE  OneRecordMoves
  BY <1>4 DEF ClaimTimeout, WorkerCrash, ObserveCanceling, ReleaseSlot, FinishExecution,
              fileVars, OneRecordMoves
<1>5. CASE ScanIntervalElapses \/ ServerRestart \/ UNCHANGED vars
  BY <1>5 DEF ScanIntervalElapses, ServerRestart, vars, fileVars, OneRecordMoves
<1> QED
  BY <1>1, <1>2, <1>3, <1>4, <1>5, CreateMoves, UpdateWriteMoves, ClaimMoves
     DEF Next, ServerStep, UpdateStep

\* Every record makes one of the moves of RecordMove in every step of the queue.
LEMMA EveryRecord ==
    ASSUME TypeInv, OneRecordMoves
    PROVE  \A e \in Exec : RecordMove(e)
  BY DEF OneRecordMoves, RecordMove, TypeInv, TypeOK

\* From its claim, or its creation as RUNNING, a record keeps its worker, and
\* it is never started again.
THEOREM StartedOnceHolds == Patched = {} => (Spec => StartedOnce)
<1> SUFFICES ASSUME Patched = {}
             PROVE  Spec => StartedOnce
  OBVIOUS
<1> DEFINE Step == \A e \in Exec : record[e].status \in Started =>
                       /\ record'[e].worker = record[e].worker
                       /\ record'[e].status = "RUNNING" => record[e].status = "RUNNING"
                       /\ record'[e].status \in Started
<1>1. TypeInv /\ OwnershipInv /\ [Next]_vars => [Step]_vars
  <2> SUFFICES ASSUME TypeInv, OwnershipInv, [Next]_vars, NEW e \in Exec, RecordMove(e),
                      record[e].status \in Started
               PROVE  /\ record'[e].worker = record[e].worker
                      /\ record'[e].status = "RUNNING" => record[e].status = "RUNNING"
                      /\ record'[e].status \in Started
    BY NextMoves, EveryRecord
  <2> QED
    BY StatusFacts DEF RecordMove
<1>2. Spec => []TypeInv
  BY TypeInit, TypeNext, PTL DEF Spec
<1>3. Spec => []OwnershipInv
  BY Ownership
<1> QED
  BY <1>1, <1>2, <1>3, PTL DEF Spec, StartedOnce

\* A canceled record that names no worker never changes again.
THEOREM CanceledInQueueHolds == Patched = {} => (Spec => CanceledInQueueIsFinal)
<1> SUFFICES ASSUME Patched = {}
             PROVE  Spec => CanceledInQueueIsFinal
  OBVIOUS
<1> DEFINE Step == \A e \in Exec :
                       record[e].status = "CANCELED" /\ record[e].worker = NoWorker =>
                           record'[e] = record[e]
<1>1. TypeInv /\ OwnershipInv /\ [Next]_vars => [Step]_vars
  <2> SUFFICES ASSUME TypeInv, OwnershipInv, [Next]_vars, NEW e \in Exec, RecordMove(e),
                      record[e].status = "CANCELED", record[e].worker = NoWorker
               PROVE  record'[e] = record[e]
    BY NextMoves, EveryRecord
  <2> QED
    BY DEF RecordMove
<1>2. Spec => []TypeInv
  BY TypeInit, TypeNext, PTL DEF Spec
<1>3. Spec => []OwnershipInv
  BY Ownership
<1> QED
  BY <1>1, <1>2, <1>3, PTL DEF Spec, CanceledInQueueIsFinal

-----------------------------------------------------------------------------
(* Only an update brings a deleted record back.                            *)

LEMMA GoneStays ==
    ASSUME [Next]_vars, ~ \E e \in Exec, o \in Origin : UpdateWrite(e, o)
    PROVE  gone \subseteq gone'
<1>1. ASSUME NEW e \in Exec,
             \/ create_execution_record(e) \/ add_created_row(e) \/ delete_execution(e)
             \/ api_cancel_execution(e) \/ api_stop_execution(e)
             \/ server_recover_stuck_executions(e)
             \/ \E o \in Origin : UpdateRead(e, o) \/ UpdateIndex(e, o)
             \/ \E s \in Status \cup {"unset"} : api_update_execution(e, s)
             \/ FinishLost(e)
      PROVE  gone \subseteq gone'
  BY <1>1 DEF create_execution_record, add_created_row, delete_execution,
       api_cancel_execution, api_stop_execution, server_recover_stuck_executions, LockAndRead,
       WriteAndUnlock, UpdateRead, UpdateIndex, api_update_execution, FinishLost, fileVars
<1>2. ASSUME NEW w \in Worker, NEW c \in ClaimCall, ClaimBegin(w, c) \/ ServerStep(w, c)
      PROVE  gone \subseteq gone'
  BY <1>2 DEF ClaimBegin, ServerStep, PruneRow, PruneFail, PruneDone, ClaimList, ClaimLock,
       ClaimNone, ClaimWrite, mark_running_execution, ClaimAnswer, fileVars
<1>3. ASSUME NEW w \in Worker,
             \/ ClaimTimeout(w) \/ WorkerCrash(w)
             \/ \E e \in Exec :
                   \/ ObserveCanceling(w, e) \/ ReleaseSlot(w, e)
                   \/ \E s \in FINAL_STATUSES : FinishExecution(w, e, s)
      PROVE  gone \subseteq gone'
  BY <1>3 DEF ClaimTimeout, WorkerCrash, ObserveCanceling, ReleaseSlot, FinishExecution, fileVars
<1>4. CASE ScanIntervalElapses \/ ServerRestart \/ UNCHANGED vars
  BY <1>4 DEF ScanIntervalElapses, ServerRestart, vars, fileVars
<1> QED
  BY <1>1, <1>2, <1>3, <1>4 DEF Next, UpdateStep

-----------------------------------------------------------------------------
(* The records implement the life cycle with the moves KeptMoves.          *)

LEMMA MoveRefines ==
    ASSUME TypeInv, NEW e \in Exec, RecordMove(e), record' = [record EXCEPT ![e] = record'[e]]
    PROVE  [Kept!Next]_([x \in Exec |-> record[x].status])
<1> DEFINE st == [x \in Exec |-> record[x].status]
<1>1. st' = [st EXCEPT ![e] = record'[e].status]
  BY DEF TypeInv, TypeOK
<1>2. CASE record'[e] = record[e]
  BY <1>1, <1>2
<1>3. CASE record[e].status = "ABSENT" /\ record'[e].status \in {"QUEUED", "RUNNING"}
  BY <1>1, <1>3 DEF Kept!Next, Kept!Create
<1>4. CASE <<record[e].status, record'[e].status>> \in KeptMoves
  <2>1. Kept!Move(e)
    BY <1>1, <1>4 DEF Kept!Move
  <2> QED
    BY <2>1 DEF Kept!Next
<1>5. \/ record'[e] = record[e]
      \/ record[e].status = "ABSENT" /\ record'[e].status \in {"QUEUED", "RUNNING"}
      \/ <<record[e].status, record'[e].status>> \in KeptMoves
  BY DEF RecordMove, KeptMoves
<1> QED
  BY <1>2, <1>3, <1>4, <1>5

\* Every step of the queue is a step of the life cycle or leaves it alone.
THEOREM LifecycleRefined == Patched = {} => (Spec => KeptLifecycle)
<1> SUFFICES ASSUME Patched = {}
             PROVE  Spec => KeptLifecycle
  OBVIOUS
<1>1. Init => Kept!Init
  BY DEF Init, Kept!Init, Absent
<1>2. TypeInv /\ OwnershipInv /\ [Next]_vars => [Kept!Next]_([e \in Exec |-> record[e].status])
  <2> SUFFICES ASSUME TypeInv, OwnershipInv, [Next]_vars
               PROVE  [Kept!Next]_([e \in Exec |-> record[e].status])
    OBVIOUS
  <2>1. CASE record' = record
    BY <2>1
  <2> QED
    BY <2>1, NextMoves, MoveRefines DEF OneRecordMoves
<1>3. Spec => []TypeInv
  BY TypeInit, TypeNext, PTL DEF Spec
<1>4. Spec => []OwnershipInv
  BY Ownership
<1> QED
  BY <1>1, <1>2, <1>3, <1>4, PTL DEF Spec, KeptLifecycle, Kept!Spec

-----------------------------------------------------------------------------
(* A final status stays, PATCH or not.                                     *)

\* What is settled stays so in a step that leaves e and its lock alone, and gives
\* neither an update nor a claim anything to write to it.
LEMMA SettledStays ==
    ASSUME NEW e \in Exec, Settled(e),
           record'[e].status = record[e].status, lock'[e] = lock[e],
           \A o \in Origin : update'[e][o].pc = "write" =>
               update'[e][o] = update[e][o] \/ update'[e][o].status = record[e].status,
           \A w \in Worker, c \in ClaimCall :
               /\ claim'[w][c].orphan # e
               /\ claim'[w][c].exec = e => claim'[w][c].pc = "answer"
    PROVE  Settled(e)' /\ record'[e].status = record[e].status
  BY DEF Settled

LEMMA SettledRecords ==
    ASSUME TypeInv, NEW e \in Exec, Settled(e), NEW f \in Exec,
           \/ create_execution_record(f) \/ add_created_row(f) \/ delete_execution(f)
           \/ api_cancel_execution(f) \/ api_stop_execution(f)
           \/ server_recover_stuck_executions(f)
    PROVE  Settled(e)' /\ record'[e].status = record[e].status
<1>0. record[e].status \in {"CANCELED", "SUCCESS", "FAILED"} /\ lock[e] = Free
  BY StatusFacts DEF Settled
<1>1. record'[e] = record[e] /\ lock'[e] = lock[e] /\ UNCHANGED <<update, claim>>
  <2>1. CASE create_execution_record(f)
    BY <1>0, <2>1 DEF create_execution_record, TypeInv, TypeOK
  <2>2. CASE add_created_row(f) \/ delete_execution(f)
    BY <2>2 DEF add_created_row, delete_execution, fileVars
  <2>3. ASSUME NEW op \in ServerOp, NEW s \in {"QUEUED", "RUNNING", "CANCELING"}, LockAndRead(f, op, s)
        PROVE  record'[e] = record[e] /\ lock'[e] = lock[e] /\ UNCHANGED <<update, claim>>
    BY <1>0, <2>3 DEF LockAndRead, File, Absent, TypeInv, TypeOK
  <2>4. ASSUME NEW op \in ServerOp, NEW s, WriteAndUnlock(f, op, s)
        PROVE  record'[e] = record[e] /\ lock'[e] = lock[e] /\ UNCHANGED <<update, claim>>
    BY <1>0, <2>4, LockFacts DEF WriteAndUnlock, TypeInv, TypeOK
  <2> QED
    BY <2>1, <2>2, <2>3, <2>4
       DEF api_cancel_execution, api_stop_execution, server_recover_stuck_executions, ServerOp
<1> QED
  BY <1>1, SettledStays DEF Settled

LEMMA SettledUpdates ==
    ASSUME TypeInv, NEW e \in Exec, Settled(e), NEW f \in Exec,
           \/ \E o \in Origin : UpdateStep(f, o)
           \/ \E s \in Status \cup {"unset"} : api_update_execution(f, s)
           \/ FinishLost(f)
    PROVE  Settled(e)' /\ record'[e].status = record[e].status
<1>0. record[e].status \in {"CANCELED", "SUCCESS", "FAILED"}
  BY StatusFacts DEF Settled
<1>1. ASSUME NEW o \in Origin, UpdateRead(f, o)
      PROVE  Settled(e)' /\ record'[e].status = record[e].status
  <2> DEFINE u == update[f][o]
             new == NewStatus(u, File(f))
             v(ws) == [u EXCEPT !.pc = "write", !.status = new, !.seen = [File(f) EXCEPT !.fits = ws]]
  <2>1. UNCHANGED <<record, lock, claim>>
    BY <1>1 DEF UpdateRead, fileVars
  <2>2. u \in Update
    BY DEF TypeInv, TypeOK
  <2>3. \/ update' = [update EXCEPT ![f][o] = NoUpdate]
        \/ /\ File(f).status # "ABSENT" /\ validate_status_transition(File(f).status, new)
           /\ \E ws : update' = [update EXCEPT ![f][o] = v(ws)]
    BY <1>1 DEF UpdateRead
  <2>4. CASE update' = [update EXCEPT ![f][o] = NoUpdate]
    <3>1. \A p \in Origin : update'[e][p] = update[e][p] \/ update'[e][p] = NoUpdate
      BY <2>4 DEF TypeInv, TypeOK
    <3> QED
      BY <2>1, <3>1, SettledStays DEF Settled, NoUpdate
  <2>5. ASSUME File(f).status # "ABSENT", validate_status_transition(File(f).status, new),
               NEW ws, update' = [update EXCEPT ![f][o] = v(ws)]
        PROVE  Settled(e)' /\ record'[e].status = record[e].status
    <3>1. f = e => new = record[e].status
      BY <1>0, <2>5
         DEF File, Absent, validate_status_transition, ALLOWED_TRANSITIONS, Status
    <3>2. v(ws).status = new
      BY <2>2 DEF Update
    <3> HIDE DEF v, new
    <3>3. \A p \in Origin : update'[e][p] = update[e][p] \/ (f = e /\ update'[e][p] = v(ws))
      BY <2>5 DEF TypeInv, TypeOK
    <3> QED
      BY <2>1, <3>1, <3>2, <3>3, SettledStays DEF Settled
  <2> QED
    BY <2>3, <2>4, <2>5
<1>2. ASSUME NEW o \in Origin, UpdateWrite(f, o)
      PROVE  Settled(e)' /\ record'[e].status = record[e].status
  <2>1. UNCHANGED <<lock, claim>> /\ update[f][o].pc = "write"
    BY <1>2 DEF UpdateWrite
  <2>2. update[f][o].seen \in Record /\ update[f][o].status \in Status
    <3>1. update[f][o] \in Update
      BY DEF TypeInv, TypeOK
    <3> QED
      BY <2>1, <3>1 DEF Update, TypeInv
  <2>3. record' = [record EXCEPT ![f] = [update[f][o].seen EXCEPT !.status = update[f][o].status]]
    BY <1>2 DEF UpdateWrite
  <2>4. record'[e].status = record[e].status
    BY <2>1, <2>2, <2>3, WithStatus DEF Settled, TypeInv, TypeOK
  <2>5. \A p \in Origin : update'[e][p] = update[e][p] \/ update'[e][p].pc = "index"
    BY <1>2 DEF UpdateWrite, TypeInv, TypeOK, Update
  <2> QED
    BY <2>1, <2>4, <2>5, SettledStays DEF Settled
<1>3. ASSUME NEW v, v.pc # "write", NEW o \in Origin,
             update' = [update EXCEPT ![f][o] = v], UNCHANGED <<record, lock, claim>>
      PROVE  Settled(e)' /\ record'[e].status = record[e].status
  <2>1. \A p \in Origin : update'[e][p] = update[e][p] \/ update'[e][p] = v
    BY <1>3 DEF TypeInv, TypeOK
  <2> QED
    BY <1>3, <2>1, SettledStays DEF Settled
<1>4. ASSUME NEW o \in Origin, UpdateIndex(f, o)
      PROVE  Settled(e)' /\ record'[e].status = record[e].status
  BY <1>3, <1>4 DEF UpdateIndex, NoUpdate, fileVars
<1>5. ASSUME NEW s \in Status \cup {"unset"}, api_update_execution(f, s)
      PROVE  Settled(e)' /\ record'[e].status = record[e].status
  BY <1>3, <1>5 DEF api_update_execution, NoUpdate, Origin, fileVars
<1>6. CASE FinishLost(f)
  BY <1>3, <1>6 DEF FinishLost, NoUpdate, Origin, fileVars
<1> QED
  BY <1>1, <1>2, <1>4, <1>5, <1>6 DEF UpdateStep

\* A step of a claim with no candidate or orphan e after it that writes to no
\* record but the claim's own candidate or orphan, and leaves other locks alone.
LEMMA SettledClaimStep ==
    ASSUME TypeInv, NEW e \in Exec, Settled(e), NEW w \in Worker, NEW c \in ClaimCall,
           NEW k \in Claim, ClaimStep(w, c, k), k.orphan # e, k.exec = e => k.pc = "answer",
           record'[e].status = record[e].status, lock'[e] = lock[e], UNCHANGED update
    PROVE  Settled(e)' /\ record'[e].status = record[e].status
<1>1. \A x \in Worker, d \in ClaimCall :
          claim'[x][d] = IF x = w /\ d = c THEN k ELSE claim[x][d]
  BY ClaimStepChange DEF TypeInv
<1>2. \A x \in Worker, d \in ClaimCall :
          /\ claim'[x][d].orphan # e
          /\ claim'[x][d].exec = e => claim'[x][d].pc = "answer"
  BY <1>1 DEF Settled
<1> QED
  BY <1>2, SettledStays

LEMMA SettledPrune ==
    ASSUME TypeInv, NEW e \in Exec, Settled(e), NEW w \in Worker, NEW c \in ClaimCall,
           (\E f \in Exec : PruneRow(w, c, f)) \/ PruneFail(w, c) \/ PruneDone(w, c)
    PROVE  Settled(e)' /\ record'[e].status = record[e].status
<1> DEFINE k == claim[w][c]
<1>0. /\ k \in Claim
      /\ record[e].status \in {"CANCELED", "SUCCESS", "FAILED"}
  BY ClaimTypes, StatusFacts DEF Settled
<1>a. k.orphan # e /\ (k.exec = e => k.pc = "answer")
  BY DEF Settled
<1>1. ASSUME NEW f \in Exec, PruneRow(w, c, f)
      PROVE  Settled(e)' /\ record'[e].status = record[e].status
  <2> DEFINE k1 == [k EXCEPT !.pc = "fail", !.orphan = f, !.read = record[f]]
             k2 == [k EXCEPT !.todo = @ \ {f}]
  <2>1. /\ k1 \in Claim /\ k1.orphan = f /\ k1.exec = k.exec
        /\ k2 \in Claim /\ k2.orphan = k.orphan /\ k2.exec = k.exec
    BY <1>0 DEF Claim, TypeInv, TypeOK
  <2>2. k.pc = "prune" /\ UNCHANGED <<record, lock, update>>
    BY <1>1 DEF PruneRow, fileVars
  <2>3. (ClaimStep(w, c, k1) /\ f # e) \/ ClaimStep(w, c, k2)
    BY <1>0, <1>1 DEF PruneRow, File, Absent
  <2> HIDE DEF k1, k2
  <2> QED
    BY <1>a, <2>1, <2>2, <2>3, SettledClaimStep
<1>2. CASE PruneFail(w, c)
  <2> DEFINE k1 == [k EXCEPT !.pc = "prune", !.orphan = NoExec, !.read = Absent,
                             !.todo = @ \ {k.orphan}]
             r == [k.read EXCEPT !.status = "FAILED"]
  <2>1. k1 \in Claim /\ k1.orphan = NoExec /\ k1.exec = k.exec
    BY <1>0, NoUpdateType DEF Claim
  <2>2. /\ k.pc = "fail" /\ ClaimStep(w, c, k1) /\ UNCHANGED <<lock, update>>
        /\ record' = [record EXCEPT ![k.orphan] = r]
    BY <1>2 DEF PruneFail
  <2> HIDE DEF k1, r
  <2>3. record'[e] = record[e]
    BY <1>a, <2>2 DEF TypeInv, TypeOK
  <2> QED
    BY <1>a, <2>1, <2>2, <2>3, QueueAssumption, SettledClaimStep
<1>3. CASE PruneDone(w, c)
  <2> DEFINE k1 == [k EXCEPT !.pc = IF BelowLimit(w) THEN "list" ELSE "answer"]
             k2 == [k EXCEPT !.pc = "write"]
             k3 == [k EXCEPT !.pc = "lock", !.exec = NoExec, !.cands = @ \ {k.exec}]
  <2>1. /\ k1 \in Claim /\ k1.orphan = k.orphan /\ k1.exec = k.exec
        /\ k2 \in Claim /\ k2.orphan = k.orphan /\ k2.exec = k.exec
        /\ k3 \in Claim /\ k3.orphan = k.orphan /\ k3.exec = NoExec
    BY <1>0 DEF Claim
  <2>2. /\ k.pc = "prune" /\ UNCHANGED <<record, update>>
        /\ ClaimStep(w, c, k1) \/ ClaimStep(w, c, k2) \/ ClaimStep(w, c, k3)
        /\ UNCHANGED lock \/ lock' = [lock EXCEPT ![k.exec] = Free]
    BY <1>3 DEF PruneDone
  <2> HIDE DEF k1, k2, k3
  <2>3. lock'[e] = lock[e]
    BY <1>a, <2>2 DEF TypeInv, TypeOK
  <2> QED
    BY <1>a, <2>1, <2>2, <2>3, QueueAssumption, SettledClaimStep
<1> QED
  BY <1>1, <1>2, <1>3

LEMMA SettledClaim ==
    ASSUME TypeInv, NEW e \in Exec, Settled(e), NEW w \in Worker, NEW c \in ClaimCall,
           \/ ClaimBegin(w, c) \/ ClaimList(w, c) \/ (\E f \in Exec : ClaimLock(w, c, f))
           \/ ClaimNone(w, c) \/ ClaimWrite(w, c) \/ mark_running_execution(w, c)
           \/ ClaimAnswer(w, c)
    PROVE  Settled(e)' /\ record'[e].status = record[e].status
<1> DEFINE k == claim[w][c]
<1>0. /\ k \in Claim
      /\ record[e].status \in {"CANCELED", "SUCCESS", "FAILED"}
  BY ClaimTypes, StatusFacts DEF Settled
<1>a. k.orphan # e /\ (k.exec = e => k.pc = "answer")
  BY DEF Settled
<1>1. CASE ClaimBegin(w, c) \/ ClaimAnswer(w, c)
  <2>1. NoClaim.exec = NoExec /\ NoClaim.orphan = NoExec
    BY DEF NoClaim
  <2>2. ASSUME ClaimBegin(w, c)
        PROVE  \E j \in Claim : ClaimStep(w, c, j) /\ j.exec = NoExec /\ j.orphan = NoExec
    <3> DEFINE j1 == [NoClaim EXCEPT !.pc = "list"]
               j2 == [NoClaim EXCEPT !.pc = "prune", !.back = "list", !.todo = RowsOf(w)]
    <3>1. /\ j1 \in Claim /\ j1.exec = NoExec /\ j1.orphan = NoExec
          /\ j2 \in Claim /\ j2.exec = NoExec /\ j2.orphan = NoExec
      BY NoUpdateType DEF NoClaim, Claim, RowsOf
    <3>2. ClaimStep(w, c, j1) \/ ClaimStep(w, c, j2)
      BY <2>2 DEF ClaimBegin, CheckLimit
    <3> HIDE DEF j1, j2
    <3> QED
      BY <3>1, <3>2
  <2>3. ClaimAnswer(w, c) => ClaimStep(w, c, NoClaim)
    BY DEF ClaimAnswer
  <2>4. UNCHANGED <<record, lock, update>>
    BY <1>1 DEF ClaimBegin, ClaimAnswer, fileVars
  <2> QED
    BY <1>1, <2>1, <2>2, <2>3, <2>4, NoClaimType, QueueAssumption, SettledClaimStep
<1>2. CASE ClaimList(w, c) \/ ClaimNone(w, c)
  <2> DEFINE k1 == [k EXCEPT !.pc = "lock", !.cands = Candidates(w)]
             k2 == [k EXCEPT !.pc = "answer"]
  <2>1. Candidates(w) \subseteq Exec
    BY DEF Candidates, Listed, Readable
  <2>2. /\ k1 \in Claim /\ k1.orphan = k.orphan /\ k1.exec = k.exec
        /\ k2 \in Claim /\ k2.orphan = k.orphan /\ k2.exec = k.exec
    BY <1>0, <2>1 DEF Claim
  <2>3. /\ k.pc # "answer" /\ UNCHANGED <<record, lock, update>>
        /\ ClaimStep(w, c, k1) \/ ClaimStep(w, c, k2)
    BY <1>2 DEF ClaimList, ClaimNone, fileVars
  <2> HIDE DEF k1, k2
  <2> QED
    BY <1>a, <2>2, <2>3, SettledClaimStep
<1>3. ASSUME NEW f \in Exec, ClaimLock(w, c, f)
      PROVE  Settled(e)' /\ record'[e].status = record[e].status
  <2> DEFINE k1 == [k EXCEPT !.cands = @ \ {f}]
             k2 == [[k EXCEPT !.exec = f] EXCEPT !.pc = "write"]
             k3 == [[k EXCEPT !.exec = f] EXCEPT !.pc = "prune", !.back = "write", !.todo = RowsOf(w)]
  <2>1. /\ k1 \in Claim /\ k1.orphan = k.orphan /\ k1.exec = k.exec
        /\ k2 \in Claim /\ k2.orphan = k.orphan /\ k2.exec = f
        /\ k3 \in Claim /\ k3.orphan = k.orphan /\ k3.exec = f
    BY <1>0 DEF Claim, RowsOf
  <2>2. k.pc = "lock" /\ UNCHANGED <<record, update>>
    BY <1>3 DEF ClaimLock
  <2>3. \/ ClaimStep(w, c, k1) /\ UNCHANGED lock
        \/ /\ StillQueued(f) /\ lock' = [lock EXCEPT ![f] = <<w, c>>]
           /\ ClaimStep(w, c, k2) \/ ClaimStep(w, c, k3)
    BY <1>3 DEF ClaimLock, CheckLimit
  <2>4. StillQueued(f) => f # e
    BY <1>0 DEF StillQueued, IsQueued, File, Absent
  <2> HIDE DEF k1, k2, k3
  <2>5. lock'[e] = lock[e]
    BY <2>3, <2>4 DEF TypeInv, TypeOK
  <2> QED
    BY <1>a, <2>1, <2>2, <2>3, <2>4, <2>5, SettledClaimStep
<1>4. CASE ClaimWrite(w, c) \/ mark_running_execution(w, c)
  <2> DEFINE k1 == [k EXCEPT !.pc = "index"]
             k2 == [k EXCEPT !.pc = "answer"]
             r == [seen[k.exec] EXCEPT !.status = "RUNNING", !.worker = w]
  <2>1. /\ k1 \in Claim /\ k1.orphan = k.orphan /\ k1.exec = k.exec
        /\ k2 \in Claim /\ k2.orphan = k.orphan /\ k2.exec = k.exec
    BY <1>0 DEF Claim
  <2>2. /\ k.pc \in {"write", "index"} /\ UNCHANGED update
        /\ ClaimStep(w, c, k1) \/ ClaimStep(w, c, k2)
        /\ UNCHANGED lock \/ lock' = [lock EXCEPT ![k.exec] = Free]
        /\ UNCHANGED record \/ record' = [record EXCEPT ![k.exec] = r]
    BY <1>4 DEF ClaimWrite, mark_running_execution
  <2> HIDE DEF k1, k2, r
  <2>3. k.exec # e /\ record'[e] = record[e] /\ lock'[e] = lock[e]
    BY <1>a, <2>2 DEF TypeInv, TypeOK
  <2> QED
    BY <1>a, <2>1, <2>2, <2>3, SettledClaimStep
<1> QED
  BY <1>1, <1>2, <1>3, <1>4

LEMMA SettledRest ==
    ASSUME TypeInv, NEW e \in Exec, Settled(e),
           \/ \E w \in Worker :
                \/ ClaimTimeout(w) \/ WorkerCrash(w)
                \/ \E f \in Exec :
                      \/ ObserveCanceling(w, f) \/ ReleaseSlot(w, f)
                      \/ \E s \in FINAL_STATUSES : FinishExecution(w, f, s)
           \/ ScanIntervalElapses \/ ServerRestart \/ UNCHANGED vars
    PROVE  Settled(e)' /\ record'[e].status = record[e].status
<1>1. ASSUME UNCHANGED <<record, lock, update, claim>>
      PROVE  Settled(e)' /\ record'[e].status = record[e].status
  BY <1>1, SettledStays DEF Settled
<1>2. ASSUME NEW w \in Worker, NEW f \in Exec, NEW s \in FINAL_STATUSES, FinishExecution(w, f, s)
      PROVE  Settled(e)' /\ record'[e].status = record[e].status
  <2>1. /\ \A p \in Origin : update'[e][p].pc = "write" => update'[e][p] = update[e][p]
        /\ UNCHANGED <<record, lock, claim>>
    BY <1>2 DEF FinishExecution, NoUpdate, Origin, TypeInv, TypeOK, fileVars
  <2> QED
    BY <2>1, SettledStays DEF Settled
<1>3. CASE ServerRestart
  <2>1. /\ UNCHANGED record /\ lock'[e] = Free
        /\ \A o \in Origin : update'[e][o] = NoUpdate
        /\ \A w \in Worker, c \in ClaimCall : claim'[w][c] = NoClaim
    BY <1>3 DEF ServerRestart
  <2> QED
    BY <2>1, QueueAssumption, SettledStays DEF Settled, NoUpdate, NoClaim
<1>4. CASE ScanIntervalElapses \/ UNCHANGED vars
  BY <1>1, <1>4 DEF ScanIntervalElapses, vars, fileVars
<1>5. ASSUME NEW w \in Worker, NEW f \in Exec,
             ClaimTimeout(w) \/ WorkerCrash(w) \/ ObserveCanceling(w, f) \/ ReleaseSlot(w, f)
      PROVE  Settled(e)' /\ record'[e].status = record[e].status
  BY <1>1, <1>5 DEF ClaimTimeout, WorkerCrash, ObserveCanceling, ReleaseSlot, fileVars
<1> QED
  BY <1>2, <1>3, <1>4, <1>5

\* A final status that no call under way is about to change is never changed
\* again, whatever is sent later, PATCH included.
THEOREM SettledIsFinalHolds == Spec => SettledIsFinal
<1> DEFINE Step == \A e \in Exec : Settled(e) =>
                       Settled(e)' /\ record'[e].status = record[e].status
<1>1. TypeInv /\ [Next]_vars => [Step]_vars
  <2> SUFFICES ASSUME TypeInv, [Next]_vars, NEW e \in Exec, Settled(e)
               PROVE  Settled(e)' /\ record'[e].status = record[e].status
    OBVIOUS
  <2> QED
    BY SettledRecords, SettledUpdates, SettledPrune, SettledClaim, SettledRest
       DEF Next, ServerStep
<1>2. Spec => []TypeInv
  BY TypeInit, TypeNext, PTL DEF Spec
<1> QED
  BY <1>1, <1>2, PTL DEF Spec, SettledIsFinal

=============================================================================
