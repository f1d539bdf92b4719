------------------------ MODULE ExecutionQueueProofs ------------------------
(***************************************************************************)
(* Type correctness of ExecutionQueue for any number of executions,        *)
(* workers, slots, claim requests and faults, for records that may be      *)
(* created with any status and worker a POST may name, and with PATCH.     *)
(***************************************************************************)
EXTENDS ExecutionQueue, TLAPS

-----------------------------------------------------------------------------
(* TypeOK needs to be strengthened by two facts: what an update is about   *)
(* to store is a status, no longer "unset", and a row that is still to be  *)
(* added is that of the record e was created as, queued or a worker's.     *)

RowToCome(e, r) == r = Absent \/ (r \in Born[e] /\ HasRow(r))

TypeInv ==
    /\ TypeOK
    /\ \A e \in Exec, o \in Origin :
          update[e][o].pc \in {"write", "index"} => update[e][o].status \in Status
    /\ \A e \in Exec : RowToCome(e, creating[e])

\* A step of one claim changes this claim only.
LEMMA ClaimStepChange ==
    ASSUME TypeOK, NEW w \in Worker, NEW c \in ClaimCall, NEW k \in Claim, ClaimStep(w, c, k)
    PROVE  /\ claim' \in [Worker -> [ClaimCall -> Claim]]
           /\ \A x \in Worker, d \in ClaimCall :
                 claim'[x][d] = IF x = w /\ d = c THEN k ELSE claim[x][d]
  BY DEF ClaimStep, TypeOK

\* CheckLimit lets the claim go on or sends it to the rows of its worker.
LEMMA CheckLimitChange ==
    ASSUME TypeOK, NEW w \in Worker, NEW c \in ClaimCall, NEW k \in Claim,
           NEW back \in {"list", "write"}, CheckLimit(w, c, k, back)
    PROVE  \E k2 \in Claim :
              /\ ClaimStep(w, c, k2)
              /\ k2.exec = k.exec
              /\ k2.cands = k.cands
              /\ k2.pc = back \/ (k2.pc = "prune" /\ k2.back = back /\ k2.todo = RowsOf(w))
<1>1. CASE BelowLimit(w)
  <2> DEFINE k2 == [k EXCEPT !.pc = back]
  <2>1. k2 \in Claim
    BY DEF Claim
  <2> WITNESS k2 \in Claim
  <2> QED
    BY <1>1 DEF CheckLimit, Claim
<1>2. CASE ~BelowLimit(w)
  <2> DEFINE k2 == [k EXCEPT !.pc = "prune", !.back = back, !.todo = RowsOf(w)]
  <2>1. k2 \in Claim
    BY DEF Claim, RowsOf
  <2> WITNESS k2 \in Claim
  <2> QED
    BY <1>2 DEF CheckLimit, Claim
<1> QED
  BY <1>1, <1>2

\* A step of one update call changes this call only.
LEMMA UpdateChange ==
    ASSUME TypeOK, NEW e \in Exec, NEW o \in Origin, NEW u \in Update,
           update' = [update EXCEPT ![e][o] = u]
    PROVE  /\ update' \in [Exec -> [Origin -> Update]]
           /\ \A f \in Exec, p \in Origin :
                 update'[f][p] = IF f = e /\ p = o THEN u ELSE update[f][p]
  BY DEF TypeOK

\* A worker changes what it does with one execution (with none for NoExec).
LEMMA RunChange ==
    ASSUME TypeOK, NEW w \in Worker, NEW e \in Exec \cup {NoExec},
           NEW s \in {"none", "running", "stopping", "reporting"},
           run' = [run EXCEPT ![w][e] = s]
    PROVE  /\ run' \in [Worker -> [Exec -> {"none", "running", "stopping", "reporting"}]]
           /\ \A x \in Worker, f \in Exec :
                 run'[x][f] = IF x = w /\ f = e THEN s ELSE run[x][f]
  BY DEF TypeOK

LEMMA NoUpdateType ==
    NoUpdate \in Update /\ Absent \in Record /\ \A e \in Exec : RowToCome(e, Absent)
  BY DEF NoUpdate, Update, Absent, Record, RowToCome

\* A record with another status.
LEMMA WithStatus ==
    ASSUME NEW r \in Record, NEW s \in Status
    PROVE  /\ [r EXCEPT !.status = s] \in Record
           /\ [r EXCEPT !.status = s].status = s
           /\ [r EXCEPT !.status = s].worker = r.worker
           /\ [r EXCEPT !.status = s].fits = r.fits
  BY DEF Record

\* What a claim makes of a record.
LEMMA WithWorker ==
    ASSUME NEW r \in Record, NEW w \in Worker
    PROVE  /\ [r EXCEPT !.status = "RUNNING", !.worker = w] \in Record
           /\ [r EXCEPT !.status = "RUNNING", !.worker = w].status = "RUNNING"
           /\ [r EXCEPT !.status = "RUNNING", !.worker = w].worker = w
  BY DEF Record, Status

LEMMA NoClaimType == NoClaim \in Claim
  BY NoUpdateType DEF NoClaim, Claim

LEMMA TypeInit == Init => TypeInv
  BY QueueAssumption, HolderAssumption, NoUpdateType, NoClaimType
     DEF Init, TypeInv, TypeOK, NoUpdate

\* Writers of a record under the lock, and the creation of records.
LEMMA TypeRecords ==
    ASSUME TypeInv, NEW e \in Exec,
           \/ create_execution_record(e) \/ add_created_row(e) \/ delete_execution(e)
           \/ api_cancel_execution(e) \/ api_stop_execution(e)
           \/ server_recover_stuck_executions(e)
    PROVE  TypeInv'
<1>0. ASSUME create_execution_record(e)
      PROVE  TypeInv'
  <2>1. PICK r \in Born[e] :
            /\ record' = [record EXCEPT ![e] = r]
            /\ creating' = [creating EXCEPT ![e] = IF HasRow(r) THEN r ELSE Absent]
    BY <1>0 DEF create_execution_record
  <2>2. r \in Record /\ RowToCome(e, IF HasRow(r) THEN r ELSE Absent)
    BY QueueAssumption DEF Posted, RowToCome
  <2>3. UNCHANGED <<gone, lock, seen, update, queuedRow, runningRow, claim, waiting, run,
                    scanDue, faults>>
    BY <1>0 DEF create_execution_record
  <2> QED
    BY <2>1, <2>2, <2>3, NoUpdateType DEF TypeInv, TypeOK
<1>1. ASSUME add_created_row(e)
      PROVE  TypeInv'
  <2>1. creating[e].worker \in Worker \cup {NoWorker}
    BY DEF TypeInv, TypeOK, Record
  <2> QED
    BY <1>1, <2>1, NoUpdateType DEF TypeInv, TypeOK, add_created_row, fileVars
<1>2. ASSUME NEW op \in {"cancel", "stop", "expire", "force"}, NEW s \in Status,
             LockAndRead(e, op, s)
      PROVE  TypeInv'
  BY <1>2 DEF TypeInv, TypeOK, LockAndRead, Holder, indexVars, workerVars
<1>3. ASSUME NEW op, NEW s \in Status, WriteAndUnlock(e, op, s)
      PROVE  TypeInv'
  <2>1. [seen[e] EXCEPT !.status = s] \in Record
    BY WithStatus DEF TypeInv, TypeOK
  <2> QED
    BY <1>3, <2>1, NoUpdateType DEF TypeInv, TypeOK, WriteAndUnlock, indexVars, workerVars
<1>4. ASSUME delete_execution(e)
      PROVE  TypeInv'
  BY <1>4 DEF TypeInv, TypeOK, delete_execution, indexVars, workerVars
<1> QED
  BY <1>0, <1>1, <1>2, <1>3, <1>4
     DEF api_cancel_execution, api_stop_execution, server_recover_stuck_executions, Status

LEMMA TypeUpdateRead ==
    ASSUME TypeInv, NEW e \in Exec, NEW o \in Origin, UpdateRead(e, o)
    PROVE  TypeInv'
<1> DEFINE r == File(e)
           new == NewStatus(update[e][o], r)
           u(ws) == [update[e][o] EXCEPT !.pc = "write", !.status = new,
                                         !.seen = [r EXCEPT !.fits = ws]]
<1>1. update[e][o] \in Update /\ r \in Record
  BY NoUpdateType DEF TypeInv, TypeOK, File
<1> HIDE DEF r
<1>0. UNCHANGED <<record, gone, lock, seen, creating, queuedRow, runningRow, claim, waiting, run,
                  scanDue, faults>>
  BY DEF UpdateRead, indexVars, workerVars, fileVars
<1>2. CASE update' = [update EXCEPT ![e][o] = NoUpdate]
  <2>1. NoUpdate.pc = "none"
    BY DEF NoUpdate
  <2> QED
    BY <1>0, <1>2, <2>1, NoUpdateType, UpdateChange DEF TypeInv, TypeOK
<1>3. ASSUME r.status # "ABSENT", NEW ws \in SUBSET Worker,
             update' = [update EXCEPT ![e][o] = u(ws)]
      PROVE  TypeInv'
  <2>1. new \in Status
    BY <1>1, <1>3 DEF NewStatus, Update, Record
  <2>2. u(ws) \in Update /\ u(ws).status \in Status
    BY <1>1, <2>1 DEF Update, Record
  <2> HIDE DEF u, new
  <2> QED
    BY <1>0, <1>3, <2>2, UpdateChange DEF TypeInv, TypeOK
<1>4. Merged(o, r) \subseteq SUBSET Worker
  BY <1>1 DEF Merged, Record
<1> QED
  BY <1>2, <1>3, <1>4 DEF UpdateRead, r

LEMMA TypeUpdateWrite ==
    ASSUME TypeInv, NEW e \in Exec, NEW o \in Origin, UpdateWrite(e, o)
    PROVE  TypeInv'
<1> DEFINE r == [update[e][o].seen EXCEPT !.status = update[e][o].status]
<1>1. update[e][o] \in Update /\ update[e][o].status \in Status
  BY DEF TypeInv, TypeOK, UpdateWrite
<1>2. r \in Record
  BY <1>1 DEF Update, Record
<1>3. record' \in [Exec -> Record]
  <2>1. record' = [record EXCEPT ![e] = r]
    BY DEF UpdateWrite
  <2> HIDE DEF r
  <2> QED
    BY <1>2, <2>1 DEF TypeInv, TypeOK
<1>4. /\ update' \in [Exec -> [Origin -> Update]]
      /\ \A f \in Exec, p \in Origin :
            /\ update'[f][p].status = update[f][p].status
            /\ update'[f][p].pc = update[f][p].pc \/ (f = e /\ p = o)
  BY <1>1 DEF TypeInv, TypeOK, UpdateWrite, Update
<1> QED
  BY <1>1, <1>3, <1>4 DEF TypeInv, TypeOK, UpdateWrite, indexVars, workerVars

LEMMA TypeUpdates ==
    ASSUME TypeInv, NEW e \in Exec,
           \/ \E o \in Origin : UpdateStep(e, o)
           \/ \E s \in Status \cup {"unset"} : api_update_execution(e, s)
           \/ FinishLost(e)
    PROVE  TypeInv'
<1>1. ASSUME NEW o \in Origin, UpdateIndex(e, o)
      PROVE  TypeInv'
  <2>1. update[e][o].seen.worker \in Worker \cup {NoWorker}
    BY DEF TypeInv, TypeOK, Update, Record
  <2> QED
    BY <1>1, <2>1, UpdateChange, NoUpdateType
       DEF TypeInv, TypeOK, UpdateIndex, NoUpdate, workerVars, fileVars
<1>2. ASSUME NEW s \in Status \cup {"unset"}, api_update_execution(e, s)
      PROVE  TypeInv'
  <2> DEFINE u == [NoUpdate EXCEPT !.pc = "sent", !.status = s]
  <2>1. u \in Update /\ u.pc = "sent"
    BY DEF NoUpdate, Update, Absent, Record
  <2>2. update' = [update EXCEPT ![e]["patch"] = u]
    BY <1>2 DEF api_update_execution
  <2>3. UNCHANGED <<record, gone, lock, seen, creating, queuedRow, runningRow, claim, waiting, run,
                    scanDue, faults>>
    BY <1>2 DEF api_update_execution, workerVars, fileVars, indexVars
  <2> HIDE DEF u
  <2> QED
    BY <2>1, <2>2, <2>3, UpdateChange DEF TypeInv, TypeOK, Origin
<1>3. ASSUME FinishLost(e)
      PROVE  TypeInv'
  BY <1>3, UpdateChange, NoUpdateType
     DEF TypeInv, TypeOK, FinishLost, Fault, Origin, NoUpdate, workerVars, fileVars, indexVars
<1> QED
  BY <1>1, <1>2, <1>3, TypeUpdateRead, TypeUpdateWrite DEF UpdateStep

LEMMA TypeClaimBegin ==
    ASSUME TypeInv, NEW w \in Worker, NEW c \in ClaimCall, ClaimBegin(w, c)
    PROVE  TypeInv'
<1>1. PICK k \in Claim : ClaimStep(w, c, k)
  BY CheckLimitChange, NoClaimType DEF ClaimBegin, TypeInv
<1> QED
  BY <1>1, ClaimStepChange
     DEF TypeInv, TypeOK, ClaimBegin, workerVars, fileVars, indexVars

\* Pruning the rows of a worker.
LEMMA TypePrune ==
    ASSUME TypeInv, NEW w \in Worker, NEW c \in ClaimCall,
           (\E e \in Exec : PruneRow(w, c, e)) \/ PruneFail(w, c) \/ PruneDone(w, c)
    PROVE  TypeInv'
<1> DEFINE k == claim[w][c]
<1>0. k \in Claim
  BY DEF TypeInv, TypeOK
<1>1. ASSUME NEW e \in Exec, PruneRow(w, c, e)
      PROVE  TypeInv'
  <2> DEFINE k1 == [k EXCEPT !.pc = "fail", !.orphan = e, !.read = record[e]]
             k2 == [k EXCEPT !.todo = @ \ {e}]
  <2>1. k1 \in Claim /\ k2 \in Claim
    BY <1>0 DEF Claim, TypeInv, TypeOK
  <2>2. /\ ClaimStep(w, c, k1) \/ ClaimStep(w, c, k2)
        /\ runningRow' \in [Exec -> Worker \cup {NoWorker}]
    BY <1>1 DEF PruneRow, TypeInv, TypeOK
  <2> HIDE DEF k1, k2
  <2> QED
    BY <1>1, <2>1, <2>2, ClaimStepChange DEF TypeInv, TypeOK, PruneRow, workerVars, fileVars
<1>2. ASSUME PruneFail(w, c)
      PROVE  TypeInv'
  <2> DEFINE r == [k.read EXCEPT !.status = "FAILED"]
             k1 == [k EXCEPT !.pc = "prune", !.orphan = NoExec, !.read = Absent,
                             !.todo = @ \ {k.orphan}]
  <2>1. r \in Record
    BY <1>0 DEF Claim, Record, Status
  <2>2. k1 \in Claim
    BY <1>0, NoUpdateType DEF Claim
  <2>3. /\ ClaimStep(w, c, k1)
        /\ record' = [record EXCEPT ![k.orphan] = r]
        /\ runningRow' \in [Exec -> Worker \cup {NoWorker}]
    BY <1>2 DEF PruneFail, TypeInv, TypeOK
  <2> HIDE DEF r, k1
  <2>4. record' \in [Exec -> Record]
    BY <2>1, <2>3 DEF TypeInv, TypeOK
  <2> QED
    BY <1>2, <2>2, <2>3, <2>4, ClaimStepChange DEF TypeInv, TypeOK, PruneFail, workerVars
<1>3. ASSUME PruneDone(w, c)
      PROVE  TypeInv'
  <2> DEFINE k1 == [k EXCEPT !.pc = IF BelowLimit(w) THEN "list" ELSE "answer"]
             k2 == [k EXCEPT !.pc = "write"]
             k3 == [k EXCEPT !.pc = "lock", !.exec = NoExec, !.cands = @ \ {k.exec}]
  <2>1. k1 \in Claim /\ k2 \in Claim /\ k3 \in Claim
    BY <1>0 DEF Claim
  <2>2. /\ ClaimStep(w, c, k1) \/ ClaimStep(w, c, k2) \/ ClaimStep(w, c, k3)
        /\ lock' \in [Exec -> Holder \cup {Free}]
        /\ seen' \in [Exec -> Record]
    BY <1>3, NoUpdateType DEF PruneDone, TypeInv, TypeOK
  <2> HIDE DEF k1, k2, k3
  <2> QED
    BY <1>3, <2>1, <2>2, ClaimStepChange DEF TypeInv, TypeOK, PruneDone, workerVars, indexVars
<1> QED
  BY <1>1, <1>2, <1>3

\* Choosing, locking and writing the candidate, and the answer.
LEMMA TypeClaimList ==
    ASSUME TypeInv, NEW w \in Worker, NEW c \in ClaimCall, ClaimList(w, c)
    PROVE  TypeInv'
<1> DEFINE k == [claim[w][c] EXCEPT !.pc = "lock", !.cands = Candidates(w)]
<1>1. claim[w][c] \in Claim
  BY DEF TypeInv, TypeOK
<1>2. Candidates(w) \subseteq Exec
  BY DEF Candidates, Listed, Readable
<1>3. k \in Claim
  BY <1>1, <1>2 DEF Claim
<1>4. /\ ClaimStep(w, c, k)
      /\ queuedRow' \subseteq Exec
      /\ scanDue' \in BOOLEAN
      /\ UNCHANGED <<record, gone, lock, seen, update, creating, runningRow, waiting, run, faults>>
  BY DEF ClaimList, TypeInv, TypeOK, Readable, workerVars, fileVars
<1> HIDE DEF k
<1> QED
  BY <1>3, <1>4, ClaimStepChange DEF TypeInv, TypeOK

LEMMA TypeClaimLock ==
    ASSUME TypeInv, NEW w \in Worker, NEW c \in ClaimCall, NEW e \in Exec, ClaimLock(w, c, e)
    PROVE  TypeInv'
<1>0. claim[w][c] \in Claim
  BY DEF TypeInv, TypeOK
<1>1. PICK k \in Claim : ClaimStep(w, c, k)
  <2> DEFINE k1 == [claim[w][c] EXCEPT !.exec = e]
             k2 == [claim[w][c] EXCEPT !.cands = @ \ {e}]
  <2>1. k1 \in Claim /\ k2 \in Claim
    BY <1>0 DEF Claim
  <2>2. CheckLimit(w, c, k1, "write") \/ ClaimStep(w, c, k2)
    BY DEF ClaimLock
  <2> HIDE DEF k1, k2
  <2> QED
    BY <2>1, <2>2, CheckLimitChange DEF TypeInv
<1>2. <<w, c>> \in Holder
  BY DEF Holder
<1>3. lock' \in [Exec -> Holder \cup {Free}] /\ seen' \in [Exec -> Record]
  BY <1>2 DEF ClaimLock, TypeInv, TypeOK
<1> QED
  BY <1>1, <1>3, ClaimStepChange DEF TypeInv, TypeOK, ClaimLock, workerVars, indexVars

LEMMA TypeClaimEnd ==
    ASSUME TypeInv, NEW w \in Worker, NEW c \in ClaimCall,
           \/ ClaimNone(w, c) \/ ClaimWrite(w, c)
           \/ mark_running_execution(w, c) \/ ClaimAnswer(w, c)
    PROVE  TypeInv'
<1> DEFINE k1 == [claim[w][c] EXCEPT !.pc = "answer"]
           k2 == [claim[w][c] EXCEPT !.pc = "index"]
<1>a. claim[w][c] \in Claim
  BY DEF TypeInv, TypeOK
<1>0. k1 \in Claim /\ k2 \in Claim /\ NoClaim \in Claim /\ claim[w][c].exec \in Exec \cup {NoExec}
  BY <1>a, NoClaimType DEF Claim
<1>1. ClaimStep(w, c, k1) \/ ClaimStep(w, c, k2) \/ ClaimStep(w, c, NoClaim)
  BY DEF ClaimNone, ClaimWrite, mark_running_execution, ClaimAnswer
<1> HIDE DEF k1, k2
<1>2. claim' \in [Worker -> [ClaimCall -> Claim]]
  BY <1>0, <1>1, ClaimStepChange DEF TypeInv
<1>3. CASE ClaimNone(w, c)
  BY <1>2, <1>3 DEF TypeInv, TypeOK, ClaimNone, workerVars, fileVars, indexVars
<1>4. CASE ClaimWrite(w, c)
  <2> DEFINE r == [seen[claim[w][c].exec] EXCEPT !.status = "RUNNING", !.worker = w]
  <2>1. claim[w][c].exec \in Exec => r \in Record
    BY WithWorker DEF TypeInv, TypeOK
  <2>2. record' = [record EXCEPT ![claim[w][c].exec] = r]
    BY <1>4 DEF ClaimWrite
  <2> HIDE DEF r
  <2>3. record' \in [Exec -> Record]
    BY <2>1, <2>2 DEF TypeInv, TypeOK
  <2> QED
    BY <1>2, <1>4, <2>3 DEF TypeInv, TypeOK, ClaimWrite, workerVars, indexVars
<1>5. CASE mark_running_execution(w, c)
  BY <1>2, <1>5, NoUpdateType DEF TypeInv, TypeOK, mark_running_execution, workerVars
<1>6. CASE ClaimAnswer(w, c)
  <2>1. waiting' \in [Worker -> ClaimCall \cup {Free}]
    BY <1>6 DEF TypeInv, TypeOK, ClaimAnswer, workerVars
  <2>2. run' \in [Worker -> [Exec -> {"none", "running", "stopping", "reporting"}]]
    <3>1. UNCHANGED run \/ run' = [run EXCEPT ![w][claim[w][c].exec] = "running"]
      BY <1>6 DEF ClaimAnswer, workerVars
    <3> QED
      BY <1>0, <3>1, RunChange DEF TypeInv, TypeOK
  <2> QED
    BY <1>2, <1>6, <2>1, <2>2 DEF TypeInv, TypeOK, ClaimAnswer, fileVars, indexVars
<1> QED
  BY <1>3, <1>4, <1>5, <1>6

\* Workers, timers and crashes.
LEMMA TypeWorker ==
    ASSUME TypeInv, NEW w \in Worker,
           \/ ClaimTimeout(w) \/ WorkerCrash(w)
           \/ \E e \in Exec :
                 \/ ObserveCanceling(w, e) \/ ReleaseSlot(w, e)
                 \/ \E s \in FINAL_STATUSES : FinishExecution(w, e, s)
    PROVE  TypeInv'
<1>0. ASSUME ClaimTimeout(w)
      PROVE  TypeInv'
  BY <1>0 DEF TypeInv, TypeOK, ClaimTimeout, Fault, fileVars, indexVars
<1>1. ASSUME WorkerCrash(w)
      PROVE  TypeInv'
  BY <1>1 DEF TypeInv, TypeOK, WorkerCrash, Fault, fileVars, indexVars
<1>2. ASSUME NEW e \in Exec, ObserveCanceling(w, e) \/ ReleaseSlot(w, e)
      PROVE  TypeInv'
  <2>1. /\ run' \in [Worker -> [Exec -> {"none", "running", "stopping", "reporting"}]]
        /\ faults' \in Nat
    <3>1. run' = [run EXCEPT ![w][e] = "stopping"] \/ run' = [run EXCEPT ![w][e] = "none"]
      BY <1>2 DEF ObserveCanceling, ReleaseSlot
    <3>2. faults' \in Nat
      BY <1>2 DEF ObserveCanceling, ReleaseSlot, Fault, TypeInv, TypeOK
    <3> QED
      BY <3>1, <3>2, RunChange DEF TypeInv, TypeOK
  <2> QED
    BY <1>2, <2>1 DEF TypeInv, TypeOK, ObserveCanceling, ReleaseSlot, fileVars, indexVars
<1>3. ASSUME NEW e \in Exec, NEW s \in FINAL_STATUSES, FinishExecution(w, e, s)
      PROVE  TypeInv'
  <2> DEFINE u == [NoUpdate EXCEPT !.pc = "sent", !.by = w, !.status = s]
  <2>1. u \in Update /\ u.pc = "sent"
    BY DEF NoUpdate, Update, Absent, Record, FINAL_STATUSES, Status
  <2>2. update' = [update EXCEPT ![e]["finish"] = u]
    BY <1>3 DEF FinishExecution
  <2>3. run' \in [Worker -> [Exec -> {"none", "running", "stopping", "reporting"}]]
    BY <1>3 DEF FinishExecution, TypeInv, TypeOK
  <2>4. UNCHANGED <<record, gone, lock, seen, creating, queuedRow, runningRow, claim, waiting,
                    scanDue, faults>>
    BY <1>3 DEF FinishExecution, fileVars, indexVars
  <2> HIDE DEF u
  <2> QED
    BY <2>1, <2>2, <2>3, <2>4, UpdateChange DEF TypeInv, TypeOK, Origin
<1> QED
  BY <1>0, <1>1, <1>2, <1>3

LEMMA TypeRestart == TypeInv /\ ServerRestart => TypeInv'
  BY NoUpdateType, NoClaimType
     DEF TypeInv, TypeOK, ServerRestart, Fault, backfill_if_empty, RunningRowAtStartup,
         IsRunning, Record, NoUpdate

LEMMA TypeNext == TypeInv /\ [Next]_vars => TypeInv'
<1> SUFFICES ASSUME TypeInv, [Next]_vars
             PROVE  TypeInv'
  OBVIOUS
<1>1. CASE UNCHANGED vars
  BY <1>1 DEF TypeInv, TypeOK, vars
<1>2. CASE ScanIntervalElapses
  BY <1>2 DEF TypeInv, TypeOK, ScanIntervalElapses, workerVars, fileVars, indexVars
<1> QED
  BY <1>1, <1>2, TypeRecords, TypeUpdates, TypeClaimBegin, TypePrune, TypeClaimList,
     TypeClaimLock, TypeClaimEnd, TypeWorker, TypeRestart
     DEF Next, ServerStep

\* Every variable keeps its type, with any writers and any faults.
THEOREM TypeCorrect == Spec => []TypeOK
<1>1. TypeInv => TypeOK
  BY DEF TypeInv
<1> QED
  BY <1>1, TypeInit, TypeNext, PTL DEF Spec

=============================================================================
