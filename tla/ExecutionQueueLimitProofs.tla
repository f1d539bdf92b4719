---------------------- MODULE ExecutionQueueLimitProofs ----------------------
(***************************************************************************)
(* What holds when a worker has at most one claim request in the server,   *)
(* for any number of executions and workers: claims give it no more        *)
(* executions than it has slots and, with one slot, nothing but the        *)
(* timeout fails what it is running.                                       *)
(***************************************************************************)
EXTENDS ExecutionQueueSafetyProofs, FiniteSetTheorems

\* What AtMostMaxRunning counts.
RunningOf(w) == {e \in Claimed : IsRunningOf(e, w)}

\* The rows of w that only claims add: its other rows may come at any moment.
ClaimedRows(w) == {e \in Claimed : runningRow[e] = w}

\* A claim writes RUNNING only while its worker has a slot left.
LimitInv ==
    /\ AtMostMaxRunning
    /\ \A w \in Worker, c \in ClaimCall :
          claim[w][c].pc = "write" => Cardinality(ClaimedRows(w)) < MaxConcurrency

LEMMA SmallerSet ==
    ASSUME NEW S, NEW T, IsFiniteSet(T), S \subseteq T
    PROVE  /\ IsFiniteSet(S)
           /\ Cardinality(S) \in Nat /\ Cardinality(T) \in Nat
           /\ Cardinality(S) <= Cardinality(T)
  BY FS_Subset, FS_CardinalityType

LEMMA OneMore ==
    ASSUME NEW S, IsFiniteSet(S), Cardinality(S) \in Nat, NEW e
    PROVE  IsFiniteSet(S \cup {e}) /\ Cardinality(S \cup {e}) <= Cardinality(S) + 1
<1>1. /\ IsFiniteSet(S \cup {e})
      /\ Cardinality(S \cup {e}) = IF e \in S THEN Cardinality(S) ELSE Cardinality(S) + 1
  BY FS_AddElement
<1> QED
  BY <1>1

-----------------------------------------------------------------------------
(* What the steps do to RUNNING records, to rows and to claims.            *)

\* Only a claim makes a record RUNNING that was not created so.
LEMMA RunningStays ==
    ASSUME Patched = {}, TypeInv, OwnershipInv, [Next]_vars,
           ~ \E w \in Worker, c \in ClaimCall : ClaimWrite(w, c),
           NEW e \in Claimed, e \notin gone', record'[e].status = "RUNNING"
    PROVE  e \notin gone /\ record'[e] = record[e]
<1>0. e \in Exec /\ \A r \in Born[e] : r.status = "QUEUED"
  BY DEF Claimed
<1>1. ASSUME NEW f \in Exec, NEW o \in Origin, UpdateWrite(f, o)
      PROVE  e # f /\ gone' = gone \ {f} /\ record'[e] = record[e]
  <2> DEFINE u == update[f][o]
  <2>1. u \in Update /\ u.pc = "write"
    BY <1>1 DEF TypeInv, TypeOK, UpdateWrite
  <2>2. u.seen \in Record /\ u.status \in FINAL_STATUSES
    BY <2>1 DEF Update, OwnershipInv, UpdatesAreReports
  <2>3. /\ record' = [record EXCEPT ![f] = [u.seen EXCEPT !.status = u.status]]
        /\ gone' = gone \ {f}
    BY <1>1 DEF UpdateWrite
  <2>4. record'[f].status # "RUNNING"
    BY <2>2, <2>3, StatusFacts DEF TypeInv, TypeOK, Record
  <2> QED
    BY <1>0, <2>3, <2>4 DEF TypeInv, TypeOK
<1>2. e \notin gone
  BY <1>0, <1>1, GoneStays
<1>3. ASSUME NEW f \in Exec, NEW op \in ServerOp, NEW s \in Status \ {"RUNNING"},
             WriteAndUnlock(f, op, s)
      PROVE  record'[e] = record[e]
  <2>1. seen[f] \in Record
    BY DEF TypeInv, TypeOK
  <2>2. [seen[f] EXCEPT !.status = s].status # "RUNNING"
    BY <2>1, WithStatus
  <2> QED
    BY <1>0, <1>3, <2>2 DEF WriteAndUnlock, TypeInv, TypeOK
<1>4. ASSUME NEW f \in Exec,
             \/ api_cancel_execution(f) \/ api_stop_execution(f)
             \/ server_recover_stuck_executions(f)
      PROVE  record'[e] = record[e]
  <2>1. ASSUME NEW op, NEW s, LockAndRead(f, op, s)
        PROVE  record'[e] = record[e]
    BY <2>1 DEF LockAndRead
  <2> QED
    BY <1>3, <1>4, <2>1
       DEF api_cancel_execution, api_stop_execution, server_recover_stuck_executions,
           ServerOp, Status
<1>5. ASSUME NEW f \in Exec,
             \/ add_created_row(f) \/ delete_execution(f) \/ FinishLost(f)
             \/ \E o \in Origin : UpdateRead(f, o) \/ UpdateIndex(f, o)
             \/ \E s \in Status \cup {"unset"} : api_update_execution(f, s)
      PROVE  record'[e] = record[e]
  BY <1>5 DEF add_created_row, delete_execution, FinishLost, UpdateRead, UpdateIndex,
              api_update_execution, fileVars
<1>6. ASSUME NEW w \in Worker, NEW c \in ClaimCall, PruneFail(w, c)
      PROVE  record'[e] = record[e]
  <2> DEFINE k == claim[w][c]
  <2>1. k \in Claim
    BY ClaimTypes
  <2>2. k.read \in Record /\ "FAILED" \in Status
    BY <2>1 DEF Claim, Status
  <2>3. [k.read EXCEPT !.status = "FAILED"].status # "RUNNING"
    BY <2>2, WithStatus
  <2> QED
    BY <1>0, <1>6, <2>3 DEF PruneFail, TypeInv, TypeOK
<1>7. ASSUME NEW w \in Worker, NEW c \in ClaimCall,
             \/ ClaimBegin(w, c) \/ PruneDone(w, c) \/ ClaimList(w, c) \/ ClaimNone(w, c)
             \/ mark_running_execution(w, c) \/ ClaimAnswer(w, c)
             \/ \E f \in Exec : PruneRow(w, c, f) \/ ClaimLock(w, c, f)
      PROVE  record'[e] = record[e]
  BY <1>7 DEF ClaimBegin, PruneDone, ClaimList, ClaimNone, mark_running_execution, ClaimAnswer,
              PruneRow, ClaimLock, fileVars
<1>8. ASSUME NEW w \in Worker,
             \/ ClaimTimeout(w) \/ WorkerCrash(w)
             \/ \E f \in Exec :
                   \/ ObserveCanceling(w, f) \/ ReleaseSlot(w, f)
                   \/ \E s \in FINAL_STATUSES : FinishExecution(w, f, s)
      PROVE  record'[e] = record[e]
  BY <1>8 DEF ClaimTimeout, WorkerCrash, ObserveCanceling, ReleaseSlot, FinishExecution, fileVars
<1>9. CASE ScanIntervalElapses \/ ServerRestart \/ UNCHANGED vars
  BY <1>9 DEF ScanIntervalElapses, ServerRestart, vars, fileVars
<1>10. ASSUME NEW f \in Exec, create_execution_record(f)
       PROVE  record'[e] = record[e]
  <2>1. PICK r \in Born[f] : record' = [record EXCEPT ![f] = r]
    BY <1>10 DEF create_execution_record
  <2>2. f = e => record'[e] = r
    BY <1>0, <2>1 DEF TypeInv, TypeOK
  <2> QED
    BY <1>0, <2>1, <2>2
<1> QED
  BY <1>1, <1>2, <1>4, <1>5, <1>6, <1>7, <1>8, <1>9, <1>10 DEF Next, ServerStep, UpdateStep

\* The rows of an execution that is not created RUNNING are added by claims and by a
\* restart only.
LEMMA RowsShrink ==
    ASSUME Patched = {}, TypeInv, OwnershipInv, [Next]_vars, ~ServerRestart,
           ~ \E w \in Worker, c \in ClaimCall : mark_running_execution(w, c),
           NEW e \in Claimed
    PROVE  runningRow'[e] \in {runningRow[e], NoWorker}
<1>0. e \in Exec /\ \A r \in Born[e] : r.status = "QUEUED"
  BY DEF Claimed
<1>1. ASSUME NEW f \in Exec, NEW o \in Origin, UpdateIndex(f, o)
      PROVE  runningRow'[e] \in {runningRow[e], NoWorker}
  <2>1. update[f][o].status # "RUNNING"
    BY <1>1, StatusFacts DEF UpdateIndex, OwnershipInv, UpdatesAreReports
  <2> QED
    BY <1>0, <1>1, <2>1 DEF UpdateIndex, TypeInv, TypeOK
<1>2. ASSUME NEW f \in Exec,
             \/ create_execution_record(f) \/ delete_execution(f)
             \/ api_cancel_execution(f) \/ api_stop_execution(f)
             \/ server_recover_stuck_executions(f)
             \/ \E o \in Origin : UpdateRead(f, o) \/ UpdateWrite(f, o)
             \/ \E s \in Status \cup {"unset"} : api_update_execution(f, s)
             \/ FinishLost(f)
      PROVE  runningRow'[e] = runningRow[e]
  BY <1>2 DEF create_execution_record, delete_execution,
       api_cancel_execution, api_stop_execution, server_recover_stuck_executions, LockAndRead,
       WriteAndUnlock, UpdateRead, UpdateWrite, api_update_execution, FinishLost, indexVars
<1>3. ASSUME NEW w \in Worker, NEW c \in ClaimCall,
             PruneFail(w, c) \/ \E f \in Exec : PruneRow(w, c, f)
      PROVE  runningRow'[e] \in {runningRow[e], NoWorker}
  BY <1>0, <1>3 DEF PruneFail, PruneRow, TypeInv, TypeOK
<1>4. ASSUME NEW w \in Worker, NEW c \in ClaimCall,
             \/ ClaimBegin(w, c) \/ PruneDone(w, c) \/ ClaimList(w, c) \/ ClaimNone(w, c)
             \/ ClaimWrite(w, c) \/ ClaimAnswer(w, c)
             \/ \E f \in Exec : ClaimLock(w, c, f)
      PROVE  runningRow'[e] = runningRow[e]
  BY <1>4 DEF ClaimBegin, PruneDone, ClaimList, ClaimNone, ClaimWrite, ClaimAnswer, ClaimLock,
              indexVars
<1>5. ASSUME NEW w \in Worker,
             \/ ClaimTimeout(w) \/ WorkerCrash(w)
             \/ \E f \in Exec :
                   \/ ObserveCanceling(w, f) \/ ReleaseSlot(w, f)
                   \/ \E s \in FINAL_STATUSES : FinishExecution(w, f, s)
      PROVE  runningRow'[e] = runningRow[e]
  BY <1>5 DEF ClaimTimeout, WorkerCrash, ObserveCanceling, ReleaseSlot, FinishExecution, indexVars
<1>6. CASE ScanIntervalElapses \/ UNCHANGED vars
  BY <1>6 DEF ScanIntervalElapses, vars, indexVars
<1>7. ASSUME NEW f \in Exec, add_created_row(f)
      PROVE  runningRow'[e] = runningRow[e]
  <2>1. f = e => creating[f].status = "QUEUED"
    BY <1>0, <1>7 DEF add_created_row, TypeInv, RowToCome
  <2> QED
    BY <1>0, <1>7, <2>1 DEF add_created_row, TypeInv, TypeOK
<1> QED
  BY <1>1, <1>2, <1>3, <1>4, <1>5, <1>6, <1>7 DEF Next, ServerStep, UpdateStep

\* A claim goes on to write only where it has found its worker below the limit.
LEMMA NewWrite ==
    ASSUME TypeInv, [Next]_vars, NEW w \in Worker, NEW c \in ClaimCall,
           claim'[w][c].pc = "write", claim[w][c].pc # "write"
    PROVE  BelowLimit(w)
<1> SUFFICES ASSUME ~BelowLimit(w)
             PROVE  FALSE
  OBVIOUS
<1>1. ASSUME NEW x \in Worker, NEW d \in ClaimCall, NEW k \in Claim, ClaimStep(x, d, k)
      PROVE  x = w /\ d = c /\ k.pc = "write"
  BY <1>1, ClaimStepChange DEF TypeInv
<1>2. ASSUME NEW x \in Worker, NEW d \in ClaimCall, NEW k \in Claim, NEW back \in {"list", "write"},
             CheckLimit(x, d, k, back)
      PROVE  FALSE
  <2> DEFINE j1 == [k EXCEPT !.pc = back]
             j2 == [k EXCEPT !.pc = "prune", !.back = back, !.todo = RowsOf(x)]
  <2>1. j1 \in Claim /\ j2 \in Claim /\ j2.pc = "prune"
    BY DEF Claim, RowsOf
  <2>2. (BelowLimit(x) /\ ClaimStep(x, d, j1)) \/ ClaimStep(x, d, j2)
    BY <1>2 DEF CheckLimit
  <2> HIDE DEF j1, j2
  <2> QED
    BY <1>1, <2>1, <2>2
<1>3. ASSUME NEW x \in Worker, NEW d \in ClaimCall,
             ClaimBegin(x, d) \/ \E e \in Exec : ClaimLock(x, d, e)
      PROVE  FALSE
  <2> DEFINE k == claim[x][d]
  <2>1. k \in Claim
    BY ClaimTypes
  <2>2. CASE ClaimBegin(x, d)
    BY <1>2, <2>2, NoClaimType DEF ClaimBegin
  <2>3. ASSUME NEW e \in Exec, ClaimLock(x, d, e)
        PROVE  FALSE
    <3> DEFINE j1 == [k EXCEPT !.exec = e]
               j2 == [k EXCEPT !.cands = @ \ {e}]
    <3>1. j1 \in Claim /\ j2 \in Claim /\ j2.pc = "lock"
      BY <2>1, <2>3 DEF Claim, ClaimLock
    <3>2. CheckLimit(x, d, j1, "write") \/ ClaimStep(x, d, j2)
      BY <2>3 DEF ClaimLock
    <3> HIDE DEF j1, j2
    <3> QED
      BY <1>1, <1>2, <3>1, <3>2
  <2> QED
    BY <1>3, <2>2, <2>3
<1>4. ASSUME NEW x \in Worker, NEW d \in ClaimCall, PruneDone(x, d)
      PROVE  FALSE
  <2> DEFINE k == claim[x][d]
             j1 == [k EXCEPT !.pc = IF BelowLimit(x) THEN "list" ELSE "answer"]
             j2 == [k EXCEPT !.pc = "write"]
             j3 == [k EXCEPT !.pc = "lock", !.exec = NoExec, !.cands = @ \ {k.exec}]
  <2>1. k \in Claim
    BY ClaimTypes
  <2>2. /\ j1 \in Claim /\ j1.pc # "write"
        /\ j2 \in Claim
        /\ j3 \in Claim /\ j3.pc = "lock"
    BY <2>1 DEF Claim
  <2>3. ClaimStep(x, d, j1) \/ (BelowLimit(x) /\ ClaimStep(x, d, j2)) \/ ClaimStep(x, d, j3)
    BY <1>4 DEF PruneDone
  <2> HIDE DEF j1, j2, j3
  <2> QED
    BY <1>1, <2>2, <2>3
<1>5. ASSUME NEW x \in Worker, NEW d \in ClaimCall,
             \/ PruneFail(x, d) \/ \E e \in Exec : PruneRow(x, d, e)
             \/ ClaimList(x, d) \/ ClaimNone(x, d)
      PROVE  FALSE
  <2> DEFINE k == claim[x][d]
             Other(j) == j \in Claim /\ j.pc # "write" /\ ClaimStep(x, d, j)
  <2>1. k \in Claim
    BY ClaimTypes
  <2>2. ASSUME NEW e \in Exec, PruneRow(x, d, e)
        PROVE  \E j : Other(j)
    <3> DEFINE j1 == [k EXCEPT !.pc = "fail", !.orphan = e, !.read = record[e]]
               j2 == [k EXCEPT !.todo = @ \ {e}]
    <3>1. j1 \in Claim /\ j1.pc = "fail" /\ j2 \in Claim /\ j2.pc = "prune"
      BY <2>1, <2>2 DEF Claim, PruneRow, TypeInv, TypeOK
    <3>2. ClaimStep(x, d, j1) \/ ClaimStep(x, d, j2)
      BY <2>2 DEF PruneRow
    <3> HIDE DEF j1, j2
    <3> QED
      BY <3>1, <3>2
  <2>3. CASE PruneFail(x, d)
    <3> DEFINE j1 == [k EXCEPT !.pc = "prune", !.orphan = NoExec, !.read = Absent,
                               !.todo = @ \ {k.orphan}]
    <3>1. j1 \in Claim /\ j1.pc = "prune"
      BY <2>1, NoUpdateType DEF Claim
    <3>2. ClaimStep(x, d, j1)
      BY <2>3 DEF PruneFail
    <3> HIDE DEF j1
    <3> QED
      BY <1>1, <3>1, <3>2
  <2>4. CASE ClaimList(x, d) \/ ClaimNone(x, d)
    <3> DEFINE j1 == [k EXCEPT !.pc = "lock", !.cands = Candidates(x)]
               j2 == [k EXCEPT !.pc = "answer"]
    <3>1. j1 \in Claim /\ j1.pc = "lock" /\ j2 \in Claim /\ j2.pc = "answer"
      BY <2>1 DEF Claim, Candidates, Listed, Readable
    <3>2. ClaimStep(x, d, j1) \/ ClaimStep(x, d, j2)
      BY <2>4 DEF ClaimList, ClaimNone
    <3> HIDE DEF j1, j2
    <3> QED
      BY <1>1, <3>1, <3>2
  <2> QED
    BY <1>1, <1>5, <2>2, <2>3, <2>4
<1>6. ASSUME NEW x \in Worker, NEW d \in ClaimCall,
             ClaimWrite(x, d) \/ mark_running_execution(x, d) \/ ClaimAnswer(x, d)
      PROVE  FALSE
  <2> DEFINE j1 == [claim[x][d] EXCEPT !.pc = "index"]
             j2 == [claim[x][d] EXCEPT !.pc = "answer"]
  <2>0. claim[x][d] \in Claim
    BY ClaimTypes
  <2>1. /\ j1 \in Claim /\ j1.pc = "index" /\ j2 \in Claim /\ j2.pc = "answer"
        /\ NoClaim \in Claim /\ NoClaim.pc = "idle"
    BY <2>0, NoClaimType DEF Claim, NoClaim
  <2>2. ClaimStep(x, d, j1) \/ ClaimStep(x, d, j2) \/ ClaimStep(x, d, NoClaim)
    BY <1>6 DEF ClaimWrite, mark_running_execution, ClaimAnswer
  <2> HIDE DEF j1, j2
  <2> QED
    BY <1>1, <2>1, <2>2
<1>7. claim' # claim
  OBVIOUS
<1>8. ASSUME NEW e \in Exec,
             \/ create_execution_record(e) \/ add_created_row(e) \/ delete_execution(e)
             \/ api_cancel_execution(e) \/ api_stop_execution(e)
             \/ server_recover_stuck_executions(e)
             \/ \E o \in Origin : UpdateStep(e, o)
             \/ \E s \in Status \cup {"unset"} : api_update_execution(e, s)
             \/ FinishLost(e)
      PROVE  UNCHANGED claim
  BY <1>8 DEF create_execution_record, add_created_row, delete_execution,
       api_cancel_execution, api_stop_execution, server_recover_stuck_executions, LockAndRead,
       WriteAndUnlock, UpdateStep, UpdateRead, UpdateWrite, UpdateIndex, api_update_execution,
       FinishLost
<1>9. ASSUME NEW x \in Worker,
             \/ ClaimTimeout(x) \/ WorkerCrash(x)
             \/ \E e \in Exec :
                   \/ ObserveCanceling(x, e) \/ ReleaseSlot(x, e)
                   \/ \E s \in FINAL_STATUSES : FinishExecution(x, e, s)
      PROVE  UNCHANGED claim
  BY <1>9 DEF ClaimTimeout, WorkerCrash, ObserveCanceling, ReleaseSlot, FinishExecution
<1>10. ~ServerRestart
  BY DEF ServerRestart, NoClaim
<1>11. ~ScanIntervalElapses /\ ~UNCHANGED vars
  BY <1>7 DEF ScanIntervalElapses, vars
<1> QED
  BY <1>3, <1>4, <1>5, <1>6, <1>7, <1>8, <1>9, <1>10, <1>11 DEF Next, ServerStep

-----------------------------------------------------------------------------
(* The limit.                                                              *)

LEMMA LimitInit == Init /\ IsFiniteSet(Exec) => LimitInv
<1> SUFFICES ASSUME Init, IsFiniteSet(Exec), NEW w \in Worker
             PROVE  Cardinality(RunningOf(w)) <= MaxConcurrency
  BY DEF Init, LimitInv, AtMostMaxRunning, RunningOf, NoClaim
<1>1. RunningOf(w) = {}
  BY DEF Init, RunningOf, Claimed, IsRunningOf, File, Absent
<1> QED
  BY <1>1, FS_EmptySet, QueueAssumption

LEMMA LimitNext ==
    ASSUME Patched = {}, IsFiniteSet(Exec), NEW call, ClaimCall = {call},
           TypeInv, OwnershipInv, LimitInv, [Next]_vars
    PROVE  LimitInv'
<1>0. Claimed \subseteq Exec /\ IsFiniteSet(Claimed)
  BY SmallerSet DEF Claimed
<1>1. ASSUME NEW w \in Worker
      PROVE  Cardinality(RunningOf(w)') <= MaxConcurrency
  <2>1. CASE RunningOf(w)' \subseteq RunningOf(w)
    <3>1. IsFiniteSet(RunningOf(w))
      BY <1>0, SmallerSet DEF RunningOf
    <3>2. Cardinality(RunningOf(w)) <= MaxConcurrency
      BY DEF LimitInv, AtMostMaxRunning, RunningOf
    <3> QED
      BY <2>1, <3>1, <3>2, SmallerSet, QueueAssumption
  <2>2. CASE ~ \E x \in Worker, c \in ClaimCall : ClaimWrite(x, c)
    <3>1. RunningOf(w)' \subseteq RunningOf(w)
      BY <2>2, RunningStays DEF RunningOf, IsRunningOf, File, Absent
    <3> QED
      BY <2>1, <3>1
  <2>3. ASSUME NEW x \in Worker, NEW c \in ClaimCall, ClaimWrite(x, c)
        PROVE  Cardinality(RunningOf(w)') <= MaxConcurrency
    <3> DEFINE e == claim[x][c].exec
    <3>1. claim[x][c].pc = "write" /\ gone' = gone
      BY <2>3 DEF ClaimWrite
    <3>2. e \in Exec
      BY <3>1 DEF OwnershipInv, ClaimsHoldTheirLock, HoldsItsLock, HoldsCandidate
    <3>3. /\ record'[e].worker = x
          /\ \A f \in Exec : f # e => record'[f] = record[f]
      BY <2>3, <3>2, WithWorker DEF ClaimWrite, TypeInv, TypeOK
    <3>4. CASE w # x
      <4>1. RunningOf(w)' \subseteq RunningOf(w)
        BY <1>0, <3>1, <3>3, <3>4 DEF RunningOf, IsRunningOf, File
      <4> QED
        BY <2>1, <4>1
    <3>5. CASE w = x
      <4>1. RunningOf(w)' \subseteq RunningOf(w) \cup {e}
        BY <1>0, <3>1, <3>3 DEF RunningOf, IsRunningOf, File
      <4>2. RunningOf(w) \subseteq ClaimedRows(w)
        <5>1. \A f \in Claimed : creating[f].status # "RUNNING"
          BY <1>0 DEF TypeInv, RowToCome, Claimed, Absent
        <5> QED
          BY <1>0, <3>1, <3>5, <5>1 DEF OwnershipInv, RunningIsIndexed, RunningOf, ClaimedRows
      <4>3. /\ IsFiniteSet(ClaimedRows(w))
            /\ Cardinality(ClaimedRows(w)) \in Nat
            /\ Cardinality(ClaimedRows(w)) < MaxConcurrency
        BY <1>0, <3>1, <3>5, SmallerSet DEF LimitInv, ClaimedRows
      <4>4. /\ IsFiniteSet(RunningOf(w))
            /\ Cardinality(RunningOf(w)) \in Nat
            /\ Cardinality(RunningOf(w)) < MaxConcurrency
        BY <4>2, <4>3, SmallerSet, QueueAssumption
      <4>5. /\ IsFiniteSet(RunningOf(w) \cup {e})
            /\ Cardinality(RunningOf(w) \cup {e}) <= Cardinality(RunningOf(w)) + 1
        BY <4>4, OneMore
      <4> QED
        BY <4>1, <4>4, <4>5, SmallerSet, QueueAssumption
    <3> QED
      BY <3>4, <3>5
  <2> QED
    BY <2>2, <2>3
<1>2. ASSUME NEW w \in Worker, NEW c \in ClaimCall, claim'[w][c].pc = "write"
      PROVE  Cardinality(ClaimedRows(w)') < MaxConcurrency
  <2>1. Cardinality(ClaimedRows(w)) < MaxConcurrency
    <3>1. CASE BelowLimit(w)
      <4>1. IsFiniteSet(RowsOf(w)) /\ ClaimedRows(w) \subseteq RowsOf(w)
        BY <1>0, SmallerSet DEF RowsOf, ClaimedRows
      <4> QED
        BY <3>1, <4>1, SmallerSet, QueueAssumption DEF BelowLimit, running_count_for_worker
    <3> QED
      BY <1>2, <3>1, NewWrite DEF LimitInv
  <2>2. ~ServerRestart
    BY <1>2 DEF ServerRestart, NoClaim
  <2>3. ASSUME NEW x \in Worker, NEW d \in ClaimCall, mark_running_execution(x, d)
        PROVE  ClaimedRows(w)' \subseteq ClaimedRows(w)
    <3> DEFINE j == [claim[x][d] EXCEPT !.pc = "answer"]
    <3>1. claim[x][d] \in Claim
      BY ClaimTypes
    <3>2. j \in Claim /\ j.pc = "answer" /\ ClaimStep(x, d, j)
      BY <2>3, <3>1 DEF mark_running_execution, Claim
    <3> HIDE DEF j
    <3>3. x # w
      <4>1. claim'[x][d] = j
        BY <3>2, ClaimStepChange DEF TypeInv
      <4>2. c = d
        OBVIOUS
      <4> QED
        BY <1>2, <3>2, <4>1, <4>2
    <3> QED
      BY <1>0, <2>3, <3>3 DEF mark_running_execution, ClaimedRows, TypeInv, TypeOK
  <2>4. ClaimedRows(w)' \subseteq ClaimedRows(w)
    <3>1. CASE \A x \in Worker, d \in ClaimCall : ~mark_running_execution(x, d)
      <4>1. \A e \in Claimed : runningRow'[e] \in {runningRow[e], NoWorker}
        BY <2>2, <3>1, RowsShrink
      <4> QED
        BY <4>1, QueueAssumption DEF ClaimedRows
    <3> QED
      BY <2>3, <3>1
  <2>5. IsFiniteSet(ClaimedRows(w))
    BY <1>0, SmallerSet DEF ClaimedRows
  <2> QED
    BY <2>1, <2>4, <2>5, SmallerSet, QueueAssumption
<1> QED
  BY <1>1, <1>2 DEF LimitInv, AtMostMaxRunning, RunningOf, ClaimedRows, Claimed

\* A worker whose claims do not overlap is given no more executions by them than it
\* has slots, whatever crashes, is lost, stopped, deleted or created RUNNING for it.
THEOREM AtMostMaxRunningHolds ==
    ASSUME Patched = {}, IsFiniteSet(Exec), NEW call, ClaimCall = {call}
    PROVE  Spec => []AtMostMaxRunning
<1>1. Init => LimitInv
  BY LimitInit
<1>2. TypeInv /\ OwnershipInv /\ LimitInv /\ [Next]_vars => LimitInv'
  BY LimitNext
<1>3. LimitInv => AtMostMaxRunning
  BY DEF LimitInv
<1>4. Spec => []TypeInv
  BY TypeInit, TypeNext, PTL DEF Spec
<1>5. Spec => []OwnershipInv
  BY Ownership
<1> QED
  BY <1>1, <1>2, <1>3, <1>4, <1>5, PTL DEF Spec

-----------------------------------------------------------------------------
(* A worker with one slot and one claim request at a time.                 *)

Live == {"running", "stopping"}

\* The worker is answered, or about to be, with this execution.
Pending(k, e) == k.pc \in {"index", "answer"} /\ k.exec = e

\* A worker with a claim in the server runs nothing; what has been reported is
\* neither run any more nor to be run again.
LiveInv ==
    /\ \A w \in Worker, c \in ClaimCall, e \in Exec :
          claim[w][c].pc # "idle" => run[w][e] = "none"
    /\ \A w \in Worker, e \in Exec, o \in Origin :
          update[e][o].pc # "none" =>
              /\ run[w][e] \notin Live
              /\ \A c \in ClaimCall : ~Pending(claim[w][c], e)

\* A step that starts no run, no report and no claim.
LEMMA LiveKept ==
    ASSUME LiveInv,
           \A w \in Worker, e \in Exec :
              /\ run'[w][e] # "none" => run[w][e] # "none"
              /\ run'[w][e] \in Live => run[w][e] \in Live,
           \A e \in Exec, o \in Origin : update'[e][o].pc # "none" => update[e][o].pc # "none",
           \A w \in Worker, c \in ClaimCall :
              /\ claim'[w][c].pc # "idle" => claim[w][c].pc # "idle"
              /\ \A e \in Exec : Pending(claim'[w][c], e) => Pending(claim[w][c], e)
    PROVE  LiveInv'
  BY DEF LiveInv, Live, Pending

\* A claim that goes on, and is pending for no other execution.
LEMMA LiveClaimStep ==
    ASSUME TypeInv, LiveInv, NEW w \in Worker, NEW c \in ClaimCall, NEW k \in Claim,
           ClaimStep(w, c, k), k.pc # "idle" => claim[w][c].pc # "idle",
           \A e \in Exec : Pending(k, e) => Pending(claim[w][c], e),
           UNCHANGED <<run, update>>
    PROVE  LiveInv'
<1>1. \A x \in Worker, d \in ClaimCall :
          claim'[x][d] = IF x = w /\ d = c THEN k ELSE claim[x][d]
  BY ClaimStepChange DEF TypeInv
<1> QED
  BY <1>1, LiveKept

\* The slot that a claim is for is the only one.
LEMMA OneSlot ==
    ASSUME IsFiniteSet(Exec), MaxConcurrency = 1, NEW w \in Worker, FreeSlot(w)
    PROVE  \A e \in Exec : run[w][e] = "none"
<1> DEFINE S == {e \in Exec : run[w][e] # "none"}
<1>1. IsFiniteSet(S)
  BY SmallerSet
<1>2. Cardinality(S) \in Nat /\ Cardinality(S) < 1
  BY <1>1, FS_CardinalityType DEF FreeSlot
<1>3. S = {}
  BY <1>1, <1>2, FS_EmptySet
<1> QED
  BY <1>3

LEMMA LiveBegin ==
    ASSUME IsFiniteSet(Exec), MaxConcurrency = 1, TypeInv, LiveInv,
           NEW w \in Worker, NEW c \in ClaimCall, ClaimBegin(w, c)
    PROVE  LiveInv'
<1>1. PICK k \in Claim : ClaimStep(w, c, k) /\ k.pc \in {"list", "prune"}
  BY CheckLimitChange, NoClaimType DEF ClaimBegin, TypeInv
<1>2. \A x \in Worker, d \in ClaimCall :
          claim'[x][d] = IF x = w /\ d = c THEN k ELSE claim[x][d]
  BY <1>1, ClaimStepChange DEF TypeInv
<1>3. UNCHANGED <<run, update>> /\ \A e \in Exec : run[w][e] = "none"
  BY OneSlot DEF ClaimBegin
<1> QED
  BY <1>1, <1>2, <1>3 DEF LiveInv, Pending

LEMMA LivePrune ==
    ASSUME TypeInv, LiveInv, NEW w \in Worker, NEW c \in ClaimCall,
           \/ \E e \in Exec : PruneRow(w, c, e) \/ ClaimLock(w, c, e)
           \/ PruneFail(w, c) \/ ClaimList(w, c)
    PROVE  LiveInv'
<1> DEFINE k == claim[w][c]
<1>0. k \in Claim /\ k.pc \in {"prune", "fail", "lock", "list"} /\ UNCHANGED <<run, update>>
  BY ClaimTypes DEF PruneRow, ClaimLock, PruneFail, ClaimList, workerVars
<1>1. ASSUME NEW j \in Claim, ClaimStep(w, c, j), j.pc \notin {"idle", "index", "answer"}
      PROVE  LiveInv'
  BY <1>0, <1>1, LiveClaimStep DEF Pending
<1>2. ASSUME NEW e \in Exec, PruneRow(w, c, e)
      PROVE  LiveInv'
  <2> DEFINE j1 == [k EXCEPT !.pc = "fail", !.orphan = e, !.read = record[e]]
             j2 == [k EXCEPT !.todo = @ \ {e}]
  <2>1. j1 \in Claim /\ j1.pc = "fail" /\ j2 \in Claim /\ j2.pc = "prune"
    BY <1>0, <1>2 DEF Claim, PruneRow, TypeInv, TypeOK
  <2>2. ClaimStep(w, c, j1) \/ ClaimStep(w, c, j2)
    BY <1>2 DEF PruneRow
  <2> HIDE DEF j1, j2
  <2> QED
    BY <1>1, <2>1, <2>2
<1>3. ASSUME NEW e \in Exec, ClaimLock(w, c, e)
      PROVE  LiveInv'
  <2> DEFINE j1 == [k EXCEPT !.exec = e]
             j2 == [k EXCEPT !.cands = @ \ {e}]
  <2>1. j1 \in Claim /\ j2 \in Claim /\ j2.pc = "lock"
    BY <1>0, <1>3 DEF Claim, ClaimLock
  <2>2. CheckLimit(w, c, j1, "write") \/ ClaimStep(w, c, j2)
    BY <1>3 DEF ClaimLock
  <2> HIDE DEF j1, j2
  <2>3. CASE CheckLimit(w, c, j1, "write")
    <3>1. PICK j \in Claim : ClaimStep(w, c, j) /\ j.pc \in {"write", "prune"}
      BY <2>1, <2>3, CheckLimitChange DEF TypeInv
    <3> QED
      BY <1>1, <3>1
  <2> QED
    BY <1>1, <2>1, <2>2, <2>3
<1>4. CASE PruneFail(w, c)
  <2> DEFINE j == [k EXCEPT !.pc = "prune", !.orphan = NoExec, !.read = Absent,
                            !.todo = @ \ {k.orphan}]
  <2>1. j \in Claim /\ j.pc = "prune"
    BY <1>0, NoUpdateType DEF Claim
  <2>2. ClaimStep(w, c, j)
    BY <1>4 DEF PruneFail
  <2> HIDE DEF j
  <2> QED
    BY <1>1, <2>1, <2>2
<1>5. CASE ClaimList(w, c)
  <2> DEFINE j == [k EXCEPT !.pc = "lock", !.cands = Candidates(w)]
  <2>1. j \in Claim /\ j.pc = "lock"
    BY <1>0 DEF Claim, Candidates, Listed, Readable
  <2>2. ClaimStep(w, c, j)
    BY <1>5 DEF ClaimList
  <2> HIDE DEF j
  <2> QED
    BY <1>1, <2>1, <2>2
<1> QED
  BY <1>2, <1>3, <1>4, <1>5

\* A claim that gives up is pending for nothing.
LEMMA LiveGivesUp ==
    ASSUME TypeInv, OwnershipInv, LiveInv, NEW w \in Worker, NEW c \in ClaimCall,
           PruneDone(w, c) \/ ClaimNone(w, c)
    PROVE  LiveInv'
<1> DEFINE k == claim[w][c]
           j1 == [k EXCEPT !.pc = "list"]
           j2 == [k EXCEPT !.pc = "answer"]
           j3 == [k EXCEPT !.pc = "write"]
           j4 == [k EXCEPT !.pc = "lock", !.exec = NoExec, !.cands = @ \ {k.exec}]
<1>1. k \in Claim /\ k.pc \in {"prune", "lock"} /\ UNCHANGED <<run, update>>
  BY ClaimTypes DEF PruneDone, ClaimNone, workerVars
<1>2. /\ j1 \in Claim /\ j1.pc = "list"
      /\ j2 \in Claim /\ j2.pc = "answer" /\ j2.exec = k.exec
      /\ j3 \in Claim /\ j3.pc = "write"
      /\ j4 \in Claim /\ j4.pc = "lock"
  BY <1>1 DEF Claim
<1>3. \/ ClaimStep(w, c, j1) \/ ClaimStep(w, c, j3) \/ ClaimStep(w, c, j4)
      \/ ClaimStep(w, c, j2) /\ (k.pc = "lock" \/ k.back = "list")
  BY DEF PruneDone, ClaimNone
<1>4. k.pc = "lock" \/ (k.pc = "prune" /\ k.back = "list") => k.exec = NoExec
  BY DEF OwnershipInv, ClaimsHoldTheirLock, HoldsItsLock, HoldsCandidate
<1> HIDE DEF j1, j2, j3, j4
<1>5. ASSUME NEW j \in Claim, ClaimStep(w, c, j),
             j.pc \notin {"idle", "index", "answer"} \/ (j.pc = "answer" /\ j.exec = NoExec)
      PROVE  LiveInv'
  BY <1>1, <1>5, LiveClaimStep, QueueAssumption DEF Pending
<1> QED
  BY <1>1, <1>2, <1>3, <1>4, <1>5

\* What is claimed has never been reported.
LEMMA LiveWrite ==
    ASSUME TypeInv, OwnershipInv, LiveInv, NEW w \in Worker, NEW c \in ClaimCall, ClaimWrite(w, c)
    PROVE  LiveInv'
<1> DEFINE k == claim[w][c]
           j == [k EXCEPT !.pc = "index"]
<1>1. /\ k \in Claim /\ k.pc = "write" /\ ClaimStep(w, c, j) /\ UNCHANGED <<run, update>>
  BY ClaimTypes DEF ClaimWrite, workerVars
<1>2. j \in Claim /\ j.pc = "index" /\ j.exec = k.exec
  BY <1>1 DEF Claim
<1>3. k.exec \in Exec /\ record[k.exec].status = "QUEUED"
  BY <1>1 DEF OwnershipInv, ClaimsHoldTheirLock, HoldsItsLock, HoldsCandidate
<1>4. Owner(k.exec) = NoWorker
  BY <1>3, StatusFacts DEF Owner
<1>5. \A o \in Origin : update[k.exec][o].pc = "none"
  BY <1>3, <1>4, QueueAssumption DEF OwnershipInv, UpdatesAreReports
<1> HIDE DEF j
<1>6. \A x \in Worker, d \in ClaimCall :
          claim'[x][d] = IF x = w /\ d = c THEN j ELSE claim[x][d]
  BY <1>1, <1>2, ClaimStepChange DEF TypeInv
<1> HIDE DEF k
<1> QED
  BY <1>1, <1>2, <1>5, <1>6 DEF LiveInv, Pending, k

LEMMA LiveMark ==
    ASSUME TypeInv, LiveInv, NEW w \in Worker, NEW c \in ClaimCall, mark_running_execution(w, c)
    PROVE  LiveInv'
<1> DEFINE k == claim[w][c]
           j == [k EXCEPT !.pc = "answer"]
<1>1. /\ k \in Claim /\ k.pc = "index" /\ ClaimStep(w, c, j) /\ UNCHANGED <<run, update>>
  BY ClaimTypes DEF mark_running_execution, workerVars
<1>2. j \in Claim /\ j.pc = "answer" /\ j.exec = k.exec
  BY <1>1 DEF Claim
<1> HIDE DEF j
<1> QED
  BY <1>1, <1>2, LiveClaimStep DEF Pending

\* The answer ends the only claim of the worker and starts a run.
LEMMA LiveAnswer ==
    ASSUME NEW call, ClaimCall = {call}, TypeInv, LiveInv, NEW w \in Worker,
           NEW c \in ClaimCall, ClaimAnswer(w, c)
    PROVE  LiveInv'
<1> DEFINE e == claim[w][c].exec
<1>1. /\ claim[w][c].pc = "answer" /\ e \in Exec \cup {NoExec} /\ ClaimStep(w, c, NoClaim)
      /\ UNCHANGED update
  BY ClaimTypes DEF ClaimAnswer
<1>2. \A x \in Worker, d \in ClaimCall :
          claim'[x][d] = IF x = w /\ d = c THEN NoClaim ELSE claim[x][d]
  BY <1>1, NoClaimType, ClaimStepChange DEF TypeInv
<1>3. UNCHANGED run \/ (e # NoExec /\ run' = [run EXCEPT ![w][e] = "running"])
  BY DEF ClaimAnswer, workerVars
<1>4. \A x \in Worker, f \in Exec :
          run'[x][f] = run[x][f] \/ (x = w /\ f = e /\ run'[x][f] = "running")
  BY <1>1, <1>3, RunChange DEF TypeInv
<1>5. \A x \in Worker, d \in ClaimCall, f \in Exec :
          claim'[x][d].pc # "idle" => run'[x][f] = "none"
  BY <1>2, <1>4 DEF LiveInv, NoClaim
<1>6. e \in Exec => \A o \in Origin : update[e][o].pc = "none"
  BY <1>1 DEF LiveInv, Pending
<1> HIDE DEF e
<1>7. \A x \in Worker, f \in Exec, o \in Origin :
          update'[f][o].pc # "none" =>
              /\ run'[x][f] \notin Live
              /\ \A d \in ClaimCall : ~Pending(claim'[x][d], f)
  BY <1>1, <1>2, <1>4, <1>6 DEF LiveInv, Live, Pending, NoClaim
<1> QED
  BY <1>5, <1>7 DEF LiveInv

\* Only the worker that runs an execution, its owner, reports it.
LEMMA LiveFinish ==
    ASSUME TypeInv, OwnershipInv, LiveInv, NEW w \in Worker, NEW e \in Exec,
           NEW s \in FINAL_STATUSES, FinishExecution(w, e, s)
    PROVE  LiveInv'
<1> DEFINE u == [NoUpdate EXCEPT !.pc = "sent", !.by = w, !.status = s]
<1>1. /\ run[w][e] \in Live /\ claim' = claim
      /\ run' = [run EXCEPT ![w][e] = "reporting"]
      /\ update' = [update EXCEPT ![e]["finish"] = u]
  BY DEF FinishExecution, Live
<1>2. u \in Update
  BY NoUpdateType, StatusFacts DEF Update, NoUpdate, Status
<1> HIDE DEF u
<1>3. \A x \in Worker, f \in Exec :
          run'[x][f] = IF x = w /\ f = e THEN "reporting" ELSE run[x][f]
  BY RunChange DEF FinishExecution, TypeInv
<1>4. \A f \in Exec, o \in Origin :
          update'[f][o].pc # "none" => update[f][o].pc # "none" \/ f = e
  BY <1>1, <1>2, UpdateChange DEF TypeInv, Origin
<1>5. Owner(e) = w
  BY <1>1 DEF OwnershipInv, RunsOwnExecution, Live
<1>6. \A x \in Worker : run'[x][e] \notin Live
  BY <1>3, <1>5 DEF OwnershipInv, RunsOwnExecution, Live
<1>7. \A x \in Worker, c \in ClaimCall : ~Pending(claim[x][c], e)
  <2> SUFFICES ASSUME NEW x \in Worker, NEW c \in ClaimCall, Pending(claim[x][c], e)
               PROVE  FALSE
    OBVIOUS
  <2>1. Owner(e) = x
    BY QueueAssumption DEF Pending, OwnershipInv, ClaimsHoldTheirLock, HoldsItsLock
  <2>2. claim[w][c].pc # "idle"
    BY <1>5, <2>1 DEF Pending
  <2> QED
    BY <1>1, <2>2 DEF LiveInv, Live
<1> QED
  BY <1>1, <1>3, <1>4, <1>6, <1>7 DEF LiveInv, Live

LEMMA LiveUpdates ==
    ASSUME Patched = {}, TypeInv, LiveInv, NEW e \in Exec,
           \/ \E o \in Origin : UpdateStep(e, o)
           \/ \E s \in Status \cup {"unset"} : api_update_execution(e, s)
           \/ FinishLost(e)
    PROVE  LiveInv'
<1>1. ASSUME NEW o \in Origin, NEW u \in Update, update' = [update EXCEPT ![e][o] = u],
             u.pc # "none" => update[e][o].pc # "none", UNCHANGED <<claim, run>>
      PROVE  LiveInv'
  <2>1. \A f \in Exec, p \in Origin :
            update'[f][p] = IF f = e /\ p = o THEN u ELSE update[f][p]
    BY <1>1, UpdateChange DEF TypeInv
  <2> QED
    BY <1>1, <2>1, LiveKept
<1>2. NoUpdate \in Update /\ NoUpdate.pc = "none"
  BY NoUpdateType DEF NoUpdate
<1>3. ASSUME NEW o \in Origin, UpdateRead(e, o)
      PROVE  LiveInv'
  <2> DEFINE u == update[e][o]
             v(ws) == [u EXCEPT !.pc = "write", !.status = NewStatus(u, File(e)),
                                !.seen = [File(e) EXCEPT !.fits = ws]]
  <2>0. u \in Update
    BY DEF TypeInv, TypeOK
  <2>1. u \in Update /\ u.pc = "sent" /\ UNCHANGED <<claim, run>>
    BY <1>3, <2>0 DEF UpdateRead, workerVars
  <2>2. CASE update' = [update EXCEPT ![e][o] = NoUpdate]
    BY <1>1, <1>2, <2>1, <2>2
  <2>3. ASSUME File(e).status # "ABSENT", NEW ws \in SUBSET Worker,
               update' = [update EXCEPT ![e][o] = v(ws)]
        PROVE  LiveInv'
    <3>1. File(e) \in Record /\ File(e).status \in Status
      BY <2>3, NoUpdateType DEF File, TypeInv, TypeOK, Record
    <3>2. [File(e) EXCEPT !.fits = ws] \in Record
      BY <3>1 DEF Record
    <3>3. v(ws) \in Update
      BY <2>1, <3>1, <3>2 DEF Update, NewStatus
    <3> QED
      BY <1>1, <2>1, <2>3, <3>3
  <2>4. Merged(o, File(e)) \subseteq SUBSET Worker
    BY NoUpdateType DEF Merged, File, TypeInv, TypeOK, Record
  <2> QED
    BY <1>3, <2>2, <2>3, <2>4 DEF UpdateRead
<1>4. ASSUME NEW o \in Origin, UpdateWrite(e, o)
      PROVE  LiveInv'
  <2> DEFINE v == [update[e][o] EXCEPT !.pc = "index"]
  <2>1. /\ update[e][o] \in Update /\ update[e][o].pc = "write"
        /\ update' = [update EXCEPT ![e][o] = v] /\ UNCHANGED <<claim, run>>
    BY <1>4 DEF UpdateWrite, TypeInv, TypeOK, workerVars
  <2>2. v \in Update
    BY <2>1 DEF Update
  <2> QED
    BY <1>1, <2>1, <2>2
<1>5. ASSUME NEW o \in Origin, UpdateIndex(e, o)
      PROVE  LiveInv'
  BY <1>1, <1>2, <1>5 DEF UpdateIndex, workerVars
<1>6. CASE FinishLost(e)
  BY <1>1, <1>2, <1>6 DEF FinishLost, workerVars, Origin
<1> QED
  BY <1>3, <1>4, <1>5, <1>6 DEF UpdateStep, api_update_execution

LEMMA LiveNext ==
    ASSUME Patched = {}, IsFiniteSet(Exec), NEW call, ClaimCall = {call}, MaxConcurrency = 1,
           TypeInv, OwnershipInv, LiveInv, [Next]_vars
    PROVE  LiveInv'
<1>1. ASSUME NEW e \in Exec,
             \/ create_execution_record(e) \/ add_created_row(e) \/ delete_execution(e)
             \/ api_cancel_execution(e) \/ api_stop_execution(e)
             \/ server_recover_stuck_executions(e)
      PROVE  LiveInv'
  <2>1. UNCHANGED <<update, claim, run>>
    BY <1>1 DEF create_execution_record, add_created_row, delete_execution,
         api_cancel_execution, api_stop_execution, server_recover_stuck_executions,
         LockAndRead, WriteAndUnlock, workerVars
  <2> QED
    BY <2>1, LiveKept
<1>2. ASSUME NEW w \in Worker,
             \/ ClaimTimeout(w) \/ WorkerCrash(w)
             \/ \E e \in Exec : ObserveCanceling(w, e) \/ ReleaseSlot(w, e)
      PROVE  LiveInv'
  <2>1. UNCHANGED <<update, claim>>
    BY <1>2 DEF ClaimTimeout, WorkerCrash, ObserveCanceling, ReleaseSlot
  <2>2. \A x \in Worker, f \in Exec :
           /\ run'[x][f] # "none" => run[x][f] # "none"
           /\ run'[x][f] \in Live => run[x][f] \in Live
    <3>1. ASSUME NEW e \in Exec, ObserveCanceling(w, e) \/ ReleaseSlot(w, e),
                 NEW x \in Worker, NEW f \in Exec
          PROVE  /\ run'[x][f] # "none" => run[x][f] # "none"
                 /\ run'[x][f] \in Live => run[x][f] \in Live
      BY <3>1, RunChange DEF ObserveCanceling, ReleaseSlot, Live, TypeInv
    <3>2. CASE WorkerCrash(w)
      BY <3>2 DEF WorkerCrash, Live, TypeInv, TypeOK
    <3>3. CASE ClaimTimeout(w)
      BY <3>3 DEF ClaimTimeout
    <3> QED
      BY <1>2, <3>1, <3>2, <3>3
  <2> QED
    BY <2>1, <2>2, LiveKept
<1>3. CASE ServerRestart
  <2>1. /\ run' = run
        /\ \A e \in Exec, o \in Origin : update'[e][o] = NoUpdate
        /\ \A w \in Worker, c \in ClaimCall : claim'[w][c] = NoClaim
    BY <1>3 DEF ServerRestart
  <2> QED
    BY <2>1 DEF LiveInv, NoUpdate, NoClaim
<1>4. CASE ScanIntervalElapses \/ UNCHANGED vars
  <2>1. UNCHANGED <<update, claim, run>>
    BY <1>4 DEF ScanIntervalElapses, vars, workerVars
  <2> QED
    BY <2>1, LiveKept
<1> QED
  BY <1>1, <1>2, <1>3, <1>4, LiveUpdates, LiveFinish, LiveBegin, LivePrune, LiveGivesUp,
     LiveWrite, LiveMark, LiveAnswer
     DEF Next, ServerStep

\* A record becomes FAILED by its worker's report, by the timeout, or by pruning.
LEMMA WhoFails ==
    ASSUME Patched = {}, TypeInv, OwnershipInv, [Next]_vars, NEW e \in Exec,
           record[e].status # "FAILED", record'[e].status = "FAILED"
    PROVE  \/ lock[e] = Locker("expire") /\ lock'[e] = Free
           \/ \E o \in Origin : UpdateWrite(e, o)
           \/ \E w \in Worker, c \in ClaimCall : PruneFail(w, c) /\ claim[w][c].orphan = e
<1>1. ASSUME NEW f \in Exec, NEW r, record' = [record EXCEPT ![f] = r], f # e
      PROVE  FALSE
  BY <1>1 DEF TypeInv, TypeOK
<1>2. ASSUME NEW f \in Exec, NEW op \in ServerOp, NEW s \in Status, WriteAndUnlock(f, op, s)
      PROVE  f = e /\ s = "FAILED" /\ lock[e] = Locker(op) /\ lock'[e] = Free
  BY <1>1, <1>2 DEF WriteAndUnlock, TypeInv, TypeOK, Record
<1>3. ASSUME NEW f \in Exec,
             \/ api_cancel_execution(f) \/ api_stop_execution(f)
             \/ server_recover_stuck_executions(f)
      PROVE  lock[e] = Locker("expire") /\ lock'[e] = Free
  <2>1. ASSUME NEW op, NEW s, LockAndRead(f, op, s)
        PROVE  FALSE
    BY <2>1 DEF LockAndRead
  <2> QED
    BY <1>2, <1>3, <2>1
       DEF api_cancel_execution, api_stop_execution, server_recover_stuck_executions,
           ServerOp, Status
<1>4. ASSUME NEW f \in Exec,
             \/ add_created_row(f) \/ delete_execution(f) \/ FinishLost(f)
             \/ \E o \in Origin : UpdateRead(f, o) \/ UpdateIndex(f, o)
             \/ \E s \in Status \cup {"unset"} : api_update_execution(f, s)
      PROVE  FALSE
  BY <1>4 DEF add_created_row, delete_execution, FinishLost, UpdateRead, UpdateIndex,
              api_update_execution, fileVars
<1>5. ASSUME NEW f \in Exec, NEW o \in Origin, UpdateWrite(f, o)
      PROVE  f = e
  BY <1>1, <1>5 DEF UpdateWrite
<1>6. ASSUME NEW f \in Exec, create_execution_record(f)
      PROVE  FALSE
  <2>1. PICK r \in Posted : record' = [record EXCEPT ![f] = r]
    BY <1>6, QueueAssumption DEF create_execution_record
  <2>2. r.status # "FAILED"
    BY DEF Posted
  <2> QED
    BY <1>1, <2>1, <2>2 DEF TypeInv, TypeOK
<1>7. ASSUME NEW w \in Worker, NEW c \in ClaimCall, PruneFail(w, c)
      PROVE  claim[w][c].orphan = e
  <2>1. claim[w][c].orphan \in Exec
    BY <1>7 DEF PruneFail, OwnershipInv, PruningIsOwn, PrunesOwn
  <2> QED
    BY <1>1, <1>7, <2>1 DEF PruneFail
<1>8. ASSUME NEW w \in Worker, NEW c \in ClaimCall, ClaimWrite(w, c)
      PROVE  FALSE
  <2>1. claim[w][c].exec \in Exec
    BY <1>8 DEF ClaimWrite, OwnershipInv, ClaimsHoldTheirLock, HoldsItsLock, HoldsCandidate
  <2> QED
    BY <1>1, <1>8, <2>1, WithWorker DEF ClaimWrite, TypeInv, TypeOK
<1>9. ASSUME NEW w \in Worker, NEW c \in ClaimCall,
             \/ ClaimBegin(w, c) \/ PruneDone(w, c) \/ ClaimList(w, c) \/ ClaimNone(w, c)
             \/ mark_running_execution(w, c) \/ ClaimAnswer(w, c)
             \/ \E f \in Exec : PruneRow(w, c, f) \/ ClaimLock(w, c, f)
      PROVE  FALSE
  BY <1>9 DEF ClaimBegin, PruneDone, ClaimList, ClaimNone, mark_running_execution, ClaimAnswer,
              PruneRow, ClaimLock, fileVars
<1>10. ASSUME NEW w \in Worker,
              \/ ClaimTimeout(w) \/ WorkerCrash(w)
              \/ \E f \in Exec :
                    \/ ObserveCanceling(w, f) \/ ReleaseSlot(w, f)
                    \/ \E s \in FINAL_STATUSES : FinishExecution(w, f, s)
       PROVE  FALSE
  BY <1>10 DEF ClaimTimeout, WorkerCrash, ObserveCanceling, ReleaseSlot, FinishExecution, fileVars
<1>11. ~ServerRestart /\ ~ScanIntervalElapses /\ ~UNCHANGED vars
  BY DEF ScanIntervalElapses, ServerRestart, vars, fileVars
<1> QED
  BY <1>3, <1>4, <1>5, <1>6, <1>7, <1>8, <1>9, <1>10, <1>11 DEF Next, ServerStep, UpdateStep

\* A worker with one slot and one claim request at a time: only the 30-minute
\* timeout fails what it is running.  Pruning, which a claim of this worker does at
\* its limit, never meets a run, whatever is lost, crashes, times out or is deleted.
THEOREM LiveRunNotFailedHolds ==
    ASSUME Patched = {}, IsFiniteSet(Exec), NEW call, ClaimCall = {call}, MaxConcurrency = 1
    PROVE  Spec => LiveRunNotFailed
<1> DEFINE Step == \A w \in Worker, e \in Exec :
                      /\ run[w][e] \in {"running", "stopping"}
                      /\ record[e].status # "FAILED"
                      /\ record'[e].status = "FAILED"
                      => lock[e] = Locker("expire") /\ lock'[e] = Free
<1>1. Init => LiveInv
  BY DEF Init, LiveInv, NoClaim, NoUpdate
<1>2. TypeInv /\ OwnershipInv /\ LiveInv /\ [Next]_vars => LiveInv'
  BY LiveNext
<1>3. TypeInv /\ OwnershipInv /\ LiveInv /\ [Next]_vars => [Step]_vars
  <2> SUFFICES ASSUME TypeInv, OwnershipInv, LiveInv, [Next]_vars, NEW w \in Worker,
                      NEW e \in Exec, run[w][e] \in Live,
                      record[e].status # "FAILED", record'[e].status = "FAILED"
               PROVE  lock[e] = Locker("expire") /\ lock'[e] = Free
    BY DEF Live
  <2>1. ~ \E o \in Origin : UpdateWrite(e, o)
    BY DEF UpdateWrite, LiveInv
  <2>2. ASSUME NEW x \in Worker, NEW c \in ClaimCall, PruneFail(x, c), claim[x][c].orphan = e
        PROVE  FALSE
    <3>1. claim[x][c].pc = "fail"
      BY <2>2 DEF PruneFail
    <3>2. x = w
      BY <2>2, <3>1 DEF OwnershipInv, PruningIsOwn, PrunesOwn, RunsOwnExecution, Live
    <3> QED
      BY <3>1, <3>2 DEF LiveInv, Live
  <2> QED
    BY <2>1, <2>2, WhoFails
<1>4. Spec => []TypeInv
  BY TypeInit, TypeNext, PTL DEF Spec
<1>5. Spec => []OwnershipInv
  BY Ownership
<1> QED
  BY <1>1, <1>2, <1>3, <1>4, <1>5, PTL DEF Spec, LiveRunNotFailed

=============================================================================
