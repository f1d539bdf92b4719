---------------------- MODULE PlaybookSchedulerProofs ----------------------
(***************************************************************************)
(* Theorems about PlaybookScheduler for any number of instances and        *)
(* schedules, any cron expressions and any intervals: type correctness,    *)
(* that a lock file has one holder, and, for a single schedule, that two   *)
(* runs of its playbook keep their distance, that no fire is answered with *)
(* two of them, and that every fire is answered in time.                   *)
(***************************************************************************)
EXTENDS PlaybookScheduler, TLAPS, WellFoundedInduction

-----------------------------------------------------------------------------
(* Type correctness.                                                       *)

\* TypeOK needs to be strengthened by one fact: who deals with a lock file
\* deals with that of some schedule.
AtSchedule(rec) == rec.pc \in {"lock"} \cup Critical => rec.cur \in Schedule

TypeInv ==
    /\ TypeOK
    /\ \A p \in Scheduler : AtSchedule(proc[p])

LEMMA BecomeType ==
    ASSUME TypeOK, NEW p \in Scheduler, NEW rec \in Proc, Become(p, rec)
    PROVE  /\ proc' \in [Scheduler -> Proc]
           /\ \A q \in Scheduler : proc'[q] = IF q = p THEN rec ELSE proc[q]
  BY DEF Become, TypeOK

\* A step of one instance, and what it may change beside its record.
LEMMA BecomeTypeInv ==
    ASSUME TypeInv, NEW p \in Scheduler, NEW rec \in Proc, Become(p, rec), AtSchedule(rec),
           UNCHANGED <<now, enabled, crashes, ran, fire>>,
           lock' \subseteq Schedule, last' \in [Schedule -> Age]
    PROVE  TypeInv'
  BY BecomeType DEF TypeInv, TypeOK, AtSchedule

LEMMA Zeros ==
    ASSUME SchedulerAssumption
    PROVE  /\ 0 \in Age /\ MaxAge \in Age /\ 0 \in Time
           /\ 0 \in 0 .. CHECK_INTERVAL + Slack /\ CHECK_INTERVAL \in 0 .. CHECK_INTERVAL + Slack
           /\ 0 \in 0 .. STARTUP_GRACE_PERIOD
  BY DEF SchedulerAssumption, Age, Time

LEMMA DownType == ASSUME SchedulerAssumption PROVE Down \in Proc /\ AtSchedule(Down)
  BY Zeros DEF Down, Proc, Critical, Nothing, AtSchedule

LEMMA NextScheduleType ==
    ASSUME SchedulerAssumption, NEW rec \in Proc
    PROVE  NextSchedule(rec) \in Proc /\ AtSchedule(NextSchedule(rec))
<1>1. NextSchedule(rec) \in Proc
  BY Zeros DEF Proc, NextSchedule
<1>2. NextSchedule(rec).pc = "scan"
  BY DEF Proc, NextSchedule
<1> QED
  BY <1>1, <1>2 DEF AtSchedule, Critical

LEMMA OlderType ==
    ASSUME SchedulerAssumption, NEW a \in Age
    PROVE  Older(a) \in Age
  BY DEF SchedulerAssumption, Age, Older

\* Time passes only where the timer leaves room for it.
LEMMA OlderProcType ==
    ASSUME SchedulerAssumption, NEW rec \in Proc,
           \/ rec.pc = "down"
           \/ rec.timer < IF rec.pc = "sleep" THEN CHECK_INTERVAL ELSE Slack
    PROVE  /\ OlderProc(rec) \in Proc
           /\ OlderProc(rec).pc = rec.pc /\ OlderProc(rec).cur = rec.cur
<1>1. CASE rec.pc = "down"
  BY <1>1 DEF OlderProc
<1>2. CASE rec.pc # "down"
  <2>1. rec.timer + 1 \in 0 .. CHECK_INTERVAL + Slack
    BY <1>2 DEF SchedulerAssumption, Proc
  <2>2. (IF rec.up = STARTUP_GRACE_PERIOD THEN rec.up ELSE rec.up + 1) \in 0 .. STARTUP_GRACE_PERIOD
    BY DEF SchedulerAssumption, Proc
  <2>3. (IF rec.cur = NoSchedule THEN rec.ts ELSE Older(rec.ts)) \in Age
    BY OlderType DEF Proc
  <2>4. OlderAll(rec.mem) \in [Schedule -> Age]
    BY OlderType DEF Proc, OlderAll
  <2> QED
    BY <1>2, <2>1, <2>2, <2>3, <2>4 DEF OlderProc, Proc
<1> QED
  BY <1>1, <1>2

LEMMA InitType == ASSUME SchedulerAssumption, Init PROVE TypeInv
  BY DownType, Zeros DEF Init, TypeInv, TypeOK, SchedulerAssumption, Nothing

\* The steps under the lock file, and its creation.
LEMMA RunStepType ==
    ASSUME SchedulerAssumption, TypeInv, NEW p \in Scheduler, RunStep(p)
    PROVE  TypeInv'
<1> DEFINE s == proc[p].cur
<1>0. proc[p] \in Proc /\ lock \subseteq Schedule /\ last \in [Schedule -> Age]
  BY DEF TypeInv, TypeOK
<1>1. NextSchedule(proc[p]) \in Proc /\ AtSchedule(NextSchedule(proc[p]))
  BY <1>0, NextScheduleType
<1>2. proc[p].pc \in {"lock"} \cup Critical => s \in Schedule
  BY DEF TypeInv, AtSchedule
<1>3. ASSUME NEW pc \in Critical
      PROVE  /\ [proc[p] EXCEPT !.pc = pc] \in Proc
             /\ s \in Schedule => AtSchedule([proc[p] EXCEPT !.pc = pc])
  BY <1>0 DEF Proc, AtSchedule
<1>4. Nothing \in [Schedule -> Age]
  BY Zeros DEF Nothing
<1>5. CASE CreateLockFile(p)
  <2>1. lock' \subseteq Schedule
    BY <1>0, <1>2, <1>5 DEF CreateLockFile
  <2>2. CASE s \in lock
    BY <1>0, <1>1, <1>5, <2>1, <2>2, BecomeTypeInv DEF CreateLockFile
  <2>3. CASE s \notin lock
    <3>1. "load" \in Critical
      BY DEF Critical
    <3> QED
      BY <1>0, <1>2, <1>3, <1>5, <2>1, <2>3, <3>1, BecomeTypeInv DEF CreateLockFile
  <2> QED
    BY <2>2, <2>3
<1>6. CASE _load_last_execution(p)
  <2> DEFINE ok == LongEnough(last[s], proc[p].ts, IntervalAfter(s, now))
             pc == IF ok THEN "truncate" ELSE "unlock"
             mem == IF ok THEN [last EXCEPT ![s] = proc[p].ts] ELSE last
             rec == [proc[p] EXCEPT !.pc = pc, !.mem = mem]
  <2>1. s \in Schedule /\ pc \in Critical
    BY <1>2, <1>6 DEF _load_last_execution, Critical
  <2>2. mem \in [Schedule -> Age]
    BY <1>0, <2>1 DEF Proc
  <2> HIDE DEF pc, mem
  <2>3. rec \in Proc /\ AtSchedule(rec)
    BY <1>0, <2>1, <2>2 DEF Proc, AtSchedule
  <2>4. Become(p, rec) /\ UNCHANGED <<now, enabled, lock, last, crashes, ran, fire>>
    BY <1>6 DEF _load_last_execution, pc, mem
  <2> QED
    BY <1>0, <2>3, <2>4, BecomeTypeInv
<1>7. CASE Truncate(p)
  <2>1. "save" \in Critical /\ s \in Schedule
    BY <1>2, <1>7 DEF Truncate, Critical
  <2> QED
    BY <1>0, <1>3, <1>4, <1>7, <2>1, BecomeTypeInv DEF Truncate
<1>8. CASE _save_last_execution(p)
  <2>1. "call" \in Critical /\ s \in Schedule
    BY <1>2, <1>8 DEF _save_last_execution, Critical
  <2>2. proc[p].mem \in [Schedule -> Age]
    BY <1>0 DEF Proc
  <2> QED
    BY <1>0, <1>3, <1>8, <2>1, <2>2, BecomeTypeInv DEF _save_last_execution
<1>9. CASE api_run_playbook(p)
  <2>1. "unlock" \in Critical /\ s \in Schedule
    BY <1>2, <1>9 DEF api_run_playbook, Critical
  <2>2. proc[p].ts \in Age
    BY <1>0 DEF Proc
  <2>3. [proc[p] EXCEPT !.pc = "unlock"] \in Proc /\ AtSchedule([proc[p] EXCEPT !.pc = "unlock"])
    BY <1>3, <2>1
  <2> QED
    BY <1>9, <2>2, <2>3, BecomeType DEF api_run_playbook, TypeInv, TypeOK, AtSchedule
<1>10. CASE Unlink(p)
  <2>1. lock' \subseteq Schedule
    BY <1>0, <1>10 DEF Unlink
  <2> QED
    BY <1>0, <1>1, <1>10, <2>1, BecomeTypeInv DEF Unlink
<1> QED
  BY <1>5, <1>6, <1>7, <1>8, <1>9, <1>10 DEF RunStep

LEMMA TickType ==
    ASSUME SchedulerAssumption, TypeInv, Tick
    PROVE  TypeInv'
<1>1. now' \in Time
  BY DEF Tick, TypeInv, TypeOK, Time, SchedulerAssumption
<1>2. last' \in [Schedule -> Age] /\ ran' \in [Schedule -> Age]
  BY OlderType DEF Tick, TypeInv, TypeOK, OlderAll
<1>3. ASSUME NEW p \in Scheduler
      PROVE  /\ OlderProc(proc[p]) \in Proc
             /\ AtSchedule(OlderProc(proc[p]))
  <2>1. proc[p] \in Proc /\ OnTime(p)
    BY DEF Tick, TypeInv, TypeOK
  <2> QED
    BY <2>1, OlderProcType DEF OnTime, TypeInv, AtSchedule
<1>4. proc' = [p \in Scheduler |-> OlderProc(proc[p])]
  BY DEF Tick
<1>5. proc' \in [Scheduler -> Proc] /\ \A p \in Scheduler : AtSchedule(proc'[p])
  BY <1>3, <1>4
<1>6. fire' \in [Schedule -> {"open", "served", "twice", "excused"}]
  BY DEF Tick, TypeInv, TypeOK
<1>7. UNCHANGED <<enabled, lock, crashes>>
  BY DEF Tick
<1> QED
  BY <1>1, <1>2, <1>5, <1>6, <1>7 DEF TypeInv, TypeOK, AtSchedule

LEMMA StepType ==
    ASSUME SchedulerAssumption, TypeInv, [Next]_vars
    PROVE  TypeInv'
<1>0. /\ last \in [Schedule -> Age] /\ lock \subseteq Schedule /\ now \in Time
      /\ \A p \in Scheduler : proc[p] \in Proc
  BY DEF TypeInv, TypeOK
<1>1. ASSUME NEW s \in Schedule, api_save_playbook_schedule(s)
      PROVE  TypeInv'
  BY <1>1 DEF TypeInv, TypeOK, api_save_playbook_schedule, AtSchedule
<1>2. ASSUME NEW s \in Schedule, api_delete_playbook_schedule(s)
      PROVE  TypeInv'
  BY <1>2 DEF TypeInv, TypeOK, api_delete_playbook_schedule, Excuse, AtSchedule
<1>3. ASSUME NEW p \in Scheduler, start(p)
      PROVE  TypeInv'
  <2> DEFINE rec == [Down EXCEPT !.pc = "sleep", !.timer = CHECK_INTERVAL, !.mem = last]
  <2>1. rec \in Proc /\ rec.pc = "sleep"
    BY <1>0, DownType, Zeros DEF Proc, Down
  <2>2. AtSchedule(rec)
    BY <2>1 DEF AtSchedule, Critical
  <2>3. Become(p, rec) /\ UNCHANGED <<now, enabled, lock, last, crashes, ran, fire>>
    BY <1>3 DEF start
  <2> HIDE DEF rec
  <2> QED
    BY <1>0, <2>1, <2>2, <2>3, BecomeTypeInv
<1>4. ASSUME NEW p \in Scheduler, _check_and_run_schedules(p)
      PROVE  TypeInv'
  <2> DEFINE todo == {s \in Schedule : enabled[s]}
             rec == [proc[p] EXCEPT !.pc = "scan", !.timer = 0, !.at = now, !.todo = todo]
  <2>0. todo \in SUBSET Schedule
    OBVIOUS
  <2>1. Become(p, rec) /\ UNCHANGED <<now, enabled, lock, last, crashes, ran, fire>>
    BY <1>4 DEF _check_and_run_schedules
  <2> HIDE DEF todo
  <2>2. rec \in Proc /\ rec.pc = "scan"
    BY <1>0, <2>0, Zeros DEF Proc
  <2>3. AtSchedule(rec)
    BY <2>2 DEF AtSchedule, Critical
  <2> HIDE DEF rec
  <2> QED
    BY <1>0, <2>1, <2>2, <2>3, BecomeTypeInv
<1>5. ASSUME NEW p \in Scheduler, NEW s \in Schedule, Consider(p, s)
      PROVE  TypeInv'
  <2> DEFINE rest == [proc[p] EXCEPT !.todo = @ \ {s}]
             rec == [rest EXCEPT !.pc = "lock", !.cur = s, !.ts = 0]
  <2>1. rest \in Proc /\ rest.pc = proc[p].pc
    BY <1>0 DEF Proc
  <2>2. proc[p].pc = "scan" /\ (Become(p, rest) \/ Become(p, rec))
        /\ UNCHANGED <<now, enabled, lock, last, crashes, ran, fire>>
    BY <1>5 DEF Consider
  <2> HIDE DEF rest
  <2>3. rec \in Proc /\ rec.cur = s
    BY <2>1, Zeros DEF Proc
  <2>4. AtSchedule(rest) /\ AtSchedule(rec)
    BY <2>1, <2>2, <2>3 DEF AtSchedule, Critical
  <2> HIDE DEF rec
  <2> QED
    BY <1>0, <2>1, <2>2, <2>3, <2>4, BecomeTypeInv
<1>6. ASSUME NEW p \in Scheduler, EndOfPass(p)
      PROVE  TypeInv'
  <2> DEFINE rec == [proc[p] EXCEPT !.pc = "sleep", !.timer = 0, !.at = 0]
  <2>1. rec \in Proc /\ rec.pc = "sleep"
    BY <1>0, Zeros DEF Proc
  <2>2. AtSchedule(rec)
    BY <2>1 DEF AtSchedule, Critical
  <2>3. Become(p, rec) /\ UNCHANGED <<now, enabled, lock, last, crashes, ran, fire>>
    BY <1>6 DEF EndOfPass
  <2> HIDE DEF rec
  <2> QED
    BY <1>0, <2>1, <2>2, <2>3, BecomeTypeInv
<1>7. ASSUME NEW p \in Scheduler, Crash(p)
      PROVE  TypeInv'
  <2>1. crashes' \in 0 .. MaxCrashes
    BY <1>7 DEF Crash, TypeInv, TypeOK, SchedulerAssumption
  <2>2. fire' \in [Schedule -> {"open", "served", "twice", "excused"}]
    BY <1>7 DEF Crash, TypeInv, TypeOK, Excuse
  <2>3. proc' \in [Scheduler -> Proc] /\ \A q \in Scheduler : AtSchedule(proc'[q])
    BY <1>7, DownType, BecomeType DEF Crash, TypeInv
  <2> QED
    BY <1>0, <1>7, <2>1, <2>2, <2>3 DEF Crash, TypeInv, TypeOK, AtSchedule
<1>8. CASE UNCHANGED vars
  BY <1>8 DEF TypeInv, TypeOK, vars, AtSchedule
<1> QED
  BY <1>1, <1>2, <1>3, <1>4, <1>5, <1>6, <1>7, <1>8, RunStepType, TickType DEF Next, PassStep

\* The variables keep their types: ages do not grow beyond MaxAge, timers not
\* beyond a pass or a sleep, and lock files are those of schedules
\* (playbook_scheduler.py).
THEOREM TypeCorrect == Spec => []TypeOK
<1>1. Init => TypeInv
  BY SchedulerAssumption, InitType
<1>2. TypeInv /\ [Next]_vars => TypeInv'
  BY SchedulerAssumption, StepType
<1>3. TypeInv => TypeOK
  BY DEF TypeInv
<1> QED
  BY <1>1, <1>2, <1>3, PTL DEF Spec

-----------------------------------------------------------------------------
(* The lock file.                                                          *)

\* A step of one instance leaves the others where they are.
LEMMA BecomeHolds ==
    ASSUME TypeOK, NEW p \in Scheduler, NEW rec \in Proc, Become(p, rec)
    PROVE  \A q \in Scheduler, s \in Schedule :
              Holds(q, s)' <=> IF q = p THEN rec.pc \in Critical /\ rec.cur = s ELSE Holds(q, s)
  BY BecomeType DEF Holds

\* What a step of the run may do to the lock file and its holder.
LEMMA RunStepHolds ==
    ASSUME SchedulerAssumption, TypeInv, NEW p \in Scheduler, RunStep(p), NEW s \in Schedule
    PROVE  /\ \A q \in Scheduler \ {p} : Holds(q, s)' <=> Holds(q, s)
           /\ \/ /\ Holds(p, s)' <=> Holds(p, s)
                 /\ s \in lock' <=> s \in lock
              \/ s \notin lock /\ s \in lock' /\ CreateLockFile(p) /\ proc[p].cur = s
              \/ Holds(p, s) /\ ~Holds(p, s)' /\ s \notin lock' /\ Unlink(p)
<1>0. proc[p] \in Proc
  BY DEF TypeInv, TypeOK
<1>1. NextSchedule(proc[p]) \in Proc /\ NextSchedule(proc[p]).pc \notin Critical
  <2>1. NextSchedule(proc[p]).pc = "scan"
    BY <1>0 DEF NextSchedule, Proc
  <2> QED
    BY <1>0, <2>1, NextScheduleType DEF Critical
<1>2. ASSUME NEW pc \in Critical
      PROVE  /\ [proc[p] EXCEPT !.pc = pc] \in Proc
             /\ [proc[p] EXCEPT !.pc = pc].pc \in Critical
             /\ [proc[p] EXCEPT !.pc = pc].cur = proc[p].cur
  BY <1>0 DEF Proc
<1>3. CASE CreateLockFile(p)
  <2>1. CASE proc[p].cur \in lock
    BY <1>1, <1>3, <2>1, BecomeHolds DEF CreateLockFile, TypeInv, Holds, Critical
  <2>2. CASE proc[p].cur \notin lock
    <3>1. "load" \in Critical
      BY DEF Critical
    <3>2. CASE proc[p].cur = s
      BY <1>2, <1>3, <2>2, <3>1, <3>2, BecomeHolds DEF CreateLockFile, TypeInv
    <3>3. CASE proc[p].cur # s
      <4>1. Become(p, [proc[p] EXCEPT !.pc = "load"]) /\ lock' = lock \cup {proc[p].cur}
        BY <1>3, <2>2 DEF CreateLockFile
      <4>2. \A q \in Scheduler : Holds(q, s)' <=> IF q = p THEN FALSE ELSE Holds(q, s)
        <5> DEFINE rec == [proc[p] EXCEPT !.pc = "load"]
        <5>1. rec \in Proc /\ rec.cur # s
          BY <1>2, <3>1, <3>3
        <5>2. Become(p, rec)
          BY <4>1
        <5> HIDE DEF rec
        <5> QED
          BY <5>1, <5>2, BecomeHolds DEF TypeInv
      <4>3. ~Holds(p, s)
        BY <3>3 DEF Holds
      <4> QED
        BY <3>3, <4>1, <4>2, <4>3
    <3> QED
      BY <3>2, <3>3
  <2> QED
    BY <2>1, <2>2
<1>4. CASE Unlink(p)
  BY <1>1, <1>4, BecomeHolds DEF Unlink, TypeInv, Holds, Critical
<1>5. CASE _load_last_execution(p) \/ Truncate(p) \/ _save_last_execution(p) \/ api_run_playbook(p)
  <2>1. PICK rec \in Proc : Become(p, rec) /\ rec.pc \in Critical /\ rec.cur = proc[p].cur
    <3>1. CASE _load_last_execution(p)
      <4> DEFINE ok == LongEnough(last[proc[p].cur], proc[p].ts, IntervalAfter(proc[p].cur, now))
                 pc == IF ok THEN "truncate" ELSE "unlock"
                 mem == IF ok THEN [last EXCEPT ![proc[p].cur] = proc[p].ts] ELSE last
                 rec == [proc[p] EXCEPT !.pc = pc, !.mem = mem]
      <4>1. pc \in Critical
        BY DEF Critical
      <4>2. mem \in [Schedule -> Age]
        BY <1>0 DEF TypeInv, TypeOK, Proc
      <4>3. Become(p, rec)
        BY <3>1 DEF _load_last_execution
      <4> HIDE DEF pc, mem
      <4>4. rec \in Proc /\ rec.pc \in Critical /\ rec.cur = proc[p].cur
        BY <1>0, <4>1, <4>2 DEF Proc
      <4> QED
        BY <4>3, <4>4
    <3>2. CASE Truncate(p)
      <4>1. "save" \in Critical
        BY DEF Critical
      <4> QED
        BY <1>2, <3>2, <4>1 DEF Truncate
    <3>3. CASE _save_last_execution(p)
      <4>1. "call" \in Critical
        BY DEF Critical
      <4> QED
        BY <1>2, <3>3, <4>1 DEF _save_last_execution
    <3>4. CASE api_run_playbook(p)
      <4>1. "unlock" \in Critical
        BY DEF Critical
      <4> QED
        BY <1>2, <3>4, <4>1 DEF api_run_playbook
    <3> QED
      BY <1>5, <3>1, <3>2, <3>3, <3>4
  <2>2. proc[p].pc \in Critical /\ lock' = lock
    BY <1>5 DEF _load_last_execution, Truncate, _save_last_execution, api_run_playbook, Critical
  <2> QED
    BY <2>1, <2>2, BecomeHolds DEF TypeInv, Holds
<1> QED
  BY <1>3, <1>4, <1>5 DEF RunStep

\* No other step touches a lock file or brings an instance to one, and but for
\* time the files and who holds a lock file stay as they are.
LEMMA OtherStep ==
    ASSUME SchedulerAssumption, TypeInv, [Next]_vars, ~ \E p \in Scheduler : RunStep(p)
    PROVE  /\ lock' = lock
           /\ \/ Tick
              \/ /\ UNCHANGED <<last, ran>>
                 /\ \A q \in Scheduler : proc'[q].pc \in Critical => proc'[q] = proc[q]
<1>0. \A p \in Scheduler : proc[p] \in Proc
  BY DEF TypeInv, TypeOK
<1>1. ASSUME NEW s \in Schedule, api_save_playbook_schedule(s) \/ api_delete_playbook_schedule(s)
      PROVE  UNCHANGED <<lock, proc, last, ran>>
  BY <1>1 DEF api_save_playbook_schedule, api_delete_playbook_schedule
<1>2. ASSUME NEW p \in Scheduler, start(p) \/ PassStep(p) \/ Crash(p)
      PROVE  /\ UNCHANGED <<lock, last, ran>>
             /\ proc' = [proc EXCEPT ![p] = proc'[p]] /\ proc'[p].pc \notin Critical
  <2>1. CASE start(p)
    BY <1>0, <2>1, DownType DEF start, Become, TypeInv, TypeOK, Proc, Critical
  <2>2. CASE _check_and_run_schedules(p)
    BY <1>0, <2>2 DEF _check_and_run_schedules, Become, TypeInv, TypeOK, Proc, Critical
  <2>3. ASSUME NEW s \in Schedule, Consider(p, s)
        PROVE  /\ UNCHANGED <<lock, last, ran>>
               /\ proc' = [proc EXCEPT ![p] = proc'[p]] /\ proc'[p].pc \notin Critical
    <3> DEFINE rest == [proc[p] EXCEPT !.todo = @ \ {s}]
               rec == [rest EXCEPT !.pc = "lock", !.cur = s, !.ts = 0]
    <3>1. rest.pc = "scan" /\ rec.pc = "lock"
      BY <1>0, <2>3 DEF Consider, Proc
    <3>2. UNCHANGED <<lock, last, ran>> /\ (Become(p, rest) \/ Become(p, rec))
      BY <2>3 DEF Consider
    <3> HIDE DEF rest, rec
    <3> QED
      BY <3>1, <3>2 DEF Become, TypeInv, TypeOK, Critical
  <2>4. CASE EndOfPass(p)
    BY <1>0, <2>4 DEF EndOfPass, Become, TypeInv, TypeOK, Proc, Critical
  <2>5. CASE Crash(p)
    BY <2>5 DEF Crash, Become, TypeInv, TypeOK, Down, Critical
  <2> QED
    BY <1>2, <2>1, <2>2, <2>3, <2>4, <2>5 DEF PassStep
<1>3. CASE Tick
  BY <1>3 DEF Tick
<1>4. ASSUME NEW p \in Scheduler, start(p) \/ PassStep(p) \/ Crash(p)
      PROVE  /\ UNCHANGED <<lock, last, ran>>
             /\ \A q \in Scheduler : proc'[q].pc \in Critical => proc'[q] = proc[q]
  <2>1. /\ UNCHANGED <<lock, last, ran>>
        /\ proc' = [proc EXCEPT ![p] = proc'[p]] /\ proc'[p].pc \notin Critical
    BY <1>2, <1>4
  <2> QED
    BY <2>1 DEF TypeInv, TypeOK
<1> QED
  BY <1>1, <1>3, <1>4 DEF Next, vars

LEMMA TickProc ==
    ASSUME SchedulerAssumption, TypeInv, Tick, NEW p \in Scheduler
    PROVE  /\ proc'[p] = OlderProc(proc[p])
           /\ proc'[p].pc = proc[p].pc /\ proc'[p].cur = proc[p].cur
<1>1. proc' = [q \in Scheduler |-> OlderProc(proc[q])] /\ OnTime(p) /\ proc[p] \in Proc
  BY DEF Tick, TypeInv, TypeOK
<1> QED
  BY <1>1, OlderProcType DEF OnTime

LEMMA OtherStepHolds ==
    ASSUME SchedulerAssumption, TypeInv, [Next]_vars, ~ \E p \in Scheduler : RunStep(p)
    PROVE  /\ lock' = lock
           /\ \A q \in Scheduler, s \in Schedule : Holds(q, s)' => Holds(q, s)
  BY OtherStep, TickProc DEF Holds

\* At any time a lock file has one holder at most, and a holder a lock file,
\* whichever instances crash or are started.
LEMMA StepHolder ==
    ASSUME SchedulerAssumption, TypeInv, OneHolder, [Next]_vars
    PROVE  OneHolder'
<1>1. ASSUME NEW p \in Scheduler, RunStep(p), NEW s \in Schedule
      PROVE  /\ \A q, r \in Scheduler : Holds(q, s)' /\ Holds(r, s)' => q = r
             /\ (\E q \in Scheduler : Holds(q, s)') => s \in lock'
  BY <1>1, RunStepHolds DEF OneHolder
<1>2. CASE ~ \E p \in Scheduler : RunStep(p)
  BY <1>2, OtherStepHolds DEF OneHolder
<1> QED
  BY <1>1, <1>2 DEF OneHolder

\* No two instances work under the lock file of one schedule (O_CREAT with
\* O_EXCL, playbook_scheduler.py 374-400), and the file is there until its
\* holder unlinks it.
THEOREM LockIsExclusive == Spec => []OneHolder
<1>1. Init => TypeInv /\ OneHolder
  BY SchedulerAssumption, InitType DEF Init, OneHolder, Holds, Down, Critical
<1>2. TypeInv /\ OneHolder /\ [Next]_vars => TypeInv' /\ OneHolder'
  BY SchedulerAssumption, StepType, StepHolder
<1> QED
  BY <1>1, <1>2, PTL DEF Spec

-----------------------------------------------------------------------------
(* The distance between two runs, for one schedule.  With more of them     *)
(* whoever saves the shared file may write back an old entry of another.   *)

\* The fires of a schedule have a distance: a least element exists.
LEMMA LeastExists ==
    ASSUME NEW S, S \subseteq Nat, S # {}
    PROVE  Least(S) \in S /\ \A e \in S : Least(S) <= e
<1> DEFINE R == OpToRel(<, Nat)
<1>1. IsWellFoundedOn(R, Nat)
  BY NatLessThanWellFounded
<1>2. \A x, y \in Nat : <<y, x>> \in R <=> y < x
  BY DEF OpToRel
<1> HIDE DEF R
<1>3. PICK d \in S : \A e \in S : ~ (<<e, d>> \in R)
  BY <1>1, WFMin
<1>4. ASSUME NEW e \in S
      PROVE  d <= e
  <2>1. d \in Nat /\ e \in Nat
    OBVIOUS
  <2>2. ~(e < d)
    BY <1>2, <1>3, <2>1
  <2> QED
    BY <2>1, <2>2
<1> QED
  BY <1>4 DEF Least

LEMMA IntervalType ==
    ASSUME SchedulerAssumption, NEW s \in Schedule, NEW t \in Time
    PROVE  IntervalAfter(s, t) \in Nat
<1> DEFINE Ahead == {d \in 1 .. Period : FiresAt(s, t + d)}
           Behind == {d \in 1 .. Period : FiresAt(s, t - d)}
<1>1. PICK f \in Time : f \in Fires[s]
  BY DEF SchedulerAssumption
<1>2. Ahead # {}
  <2> DEFINE d == IF f > t THEN f - t ELSE f - t + Period
  <2>1. d \in 1 .. Period /\ (t + d) % Period = f
    BY DEF SchedulerAssumption, Time
  <2> QED
    BY <1>1, <2>1 DEF FiresAt
<1>3. Behind # {}
  <2> DEFINE d == IF f < t THEN t - f ELSE t - f + Period
  <2>1. d \in 1 .. Period /\ (t - d) % Period = f
    BY DEF SchedulerAssumption, Time
  <2> QED
    BY <1>1, <2>1 DEF FiresAt
<1>4. Ahead \subseteq Nat /\ Behind \subseteq Nat
  OBVIOUS
<1>5. After(s, t) \in Nat /\ Since(s, t) \in Nat
  BY <1>2, <1>3, <1>4, LeastExists DEF After, Since
<1> QED
  BY <1>5 DEF IntervalAfter

\* What is long enough for an entry is long enough for an older one, and stays so.
LEMMA LongEnoughMonotone ==
    ASSUME SchedulerAssumption, NEW a \in Age, NEW b \in Age, a <= b, NEW ts \in Age,
           NEW gap \in Nat, LongEnough(a, ts, gap)
    PROVE  LongEnough(b, ts, gap)
  BY DEF LongEnough, Age, SchedulerAssumption

LEMMA LongEnoughOlder ==
    ASSUME SchedulerAssumption, NEW a \in Age, NEW ts \in Age,
           NEW gap \in Nat, LongEnough(a, ts, gap)
    PROVE  LongEnough(Older(a), Older(ts), gap)
  BY DEF LongEnough, Age, SchedulerAssumption, Older

LEMMA OlderMonotone ==
    ASSUME SchedulerAssumption, NEW a \in Age, NEW b \in Age, a <= b
    PROVE  Older(a) <= Older(b)
  BY DEF Age, SchedulerAssumption, Older

Spaced(s, age, ts) == \E t \in Time : LongEnough(age, ts, IntervalAfter(s, t))

\* The file is at least as recent as the last run, except while the holder of
\* the lock file replaces it; then the holder knows the entry, and has found it
\* old enough.
Agrees(rec, s, entry, age) ==
    /\ rec.pc \in {"load", "unlock"} => entry <= age
    /\ rec.pc \in {"truncate", "save"} => rec.mem[s] = rec.ts
    /\ rec.pc = "call" => entry = rec.ts
    /\ rec.pc \in {"truncate", "save", "call"} => Spaced(s, age, rec.ts)

SpacingInv ==
    \A s \in Schedule :
        /\ s \notin lock => last[s] <= ran[s]
        /\ \A p \in Scheduler : Holds(p, s) => Agrees(proc[p], s, last[s], ran[s])

OneSchedule == \A s, u \in Schedule : s = u

LEMMA RunStepSpacing ==
    ASSUME SchedulerAssumption, TypeInv, OneHolder, SpacingInv, OneSchedule,
           NEW p \in Scheduler, RunStep(p), NEW s \in Schedule
    PROVE  /\ s \notin lock' => last'[s] <= ran'[s]
           /\ \A q \in Scheduler : Holds(q, s)' => Agrees(proc'[q], s, last'[s], ran'[s])
<1>0. proc[p] \in Proc /\ last[s] \in Age /\ ran[s] \in Age /\ now \in Time
      /\ last \in [Schedule -> Age]
  BY DEF TypeInv, TypeOK
<1>1. proc[p].cur = s
  BY DEF RunStep, CreateLockFile, _load_last_execution, Truncate, _save_last_execution,
         api_run_playbook, Unlink, TypeInv, AtSchedule, Critical, OneSchedule
<1>2. ASSUME NEW q \in Scheduler, q # p
      PROVE  proc'[q] = proc[q] /\ (Holds(q, s)' <=> Holds(q, s))
  BY <1>2 DEF RunStep, CreateLockFile, _load_last_execution, Truncate, _save_last_execution,
              api_run_playbook, Unlink, TypeInv, TypeOK, Become, Holds
<1>3. CASE CreateLockFile(p) /\ s \in lock
  <2>1. UNCHANGED <<lock, last, ran>> /\ proc' = [proc EXCEPT ![p] = NextSchedule(proc[p])]
    BY <1>1, <1>3 DEF CreateLockFile, Become
  <2>2. ~ Holds(p, s)'
    BY <1>0, <2>1, NextScheduleType DEF Holds, TypeInv, TypeOK, NextSchedule, Proc, Critical
  <2> QED
    BY <1>2, <2>1, <2>2 DEF SpacingInv
<1>4. CASE CreateLockFile(p) /\ s \notin lock
  <2>1. UNCHANGED <<last, ran>> /\ s \in lock' /\ proc'[p].pc = "load"
    BY <1>0, <1>1, <1>4 DEF CreateLockFile, Become, TypeInv, TypeOK, Proc
  <2>2. \A q \in Scheduler : q # p => ~ Holds(q, s)
    BY <1>4 DEF OneHolder
  <2>3. Agrees(proc'[p], s, last'[s], ran'[s])
    BY <1>4, <2>1 DEF SpacingInv, Agrees
  <2> QED
    BY <1>2, <2>1, <2>2, <2>3
<1>5. CASE proc[p].pc \in Critical
  <2>1. Holds(p, s)
    BY <1>1, <1>5 DEF Holds
  <2>2. \A q \in Scheduler : Holds(q, s)' => q = p
    BY <1>2, <2>1 DEF OneHolder
  <2>3. s \in lock
    BY <2>1 DEF OneHolder
  <2>4. Agrees(proc[p], s, last[s], ran[s])
    BY <2>1 DEF SpacingInv
  <2>5. CASE _load_last_execution(p)
    <3> DEFINE gap == IntervalAfter(s, now)
               ok == LongEnough(last[s], proc[p].ts, gap)
               mem == [last EXCEPT ![s] = proc[p].ts]
    <3>1. UNCHANGED <<lock, last, ran>> /\ proc[p].pc = "load"
      BY <2>5 DEF _load_last_execution
    <3>2. last[s] <= ran[s]
      BY <2>4, <3>1 DEF Agrees
    <3>3. CASE ok
      <4>1. proc' = [proc EXCEPT ![p] = [proc[p] EXCEPT !.pc = "truncate", !.mem = mem]]
        BY <1>1, <2>5, <3>3 DEF _load_last_execution, Become
      <4>2. mem[s] = proc[p].ts
        BY <1>0
      <4> HIDE DEF mem
      <4>3. proc'[p].pc = "truncate" /\ proc'[p].mem[s] = proc[p].ts /\ proc'[p].ts = proc[p].ts
        BY <1>0, <4>1, <4>2 DEF TypeInv, TypeOK, Proc
      <4>4. gap \in Nat /\ proc[p].ts \in Age
        BY <1>0, IntervalType DEF Proc
      <4>5. Spaced(s, ran[s], proc[p].ts)
        BY <1>0, <3>2, <3>3, <4>4, LongEnoughMonotone DEF Spaced
      <4> QED
        BY <2>2, <2>3, <3>1, <4>3, <4>5 DEF Agrees
    <3>4. CASE ~ok
      <4>1. proc' = [proc EXCEPT ![p] = [proc[p] EXCEPT !.pc = "unlock", !.mem = last]]
        BY <1>1, <2>5, <3>4 DEF _load_last_execution, Become
      <4>2. proc'[p].pc = "unlock"
        BY <1>0, <4>1 DEF TypeInv, TypeOK, Proc
      <4> QED
        BY <2>2, <2>3, <3>1, <3>2, <4>2 DEF Agrees
    <3> QED
      BY <3>3, <3>4
  <2>6. CASE Truncate(p)
    <3>1. UNCHANGED <<lock, ran>> /\ proc[p].pc = "truncate" /\ proc'[p].pc = "save"
          /\ proc'[p].mem = proc[p].mem /\ proc'[p].ts = proc[p].ts
      BY <1>0, <2>6 DEF Truncate, Become, TypeInv, TypeOK, Proc
    <3> QED
      BY <2>2, <2>3, <2>4, <3>1 DEF Agrees
  <2>7. CASE _save_last_execution(p)
    <3>1. UNCHANGED <<lock, ran>> /\ proc[p].pc = "save" /\ proc'[p].pc = "call"
          /\ last' = proc[p].mem /\ proc'[p].ts = proc[p].ts
      BY <1>0, <2>7 DEF _save_last_execution, Become, TypeInv, TypeOK, Proc
    <3> QED
      BY <2>2, <2>3, <2>4, <3>1 DEF Agrees
  <2>8. CASE api_run_playbook(p)
    <3>1. UNCHANGED <<lock, last>> /\ proc[p].pc = "call" /\ proc'[p].pc = "unlock"
          /\ ran'[s] = proc[p].ts
      BY <1>0, <1>1, <2>8 DEF api_run_playbook, Become, TypeInv, TypeOK, Proc
    <3>2. last'[s] <= ran'[s]
      BY <1>0, <2>4, <3>1 DEF Agrees, Age, SchedulerAssumption
    <3> QED
      BY <2>2, <2>3, <3>1, <3>2 DEF Agrees
  <2>9. CASE Unlink(p)
    <3>1. UNCHANGED <<last, ran>> /\ proc[p].pc = "unlock"
      BY <2>9 DEF Unlink
    <3>2. ~ Holds(p, s)'
      BY <1>0, <2>9 DEF Unlink, Become, Holds, TypeInv, TypeOK, NextSchedule, Proc, Critical
    <3> QED
      BY <2>2, <2>4, <3>1, <3>2 DEF Agrees
  <2> QED
    BY <1>5, <2>5, <2>6, <2>7, <2>8, <2>9 DEF RunStep, CreateLockFile, Critical
<1> QED
  BY <1>3, <1>4, <1>5 DEF RunStep, _load_last_execution, Truncate, _save_last_execution,
                          api_run_playbook, Unlink, Critical

LEMMA TickSpacing ==
    ASSUME SchedulerAssumption, TypeInv, SpacingInv, Tick
    PROVE  SpacingInv'
<1> SUFFICES ASSUME NEW s \in Schedule
             PROVE  /\ s \notin lock' => last'[s] <= ran'[s]
                    /\ \A p \in Scheduler : Holds(p, s)' => Agrees(proc'[p], s, last'[s], ran'[s])
  BY DEF SpacingInv
<1>0. last[s] \in Age /\ ran[s] \in Age
  BY DEF TypeInv, TypeOK
<1>1. lock' = lock /\ last'[s] = Older(last[s]) /\ ran'[s] = Older(ran[s])
  BY DEF Tick, OlderAll
<1>2. ASSUME NEW p \in Scheduler, Holds(p, s)'
      PROVE  Agrees(proc'[p], s, last'[s], ran'[s])
  <2>1. proc[p] \in Proc /\ proc'[p] = OlderProc(proc[p]) /\ proc'[p].pc = proc[p].pc /\ Holds(p, s)
    BY <1>2, TickProc DEF TypeInv, TypeOK, Holds
  <2>2. proc[p].ts \in Age /\ proc[p].mem \in [Schedule -> Age]
    BY <2>1 DEF Proc
  <2>3. proc[p].pc # "down" /\ proc[p].cur # NoSchedule
    BY <2>1 DEF Holds, Critical, SchedulerAssumption
  <2>4. proc'[p].ts = Older(proc[p].ts) /\ proc'[p].mem[s] = Older(proc[p].mem[s])
    BY <2>1, <2>2, <2>3 DEF OlderProc, OlderAll, Proc
  <2>5. Agrees(proc[p], s, last[s], ran[s])
    BY <2>1 DEF SpacingInv
  <2>6. Spaced(s, ran[s], proc[p].ts) => Spaced(s, ran'[s], proc'[p].ts)
    BY <1>0, <1>1, <2>2, <2>4, IntervalType, LongEnoughOlder DEF Spaced
  <2>7. last[s] <= ran[s] => last'[s] <= ran'[s]
    BY <1>0, <1>1, OlderMonotone
  <2> QED
    BY <1>1, <2>1, <2>4, <2>5, <2>6, <2>7 DEF Agrees
<1>3. last[s] <= ran[s] => last'[s] <= ran'[s]
  BY <1>0, <1>1, OlderMonotone
<1> QED
  BY <1>1, <1>2, <1>3 DEF SpacingInv

LEMMA StepSpacing ==
    ASSUME SchedulerAssumption, TypeInv, OneHolder, SpacingInv, OneSchedule, [Next]_vars
    PROVE  SpacingInv'
<1>1. ASSUME NEW p \in Scheduler, RunStep(p)
      PROVE  SpacingInv'
  BY <1>1, RunStepSpacing DEF SpacingInv
<1>2. CASE ~ \E p \in Scheduler : RunStep(p)
  <2>1. CASE Tick
    BY <2>1, TickSpacing
  <2>2. CASE lock' = lock /\ UNCHANGED <<last, ran>>
             /\ \A q \in Scheduler : proc'[q].pc \in Critical => proc'[q] = proc[q]
    BY <2>2 DEF SpacingInv, Holds
  <2> QED
    BY <1>2, <2>1, <2>2, OtherStep
<1> QED
  BY <1>1, <1>2

LEMMA InitSpacing == Init => TypeInv /\ OneHolder /\ SpacingInv
<1> SUFFICES ASSUME Init
             PROVE  TypeInv /\ OneHolder /\ SpacingInv
  OBVIOUS
<1>1. \A p \in Scheduler, s \in Schedule : ~ Holds(p, s)
  BY DEF Init, Holds, Down, Critical
<1>2. \A s \in Schedule : last[s] <= ran[s]
  BY SchedulerAssumption DEF Init, Nothing, SchedulerAssumption
<1> QED
  BY <1>1, <1>2, SchedulerAssumption, InitType DEF OneHolder, SpacingInv

\* With one schedule, an instance that is about to run its playbook keeps 70%
\* of an interval to the last run, whoever made it, whatever the instances
\* remember and whenever one of them died (playbook_scheduler.py 361-362).
THEOREM RunsAreSpaced ==
    ASSUME OneSchedule
    PROVE  Spec => []Spacing
<1>1. Init => TypeInv /\ OneHolder /\ SpacingInv
  BY InitSpacing
<1>2. TypeInv /\ OneHolder /\ SpacingInv /\ [Next]_vars
      => TypeInv' /\ OneHolder' /\ SpacingInv'
  BY SchedulerAssumption, StepType, StepHolder, StepSpacing
<1>3. SpacingInv => Spacing
  BY DEF SpacingInv, Spacing, Agrees, Spaced, Holds
<1> QED
  BY <1>1, <1>2, <1>3, PTL DEF Spec

-----------------------------------------------------------------------------
(* One run for a fire.  The time since the window of a fire opened grows   *)
(* with time and ends with the next window; an instance keeps behind it.   *)

\* The time since the window of the fire that is due, or was, opened.
Elapsed(s, t) ==
    IF Until(s, t) <= CHECK_INTERVAL THEN CHECK_INTERVAL - Until(s, t)
    ELSE CHECK_INTERVAL + Since(s, t)

\* The first test of _should_run_now.
Due(s, t) == Until(s, t) <= CHECK_INTERVAL \/ Since(s, t) <= Window(Interval(s, t))

\* From the opening of a window to the end of the last pass that began in it,
\* less than 70% of any interval of the cron goes by.
WindowsFit ==
    \A s \in Schedule, t, u \in Time :
        10 * (CHECK_INTERVAL + Window(Interval(s, t)) + Slack) < 7 * IntervalAfter(s, u)

Later(t) == (t + 1) % Period

\* The remainders the model takes are of numbers less than one period away.
LEMMA Wrap ==
    ASSUME SchedulerAssumption, NEW x \in Int
    PROVE  /\ 0 <= x /\ x < Period => x % Period = x
           /\ Period <= x /\ x < 2 * Period => x % Period = x - Period
           /\ -Period <= x /\ x < 0 => x % Period = x + Period
  BY DEF SchedulerAssumption

LEMMA LaterType ==
    ASSUME SchedulerAssumption, NEW t \in Time
    PROVE  /\ Later(t) \in Time
           /\ Later(t) = IF t = Period - 1 THEN 0 ELSE t + 1
<1>1. t + 1 \in Int /\ Period \in Int /\ Period > 0 /\ t \in Int /\ 0 <= t /\ t < Period
  BY DEF Time, SchedulerAssumption
<1>2. Later(t) = IF t = Period - 1 THEN 0 ELSE t + 1
  BY <1>1, Wrap DEF Later
<1> QED
  BY <1>1, <1>2 DEF Time

\* Looking back and ahead, from a moment and from the one after it.
LEMMA FiresLater ==
    ASSUME SchedulerAssumption, NEW s \in Schedule, NEW t \in Time, NEW d \in 0 .. Period - 1
    PROVE  /\ FiresAt(s, Later(t) - (d + 1)) <=> FiresAt(s, t - d)
           /\ FiresAt(s, Later(t) + d) <=> FiresAt(s, t + (d + 1))
<1>1. Period \in Int /\ Period > 0 /\ t \in Int /\ 0 <= t /\ t < Period
      /\ d \in Int /\ 0 <= d /\ d < Period
  BY DEF Time, SchedulerAssumption
<1>2. (Later(t) - (d + 1)) % Period = (t - d) % Period
  <2>1. CASE t = Period - 1
    <3>1. Later(t) - (d + 1) = -(d + 1) /\ t - d = Period - 1 - d
      BY <1>1, <2>1, LaterType
    <3>2. (-(d + 1)) % Period = Period - 1 - d /\ (Period - 1 - d) % Period = Period - 1 - d
      BY <1>1, Wrap
    <3> QED
      BY <3>1, <3>2
  <2>2. CASE t # Period - 1
    BY <1>1, <2>2, LaterType
  <2> QED
    BY <2>1, <2>2
<1>3. (Later(t) + d) % Period = (t + (d + 1)) % Period
  <2>1. CASE t = Period - 1
    <3>1. Later(t) + d = d /\ t + (d + 1) = Period + d
      BY <1>1, <2>1, LaterType
    <3>2. d % Period = d /\ (Period + d) % Period = d
      BY <1>1, Wrap
    <3> QED
      BY <3>1, <3>2
  <2>2. CASE t # Period - 1
    BY <1>1, <2>2, LaterType
  <2> QED
    BY <2>1, <2>2
<1> QED
  BY <1>2, <1>3 DEF FiresAt

\* Since and After are distances to fires, with no fire between.
LEMMA Nearest ==
    ASSUME SchedulerAssumption, NEW s \in Schedule, NEW t \in Time
    PROVE  /\ Since(s, t) \in 1 .. Period /\ FiresAt(s, t - Since(s, t))
           /\ \A d \in 1 .. Period : FiresAt(s, t - d) => Since(s, t) <= d
           /\ After(s, t) \in 1 .. Period /\ FiresAt(s, t + After(s, t))
           /\ \A d \in 1 .. Period : FiresAt(s, t + d) => After(s, t) <= d
<1> DEFINE Ahead == {d \in 1 .. Period : FiresAt(s, t + d)}
           Behind == {d \in 1 .. Period : FiresAt(s, t - d)}
<1>0. Period \in Int /\ Period > 0 /\ t \in Int /\ 0 <= t /\ t < Period
  BY DEF Time, SchedulerAssumption
<1>1. PICK f \in Time : f \in Fires[s]
  BY DEF SchedulerAssumption
<1>2. f \in Int /\ 0 <= f /\ f < Period
  BY <1>0 DEF Time
<1>3. Ahead # {}
  <2> DEFINE d == IF f > t THEN f - t ELSE f - t + Period
  <2>1. d \in 1 .. Period /\ (t + d) % Period = f
    BY <1>0, <1>2, Wrap
  <2> QED
    BY <1>1, <2>1 DEF FiresAt
<1>4. Behind # {}
  <2> DEFINE d == IF f < t THEN t - f ELSE t - f + Period
  <2>1. d \in 1 .. Period /\ (t - d) % Period = f
    BY <1>0, <1>2, Wrap
  <2> QED
    BY <1>1, <2>1 DEF FiresAt
<1>5. Ahead \subseteq Nat /\ Behind \subseteq Nat
  OBVIOUS
<1>6. /\ Least(Ahead) \in Ahead /\ \A d \in Ahead : Least(Ahead) <= d
      /\ Least(Behind) \in Behind /\ \A d \in Behind : Least(Behind) <= d
  BY <1>3, <1>4, <1>5, LeastExists
<1> QED
  BY <1>6 DEF After, Since

\* A moment later, the last fire is one unit further away, unless one is now.
LEMMA SinceLater ==
    ASSUME SchedulerAssumption, NEW s \in Schedule, NEW t \in Time
    PROVE  Since(s, Later(t)) = IF FiresAt(s, t) THEN 1 ELSE Since(s, t) + 1
<1> DEFINE a == Since(s, t)
           b == Since(s, Later(t))
<1>0. Period \in Int /\ Period > 0 /\ t \in Int /\ 0 <= t /\ t < Period
  BY DEF Time, SchedulerAssumption
<1>1. /\ a \in 1 .. Period /\ FiresAt(s, t - a)
      /\ \A d \in 1 .. Period : FiresAt(s, t - d) => a <= d
  BY Nearest
<1>2. /\ b \in 1 .. Period /\ FiresAt(s, Later(t) - b)
      /\ \A d \in 1 .. Period : FiresAt(s, Later(t) - d) => b <= d
  BY LaterType, Nearest
<1>3. \A d \in 0 .. Period - 1 : FiresAt(s, Later(t) - (d + 1)) <=> FiresAt(s, t - d)
  BY FiresLater
<1> HIDE DEF a, b
<1>4. CASE FiresAt(s, t)
  <2>1. FiresAt(s, Later(t) - (0 + 1)) <=> FiresAt(s, t - 0)
    BY <1>0, <1>3
  <2>2. t - 0 = t /\ 0 + 1 = 1 /\ 1 \in 1 .. Period
    BY <1>0
  <2>3. b <= 1
    BY <1>2, <1>4, <2>1, <2>2
  <2> QED
    BY <1>0, <1>2, <1>4, <2>3 DEF b
<1>5. CASE ~FiresAt(s, t)
  <2>1. a # Period
    <3>1. ~FiresAt(s, t - Period)
      <4>1. (t - Period) % Period = t /\ t % Period = t
        BY <1>0, Wrap
      <4> QED
        BY <1>5, <4>1 DEF FiresAt
    <3> QED
      BY <1>1, <3>1
  <2>2. a \in 0 .. Period - 1 /\ a + 1 \in 1 .. Period
    BY <1>0, <1>1, <2>1
  <2>3. b <= a + 1
    BY <1>1, <1>2, <1>3, <2>2
  <2>4. b - 1 \in 0 .. Period - 1 /\ (b - 1) + 1 = b
    BY <1>0, <1>2
  <2>5. FiresAt(s, t - (b - 1))
    BY <1>2, <1>3, <2>4
  <2>6. b # 1
    <3>1. b = 1 => t - (b - 1) = t
      BY <1>0
    <3> QED
      BY <1>5, <2>5, <3>1
  <2>7. b - 1 \in 1 .. Period
    BY <1>0, <1>2, <2>6
  <2>8. a <= b - 1
    BY <1>1, <2>5, <2>7
  <2>9. b = a + 1
    BY <1>0, <1>1, <1>2, <2>3, <2>8
  <2> QED
    BY <1>5, <2>9 DEF a, b
<1> QED
  BY <1>4, <1>5

\* A moment later, the next fire is one unit nearer, unless it is reached.
LEMMA AfterLater ==
    ASSUME SchedulerAssumption, NEW s \in Schedule, NEW t \in Time
    PROVE  /\ FiresAt(s, Later(t)) <=> After(s, t) = 1
           /\ ~FiresAt(s, Later(t)) => After(s, Later(t)) = After(s, t) - 1
<1> DEFINE a == After(s, t)
           b == After(s, Later(t))
<1>0. Period \in Int /\ Period > 0 /\ t \in Int /\ 0 <= t /\ t < Period
      /\ Later(t) \in Int
  BY LaterType DEF Time, SchedulerAssumption
<1>1. /\ a \in 1 .. Period /\ FiresAt(s, t + a)
      /\ \A d \in 1 .. Period : FiresAt(s, t + d) => a <= d
  BY Nearest
<1>2. /\ b \in 1 .. Period /\ FiresAt(s, Later(t) + b)
      /\ \A d \in 1 .. Period : FiresAt(s, Later(t) + d) => b <= d
  BY LaterType, Nearest
<1>3. \A d \in 0 .. Period - 1 : FiresAt(s, Later(t) + d) <=> FiresAt(s, t + (d + 1))
  BY FiresLater
<1> HIDE DEF a, b
<1>4. FiresAt(s, Later(t)) <=> a = 1
  <2>1. FiresAt(s, Later(t) + 0) <=> FiresAt(s, t + (0 + 1))
    BY <1>0, <1>3
  <2>2. Later(t) + 0 = Later(t) /\ 0 + 1 = 1 /\ 1 \in 1 .. Period
    BY <1>0
  <2>3. FiresAt(s, t + 1) <=> a = 1
    <3>1. FiresAt(s, t + 1) => a <= 1
      BY <1>1, <2>2
    <3>2. a <= 1 => a = 1
      BY <1>0, <1>1
    <3> QED
      BY <1>1, <3>1, <3>2
  <2> QED
    BY <2>1, <2>2, <2>3
<1>5. ASSUME ~FiresAt(s, Later(t))
      PROVE  b = a - 1
  <2>1. a # 1
    BY <1>4, <1>5
  <2>2. a - 1 \in 0 .. Period - 1 /\ a - 1 \in 1 .. Period /\ (a - 1) + 1 = a
    BY <1>0, <1>1, <2>1
  <2>3. FiresAt(s, Later(t) + (a - 1))
    BY <1>1, <1>3, <2>2
  <2>4. b <= a - 1
    BY <1>2, <2>2, <2>3
  <2>5. b \in 0 .. Period - 1 /\ b + 1 \in 1 .. Period
    BY <1>0, <1>1, <1>2, <2>4
  <2>6. FiresAt(s, t + (b + 1))
    BY <1>2, <1>3, <2>5
  <2>7. a <= b + 1
    BY <1>1, <2>5, <2>6
  <2> QED
    BY <1>0, <1>1, <1>2, <2>4, <2>7
<1> QED
  BY <1>4, <1>5 DEF a, b

\* The window of a fire is at least two polls long.
LEMMA WindowIsWide ==
    ASSUME SchedulerAssumption, NEW gap \in Nat
    PROVE  Window(gap) \in Nat /\ Window(gap) >= 2 * CHECK_INTERVAL
  BY DEF Window, SchedulerAssumption

LEMMA CronType ==
    ASSUME SchedulerAssumption, NEW s \in Schedule, NEW t \in Time
    PROVE  /\ Since(s, t) \in Nat /\ After(s, t) \in Nat /\ Until(s, t) \in Nat
           /\ Interval(s, t) \in Nat /\ IntervalAfter(s, t) \in Nat
           /\ Elapsed(s, t) \in Nat
<1>1. Since(s, t) \in Nat /\ After(s, t) \in Nat
  BY Nearest DEF SchedulerAssumption
<1>2. Until(s, t) \in Nat
  BY <1>1 DEF Until
<1> QED
  BY <1>1, <1>2 DEF Interval, IntervalAfter, Elapsed, SchedulerAssumption

\* When the windows fit, an interval is longer than four polls and a pass.
LEMMA IntervalIsLong ==
    ASSUME SchedulerAssumption, WindowsFit, NEW s \in Schedule, NEW t \in Time
    PROVE  7 * IntervalAfter(s, t) > 30 * CHECK_INTERVAL + 10 * Slack
<1>1. Interval(s, t) \in Nat /\ IntervalAfter(s, t) \in Nat
  BY CronType
<1>2. Window(Interval(s, t)) \in Nat /\ Window(Interval(s, t)) >= 2 * CHECK_INTERVAL
  BY <1>1, WindowIsWide
<1>3. 10 * (CHECK_INTERVAL + Window(Interval(s, t)) + Slack) < 7 * IntervalAfter(s, t)
  BY DEF WindowsFit
<1> QED
  BY <1>1, <1>2, <1>3 DEF SchedulerAssumption

\* The time since the window opened grows by one, or the next window opens a
\* whole interval after the last.
LEMMA ElapsedLater ==
    ASSUME SchedulerAssumption, WindowsFit, NEW s \in Schedule, NEW t \in Time
    PROVE  \/ /\ ~Opens(s, Later(t))
              /\ Elapsed(s, Later(t)) = Elapsed(s, t) + 1
           \/ /\ Opens(s, Later(t))
              /\ Elapsed(s, Later(t)) = 0
              /\ Elapsed(s, t) + 1 = IntervalAfter(s, t)
<1> DEFINE l == Later(t)
<1>0. CHECK_INTERVAL \in Int /\ CHECK_INTERVAL > 0 /\ Slack \in Int /\ Slack >= 0
  BY DEF SchedulerAssumption
<1>1. l \in Time
  BY LaterType
<1>2. /\ Since(s, t) \in Int /\ After(s, t) \in Int /\ Since(s, l) \in Int /\ After(s, l) \in Int
      /\ Since(s, t) > 0 /\ After(s, t) > 0 /\ After(s, l) > 0
  BY <1>1, Nearest DEF SchedulerAssumption
<1>3. Since(s, l) = IF FiresAt(s, t) THEN 1 ELSE Since(s, t) + 1
  BY SinceLater
<1>4. /\ FiresAt(s, l) <=> After(s, t) = 1
      /\ ~FiresAt(s, l) => After(s, l) = After(s, t) - 1
  BY AfterLater
<1>5. 7 * IntervalAfter(s, t) > 30 * CHECK_INTERVAL + 10 * Slack
  BY IntervalIsLong
<1> HIDE DEF l
<1>6. CASE FiresAt(s, t)
  <2>1. After(s, t) > CHECK_INTERVAL + 1
    BY <1>0, <1>2, <1>5, <1>6 DEF IntervalAfter
  <2>2. Until(s, l) > CHECK_INTERVAL /\ Until(s, l) \in Int
    BY <1>0, <1>2, <1>4, <2>1 DEF Until
  <2>3. Elapsed(s, l) = CHECK_INTERVAL + 1 /\ Elapsed(s, t) = CHECK_INTERVAL
    BY <1>0, <1>3, <1>6, <2>2 DEF Elapsed, Until
  <2>4. ~Opens(s, l)
    BY <1>0, <2>2 DEF Opens
  <2> QED
    BY <1>0, <2>3, <2>4 DEF l
<1>7. CASE ~FiresAt(s, t)
  <2>1. Until(s, t) = After(s, t) /\ IntervalAfter(s, t) = Since(s, t) + After(s, t)
    BY <1>7 DEF Until, IntervalAfter
  <2>2. Until(s, l) = After(s, t) - 1
    BY <1>2, <1>4 DEF Until
  <2>3. CASE After(s, t) <= CHECK_INTERVAL
    BY <1>0, <1>2, <2>1, <2>2, <2>3 DEF Elapsed, Opens, l
  <2>4. CASE After(s, t) = CHECK_INTERVAL + 1
    BY <1>0, <1>2, <2>1, <2>2, <2>4 DEF Elapsed, Opens, l
  <2>5. CASE After(s, t) > CHECK_INTERVAL + 1
    BY <1>0, <1>2, <1>3, <1>7, <2>1, <2>2, <2>5 DEF Elapsed, Opens, l
  <2> QED
    BY <1>0, <1>2, <2>3, <2>4, <2>5
<1> QED
  BY <1>6, <1>7

LEMMA DueElapsed ==
    ASSUME SchedulerAssumption, NEW s \in Schedule, NEW t \in Time, Due(s, t)
    PROVE  Elapsed(s, t) <= CHECK_INTERVAL + Window(Interval(s, t))
<1>1. /\ Since(s, t) \in Nat /\ Until(s, t) \in Nat /\ Window(Interval(s, t)) \in Nat
      /\ CHECK_INTERVAL \in Nat
  BY CronType, WindowIsWide DEF SchedulerAssumption
<1> QED
  BY <1>1 DEF Due, Elapsed

\* A pass is at most Slack behind the moment it took as its time.
KeepsUp(rec, t) ==
    rec.pc \notin {"down", "sleep"} =>
        /\ rec.timer <= Slack
        /\ \A s \in Schedule : Elapsed(s, t) <= Elapsed(s, rec.at) + rec.timer

\* Who is at a run found the schedule due, and took the time stamp in the window
\* that is still the last.
Answers(rec, t) ==
    rec.pc \in {"lock"} \cup Critical =>
        /\ Due(rec.cur, rec.at)
        /\ rec.ts <= Elapsed(rec.cur, t)

PassInv == \A p \in Scheduler : KeepsUp(proc[p], now) /\ Answers(proc[p], now)

\* The run that served a fire was stamped after the window of the fire opened.
FireInv ==
    \A s \in Schedule :
        /\ fire[s] # "twice"
        /\ fire[s] = "served" => ran[s] <= Elapsed(s, now)

\* Within the time a pass takes, no window is over that was open when it began.
LEMMA RunInWindow ==
    ASSUME SchedulerAssumption, TypeInv, PassInv,
           NEW p \in Scheduler, proc[p].pc \in {"lock"} \cup Critical
    PROVE  /\ proc[p].cur \in Schedule /\ proc[p].at \in Time /\ proc[p].ts \in Age
           /\ Elapsed(proc[p].cur, now) \in Nat
           /\ Window(Interval(proc[p].cur, proc[p].at)) \in Nat
           /\ Elapsed(proc[p].cur, now)
                 <= CHECK_INTERVAL + Window(Interval(proc[p].cur, proc[p].at)) + Slack
<1>1. proc[p] \in Proc /\ proc[p].cur \in Schedule /\ now \in Time
  BY DEF TypeInv, TypeOK, AtSchedule
<1>2. proc[p].at \in Time /\ proc[p].ts \in Age /\ proc[p].timer \in Int
  BY <1>1 DEF Proc, SchedulerAssumption
<1> DEFINE s == proc[p].cur
           a == proc[p].at
<1>3. /\ Elapsed(s, now) \in Nat /\ Elapsed(s, a) \in Nat /\ Window(Interval(s, a)) \in Nat
      /\ CHECK_INTERVAL \in Nat /\ Slack \in Nat
  BY <1>1, <1>2, CronType, WindowIsWide DEF SchedulerAssumption
<1>4. proc[p].timer <= Slack /\ Elapsed(s, now) <= Elapsed(s, a) + proc[p].timer
  BY <1>1 DEF PassInv, KeepsUp, Critical
<1>5. Elapsed(s, a) <= CHECK_INTERVAL + Window(Interval(s, a))
  BY <1>1, <1>2, DueElapsed DEF PassInv, Answers
<1> HIDE DEF s, a
<1>6. Elapsed(s, now) <= CHECK_INTERVAL + Window(Interval(s, a)) + Slack
  BY <1>2, <1>3, <1>4, <1>5
<1> QED
  BY <1>1, <1>2, <1>3, <1>6 DEF s, a

\* Some moment lies between two fires.
LEMMA BetweenFires ==
    ASSUME SchedulerAssumption, WindowsFit, NEW s \in Schedule, NEW t \in Time
    PROVE  \E u \in Time : IntervalAfter(s, u) = Interval(s, u)
<1>1. CASE ~FiresAt(s, t)
  BY <1>1 DEF Interval, IntervalAfter, Until
<1>2. CASE FiresAt(s, t)
  <2>1. After(s, t) # 1
    BY <1>2, IntervalIsLong, CronType DEF IntervalAfter, SchedulerAssumption
  <2>2. ~FiresAt(s, Later(t)) /\ Later(t) \in Time
    BY <2>1, AfterLater, LaterType
  <2> QED
    BY <2>2 DEF Interval, IntervalAfter, Until
<1> QED
  BY <1>1, <1>2

\* A second run for a fire would be too close to the first.
LEMMA NotTwice ==
    ASSUME SchedulerAssumption, AgeAssumption, WindowsFit, TypeInv, PassInv, FireInv, Spacing,
           NEW p \in Scheduler, proc[p].pc = "call"
    PROVE  fire[proc[p].cur] # "served"
<1> SUFFICES ASSUME fire[proc[p].cur] = "served"
             PROVE  FALSE
  OBVIOUS
<1> DEFINE s == proc[p].cur
           w == CHECK_INTERVAL + Window(Interval(s, proc[p].at)) + Slack
<1>1. proc[p].pc \in {"lock"} \cup Critical /\ Holds(p, s)
  BY DEF Critical, Holds
<1>2. /\ s \in Schedule /\ proc[p].at \in Time /\ proc[p].ts \in Age
      /\ Elapsed(s, now) \in Nat /\ Window(Interval(s, proc[p].at)) \in Nat
      /\ Elapsed(s, now) <= w
  BY <1>1, RunInWindow
<1>3. ran[s] \in Age /\ ran[s] <= Elapsed(s, now)
  BY <1>2 DEF FireInv, TypeInv, TypeOK
<1>4. w \in Int /\ Slack \in Nat /\ MaxAge \in Nat
  BY <1>2 DEF SchedulerAssumption
<1>5. \A u \in Time : 10 * w < 7 * IntervalAfter(s, u) /\ IntervalAfter(s, u) \in Nat
  BY <1>2, CronType DEF WindowsFit
<1>6. PICK t \in Time : LongEnough(ran[s], proc[p].ts, IntervalAfter(s, t))
  BY <1>1, <1>2 DEF Spacing
<1> HIDE DEF w, s
<1>7. ran[s] <= w
  BY <1>2, <1>3, <1>4 DEF Age
<1>8. CASE ran[s] = MaxAge
  <2>1. PICK u \in Time : IntervalAfter(s, u) = Interval(s, u)
    BY <1>2, BetweenFires
  <2>2. 10 * (MaxAge - Slack) >= 7 * Interval(s, u)
    BY <1>2 DEF AgeAssumption
  <2> QED
    BY <1>4, <1>5, <1>7, <1>8, <2>1, <2>2
<1>9. CASE 10 * (ran[s] - proc[p].ts) >= 7 * IntervalAfter(s, t)
  BY <1>2, <1>3, <1>4, <1>5, <1>7, <1>9 DEF Age
<1> QED
  BY <1>6, <1>8, <1>9 DEF LongEnough

\* A step under the lock file or to it keeps the schedule, the moment of the
\* pass, the timer and the time stamp, or ends the run and goes on with the pass.
LEMMA RunStepKeeps ==
    ASSUME SchedulerAssumption, TypeInv, NEW p \in Scheduler, RunStep(p)
    PROVE  /\ proc[p].pc \in {"lock"} \cup Critical
           /\ proc'[p].timer = proc[p].timer /\ proc'[p].at = proc[p].at
           /\ \/ proc'[p].pc \in Critical /\ proc'[p].cur = proc[p].cur /\ proc'[p].ts = proc[p].ts
              \/ proc'[p].pc = "scan"
           /\ \A q \in Scheduler : q # p => proc'[q] = proc[q]
           /\ now' = now
<1>0. proc[p] \in Proc
  BY DEF TypeInv, TypeOK
<1>1. CASE CreateLockFile(p)
  <2>1. CASE proc[p].cur \in lock
    <3>1. /\ proc[p].pc = "lock" /\ now' = now
          /\ proc' = [proc EXCEPT ![p] = NextSchedule(proc[p])]
      BY <1>1, <2>1 DEF CreateLockFile, Become
    <3>2. /\ NextSchedule(proc[p]).pc = "scan" /\ NextSchedule(proc[p]).timer = proc[p].timer
          /\ NextSchedule(proc[p]).at = proc[p].at
      BY <1>0 DEF NextSchedule, Proc
    <3> QED
      BY <3>1, <3>2 DEF TypeInv, TypeOK
  <2>2. CASE proc[p].cur \notin lock
    <3>1. /\ proc[p].pc = "lock" /\ now' = now
          /\ proc' = [proc EXCEPT ![p] = [proc[p] EXCEPT !.pc = "load"]]
      BY <1>1, <2>2 DEF CreateLockFile, Become
    <3> QED
      BY <1>0, <3>1 DEF TypeInv, TypeOK, Proc, Critical
  <2> QED
    BY <2>1, <2>2
<1>2. CASE _load_last_execution(p)
  <2> DEFINE ok == LongEnough(last[proc[p].cur], proc[p].ts, IntervalAfter(proc[p].cur, now))
             pc == IF ok THEN "truncate" ELSE "unlock"
             mem == IF ok THEN [last EXCEPT ![proc[p].cur] = proc[p].ts] ELSE last
  <2>1. /\ proc[p].pc = "load" /\ now' = now
        /\ proc' = [proc EXCEPT ![p] = [proc[p] EXCEPT !.pc = pc, !.mem = mem]]
    BY <1>2 DEF _load_last_execution, Become
  <2>2. pc \in Critical
    BY DEF Critical
  <2> HIDE DEF pc, mem
  <2> QED
    BY <1>0, <2>1, <2>2 DEF TypeInv, TypeOK, Proc, Critical
<1>3. CASE Truncate(p)
  BY <1>0, <1>3 DEF Truncate, Become, TypeInv, TypeOK, Proc, Critical
<1>4. CASE _save_last_execution(p)
  BY <1>0, <1>4 DEF _save_last_execution, Become, TypeInv, TypeOK, Proc, Critical
<1>5. CASE api_run_playbook(p)
  BY <1>0, <1>5 DEF api_run_playbook, Become, TypeInv, TypeOK, Proc, Critical
<1>6. CASE Unlink(p)
  BY <1>0, <1>6 DEF Unlink, Become, NextSchedule, TypeInv, TypeOK, Proc, Critical
<1> QED
  BY <1>1, <1>2, <1>3, <1>4, <1>5, <1>6 DEF RunStep

\* A run begins in a pass, with a schedule that is due and a new time stamp.
LEMMA PassStepKeeps ==
    ASSUME SchedulerAssumption, TypeInv, PassInv, NEW p \in Scheduler, PassStep(p)
    PROVE  /\ KeepsUp(proc'[p], now) /\ Answers(proc'[p], now)
           /\ \A q \in Scheduler : q # p => proc'[q] = proc[q]
           /\ UNCHANGED <<now, ran, fire>>
<1>0. /\ proc[p] \in Proc /\ now \in Time /\ proc[p].at \in Time
      /\ KeepsUp(proc[p], now)
  BY DEF TypeInv, TypeOK, PassInv, Proc
<1>1. CASE _check_and_run_schedules(p)
  <2>1. /\ proc'[p].pc = "scan" /\ proc'[p].timer = 0 /\ proc'[p].at = now
        /\ UNCHANGED <<now, ran, fire>>
        /\ \A q \in Scheduler : q # p => proc'[q] = proc[q]
    BY <1>0, <1>1 DEF _check_and_run_schedules, Become, TypeInv, TypeOK, Proc
  <2>2. KeepsUp(proc'[p], now)
    BY <1>0, <2>1, CronType DEF KeepsUp, SchedulerAssumption
  <2> QED
    BY <2>1, <2>2 DEF Answers, Critical
<1>2. ASSUME NEW s \in Schedule, Consider(p, s)
      PROVE  /\ KeepsUp(proc'[p], now) /\ Answers(proc'[p], now)
             /\ \A q \in Scheduler : q # p => proc'[q] = proc[q]
             /\ UNCHANGED <<now, ran, fire>>
  <2> DEFINE rest == [proc[p] EXCEPT !.todo = @ \ {s}]
             rec == [rest EXCEPT !.pc = "lock", !.cur = s, !.ts = 0]
  <2>1. /\ rest.pc = "scan" /\ rest.timer = proc[p].timer /\ rest.at = proc[p].at
        /\ proc[p].pc = "scan"
    BY <1>0, <1>2 DEF Consider, Proc
  <2>2. /\ rec.pc = "lock" /\ rec.timer = proc[p].timer /\ rec.at = proc[p].at
        /\ rec.cur = s /\ rec.ts = 0
    BY <1>0 DEF Proc
  <2>3. /\ Become(p, rest) \/ (_should_run_now(p, s) /\ Become(p, rec))
        /\ UNCHANGED <<now, ran, fire>>
    BY <1>2 DEF Consider
  <2> HIDE DEF rest, rec
  <2>4. KeepsUp(rest, now) /\ KeepsUp(rec, now)
    BY <1>0, <2>1, <2>2 DEF KeepsUp
  <2>5. Answers(rest, now)
    BY <2>1 DEF Answers, Critical
  <2>6. _should_run_now(p, s) => Answers(rec, now)
    BY <1>0, <2>2, CronType DEF Answers, _should_run_now, Due
  <2>7. /\ proc'[p] = rest \/ (_should_run_now(p, s) /\ proc'[p] = rec)
        /\ \A q \in Scheduler : q # p => proc'[q] = proc[q]
    BY <2>3 DEF Become, TypeInv, TypeOK
  <2> QED
    BY <2>3, <2>4, <2>5, <2>6, <2>7
<1>3. CASE EndOfPass(p)
  <2>1. /\ proc'[p].pc = "sleep" /\ UNCHANGED <<now, ran, fire>>
        /\ \A q \in Scheduler : q # p => proc'[q] = proc[q]
    BY <1>0, <1>3 DEF EndOfPass, Become, TypeInv, TypeOK, Proc
  <2> QED
    BY <2>1 DEF KeepsUp, Answers, Critical
<1> QED
  BY <1>1, <1>2, <1>3 DEF PassStep

LEMMA OthersPass ==
    ASSUME PassInv, NEW p \in Scheduler, now' = now,
           KeepsUp(proc'[p], now), Answers(proc'[p], now),
           \A q \in Scheduler : q # p => proc'[q] = proc[q]
    PROVE  PassInv'
<1>1. ASSUME NEW q \in Scheduler
      PROVE  KeepsUp(proc'[q], now) /\ Answers(proc'[q], now)
  BY DEF PassInv
<1>2. \A q \in Scheduler : KeepsUp(proc'[q], now') /\ Answers(proc'[q], now')
  BY <1>1
<1> QED
  BY <1>2 DEF PassInv, KeepsUp, Answers

LEMMA RunStepPass ==
    ASSUME SchedulerAssumption, TypeInv, PassInv, NEW p \in Scheduler, RunStep(p)
    PROVE  PassInv'
<1>1. /\ proc[p].pc \in {"lock"} \cup Critical
      /\ proc'[p].timer = proc[p].timer /\ proc'[p].at = proc[p].at
      /\ \/ proc'[p].pc \in Critical /\ proc'[p].cur = proc[p].cur /\ proc'[p].ts = proc[p].ts
         \/ proc'[p].pc = "scan"
      /\ \A q \in Scheduler : q # p => proc'[q] = proc[q]
      /\ now' = now
  BY RunStepKeeps
<1>2. KeepsUp(proc'[p], now)
  BY <1>1 DEF PassInv, KeepsUp, Critical
<1>3. Answers(proc'[p], now)
  BY <1>1 DEF PassInv, Answers, Critical
<1> QED
  BY <1>1, <1>2, <1>3, OthersPass

\* Only a window that is over can be followed by another: no pass is as long.
LEMMA TickPass ==
    ASSUME SchedulerAssumption, WindowsFit, TypeInv, PassInv, Tick
    PROVE  PassInv'
<1>0. now \in Time /\ now' = Later(now) /\ now' \in Time
  BY LaterType DEF TypeInv, TypeOK, Tick, Later
<1>1. ASSUME NEW p \in Scheduler
      PROVE  KeepsUp(proc'[p], Later(now)) /\ Answers(proc'[p], Later(now))
  <2>1. /\ proc[p] \in Proc /\ OnTime(p) /\ proc'[p] = OlderProc(proc[p])
        /\ proc'[p].pc = proc[p].pc /\ proc'[p].cur = proc[p].cur
    BY TickProc DEF TypeInv, TypeOK, Tick
  <2>2. proc[p].timer \in Nat /\ proc[p].at \in Time /\ proc[p].ts \in Age /\ Slack \in Nat
    BY <2>1 DEF Proc, SchedulerAssumption
  <2>3. proc[p].pc # "down" => proc'[p].timer = proc[p].timer + 1 /\ proc'[p].at = proc[p].at
    BY <2>1 DEF OlderProc, Proc
  <2>4. \A s \in Schedule : Elapsed(s, Later(now)) <= Elapsed(s, now) + 1
    <3> SUFFICES ASSUME NEW s \in Schedule
                 PROVE  Elapsed(s, Later(now)) <= Elapsed(s, now) + 1
      OBVIOUS
    <3>1. Elapsed(s, Later(now)) \in Nat /\ Elapsed(s, now) \in Nat
      BY <1>0, CronType
    <3> QED
      BY <1>0, <3>1, ElapsedLater
  <2>5. KeepsUp(proc'[p], Later(now))
    <3> SUFFICES ASSUME proc[p].pc \notin {"down", "sleep"}
                 PROVE  /\ proc[p].timer + 1 <= Slack
                        /\ \A s \in Schedule :
                              Elapsed(s, Later(now)) <= Elapsed(s, proc[p].at) + (proc[p].timer + 1)
      BY <2>1, <2>3 DEF KeepsUp
    <3>1. proc[p].timer + 1 <= Slack
      BY <2>1, <2>2 DEF OnTime
    <3>2. ASSUME NEW s \in Schedule
          PROVE  Elapsed(s, Later(now)) <= Elapsed(s, proc[p].at) + (proc[p].timer + 1)
      <4>1. Elapsed(s, now) <= Elapsed(s, proc[p].at) + proc[p].timer
        BY DEF PassInv, KeepsUp
      <4>2. Elapsed(s, Later(now)) \in Nat /\ Elapsed(s, now) \in Nat
            /\ Elapsed(s, proc[p].at) \in Nat
        BY <1>0, <2>2, CronType
      <4> QED
        BY <2>2, <2>4, <4>1, <4>2
    <3> QED
      BY <3>1, <3>2
  <2>6. Answers(proc'[p], Later(now))
    <3> SUFFICES ASSUME proc[p].pc \in {"lock"} \cup Critical
                 PROVE  Due(proc[p].cur, proc[p].at) /\ proc'[p].ts <= Elapsed(proc[p].cur, Later(now))
      BY <2>1, <2>3 DEF Answers, Critical
    <3> DEFINE s == proc[p].cur
               w == Window(Interval(s, proc[p].at))
    <3>1. /\ s \in Schedule /\ Elapsed(s, now) \in Nat /\ w \in Nat
          /\ Elapsed(s, now) <= CHECK_INTERVAL + w + Slack
      BY RunInWindow
    <3>2. Due(s, proc[p].at) /\ proc[p].ts <= Elapsed(s, now)
      BY DEF PassInv, Answers
    <3>3. 10 * (CHECK_INTERVAL + w + Slack) < 7 * IntervalAfter(s, now)
          /\ IntervalAfter(s, now) \in Nat
      BY <1>0, <2>2, <3>1, CronType DEF WindowsFit
    <3>4. 7 * IntervalAfter(s, now) > 30 * CHECK_INTERVAL + 10 * Slack
      BY <1>0, <3>1, IntervalIsLong
    <3>5. CHECK_INTERVAL \in Int /\ CHECK_INTERVAL > 0 /\ MaxAge \in Nat
      BY DEF SchedulerAssumption
    <3>6. proc'[p].ts <= proc[p].ts + 1 /\ proc'[p].ts \in Int
      <4>1. proc[p].pc # "down" /\ proc[p].cur # NoSchedule
        BY <3>1 DEF Critical, SchedulerAssumption
      <4>2. proc'[p].ts = Older(proc[p].ts)
        BY <2>1, <4>1 DEF OlderProc, Proc
      <4> QED
        BY <2>2, <3>5, <4>2 DEF Older, Age
    <3> HIDE DEF w, s
    <3>7. Elapsed(s, now) + 1 # IntervalAfter(s, now)
      BY <2>2, <3>1, <3>3, <3>4, <3>5
    <3>8. Elapsed(s, Later(now)) = Elapsed(s, now) + 1
      BY <1>0, <3>1, <3>7, ElapsedLater
    <3>9. proc'[p].ts <= Elapsed(s, Later(now))
      BY <2>2, <3>1, <3>2, <3>6, <3>8 DEF Age
    <3> QED
      BY <3>2, <3>9 DEF s
  <2> QED
    BY <2>5, <2>6
<1>2. \A p \in Scheduler : KeepsUp(proc'[p], now') /\ Answers(proc'[p], now')
  BY <1>0, <1>1
<1> QED
  BY <1>2 DEF PassInv, KeepsUp, Answers

LEMMA TickFire ==
    ASSUME SchedulerAssumption, WindowsFit, TypeInv, FireInv, Tick
    PROVE  FireInv'
<1> DEFINE l == Later(now)
<1>0. now \in Time /\ now' = l /\ l \in Time
  BY LaterType DEF TypeInv, TypeOK, Tick, Later
<1>1. ASSUME NEW s \in Schedule
      PROVE  fire'[s] # "twice" /\ (fire'[s] = "served" => ran'[s] <= Elapsed(s, l))
  <2>1. CASE Opens(s, l)
    <3>1. fire'[s] \in {"open", "excused"}
      BY <2>1 DEF Tick, Later
    <3> QED
      BY <3>1
  <2>2. CASE ~Opens(s, l)
    <3>1. fire'[s] = fire[s]
      BY <2>2 DEF Tick, Later
    <3>2. ran'[s] = Older(ran[s]) /\ ran[s] \in Age
      BY DEF Tick, OlderAll, TypeInv, TypeOK
    <3>3. ran'[s] <= ran[s] + 1 /\ ran[s] \in Int /\ ran'[s] \in Int
      BY <3>2 DEF Older, Age, SchedulerAssumption
    <3>4. Elapsed(s, l) = Elapsed(s, now) + 1 /\ Elapsed(s, now) \in Int
      BY <1>0, <2>2, ElapsedLater, CronType
    <3> HIDE DEF l
    <3> QED
      BY <3>1, <3>3, <3>4 DEF FireInv
  <2> QED
    BY <2>1, <2>2
<1>2. \A s \in Schedule : fire'[s] # "twice" /\ (fire'[s] = "served" => ran'[s] <= Elapsed(s, now'))
  BY <1>0, <1>1
<1> QED
  BY <1>2 DEF FireInv, Elapsed, Until

\* The run of a fire that has had none yet counts as its answer.
LEMMA CallFire ==
    ASSUME SchedulerAssumption, AgeAssumption, WindowsFit, TypeInv, PassInv, FireInv, Spacing,
           NEW p \in Scheduler, api_run_playbook(p)
    PROVE  FireInv'
<1> DEFINE u == proc[p].cur
<1>0. proc[p].pc = "call" /\ proc[p].pc \in {"lock"} \cup Critical /\ now' = now
  BY DEF api_run_playbook, Critical
<1>1. u \in Schedule /\ proc[p].ts <= Elapsed(u, now)
  BY <1>0 DEF PassInv, Answers, TypeInv, AtSchedule
<1>2. fire[u] # "served" /\ fire[u] # "twice"
  BY <1>0, <1>1, NotTwice DEF FireInv
<1>3. /\ ran' = [ran EXCEPT ![u] = proc[p].ts]
      /\ fire' = [fire EXCEPT ![u] = IF @ \in {"served", "twice"} THEN "twice" ELSE "served"]
  BY DEF api_run_playbook
<1> HIDE DEF u
<1>4. \A s \in Schedule :
         IF s = u THEN fire'[s] = "served" /\ ran'[s] = proc[p].ts
         ELSE fire'[s] = fire[s] /\ ran'[s] = ran[s]
  BY <1>1, <1>2, <1>3 DEF TypeInv, TypeOK
<1>5. \A s \in Schedule : fire'[s] # "twice" /\ (fire'[s] = "served" => ran'[s] <= Elapsed(s, now))
  BY <1>1, <1>4 DEF FireInv
<1>6. \A s \in Schedule : fire'[s] # "twice" /\ (fire'[s] = "served" => ran'[s] <= Elapsed(s, now'))
  BY <1>0, <1>5
<1> QED
  BY <1>6 DEF FireInv, Elapsed, Until

\* Nothing else makes a fire one that was served.
LEMMA OtherFire ==
    ASSUME FireInv, UNCHANGED <<now, ran>>,
           \A s \in Schedule : fire'[s] = fire[s] \/ fire'[s] = "excused"
    PROVE  FireInv'
<1>1. \A s \in Schedule : fire'[s] # "twice" /\ (fire'[s] = "served" => ran'[s] <= Elapsed(s, now'))
  BY DEF FireInv
<1> QED
  BY <1>1 DEF FireInv, Elapsed, Until

LEMMA StepFire ==
    ASSUME SchedulerAssumption, AgeAssumption, WindowsFit, TypeInv, PassInv, FireInv, Spacing,
           [Next]_vars
    PROVE  PassInv' /\ FireInv'
<1>1. ASSUME NEW s \in Schedule, api_save_playbook_schedule(s)
      PROVE  PassInv' /\ FireInv'
  <2>1. UNCHANGED <<now, proc, ran, fire>>
    BY <1>1 DEF api_save_playbook_schedule
  <2> QED
    BY <2>1, OtherFire DEF PassInv, KeepsUp, Answers
<1>2. ASSUME NEW s \in Schedule, api_delete_playbook_schedule(s)
      PROVE  PassInv' /\ FireInv'
  <2>1. UNCHANGED <<now, proc, ran>> /\ fire' = [fire EXCEPT ![s] = Excuse(s)]
    BY <1>2 DEF api_delete_playbook_schedule
  <2>2. \A u \in Schedule : fire'[u] = fire[u] \/ fire'[u] = "excused"
    BY <2>1 DEF Excuse, TypeInv, TypeOK
  <2> QED
    BY <2>1, <2>2, OtherFire DEF PassInv, KeepsUp, Answers
<1>3. ASSUME NEW p \in Scheduler, start(p)
      PROVE  PassInv' /\ FireInv'
  <2>1. /\ UNCHANGED <<now, ran, fire>> /\ proc'[p].pc = "sleep"
        /\ \A q \in Scheduler : q # p => proc'[q] = proc[q]
    BY <1>3 DEF start, Become, Down, TypeInv, TypeOK
  <2>2. KeepsUp(proc'[p], now) /\ Answers(proc'[p], now)
    BY <2>1 DEF KeepsUp, Answers, Critical
  <2> QED
    BY <2>1, <2>2, OthersPass, OtherFire
<1>4. ASSUME NEW p \in Scheduler, PassStep(p)
      PROVE  PassInv' /\ FireInv'
  BY <1>4, PassStepKeeps, OthersPass, OtherFire
<1>5. ASSUME NEW p \in Scheduler, RunStep(p)
      PROVE  PassInv' /\ FireInv'
  <2>1. PassInv'
    BY <1>5, RunStepPass
  <2>2. CASE api_run_playbook(p)
    BY <2>1, <2>2, CallFire
  <2>3. CASE ~api_run_playbook(p)
    <3>1. UNCHANGED <<now, ran, fire>>
      BY <1>5, <2>3 DEF RunStep, CreateLockFile, _load_last_execution, Truncate,
                        _save_last_execution, Unlink
    <3> QED
      BY <2>1, <3>1, OtherFire
  <2> QED
    BY <2>2, <2>3
<1>6. ASSUME NEW p \in Scheduler, Crash(p)
      PROVE  PassInv' /\ FireInv'
  <2>1. /\ UNCHANGED <<now, ran>> /\ proc'[p].pc = "down"
        /\ \A q \in Scheduler : q # p => proc'[q] = proc[q]
    BY <1>6 DEF Crash, Become, Down, TypeInv, TypeOK
  <2>2. KeepsUp(proc'[p], now) /\ Answers(proc'[p], now)
    BY <2>1 DEF KeepsUp, Answers, Critical
  <2>3. \A s \in Schedule : fire'[s] = fire[s] \/ fire'[s] = "excused"
    BY <1>6 DEF Crash, Excuse
  <2> QED
    BY <2>1, <2>2, <2>3, OthersPass, OtherFire
<1>7. CASE Tick
  BY <1>7, TickPass, TickFire
<1>8. CASE UNCHANGED vars
  <2>1. UNCHANGED <<now, proc, ran, fire>>
    BY <1>8 DEF vars
  <2> QED
    BY <2>1, OtherFire DEF PassInv, KeepsUp, Answers
<1> QED
  BY <1>1, <1>2, <1>3, <1>4, <1>5, <1>6, <1>7, <1>8 DEF Next

\* With one schedule whose windows fit into 70% of its intervals, no fire is
\* answered with two runs, although the window lets several passes of several
\* instances find it due (playbook_scheduler.py 247-261 and 304-324).
THEOREM OneRunPerFire ==
    ASSUME OneSchedule, WindowsFit
    PROVE  Spec => []OncePerFire
<1>1. Init => TypeInv /\ OneHolder /\ SpacingInv /\ PassInv /\ FireInv
  <2>1. ASSUME Init
        PROVE  PassInv /\ FireInv
    BY <2>1 DEF Init, PassInv, FireInv, KeepsUp, Answers, Down, Critical
  <2> QED
    BY <2>1, InitSpacing
<1>2. SpacingInv => Spacing
  BY DEF SpacingInv, Spacing, Agrees, Spaced, Holds
<1>3. TypeInv /\ OneHolder /\ SpacingInv /\ PassInv /\ FireInv /\ [Next]_vars
      => TypeInv' /\ OneHolder' /\ SpacingInv' /\ PassInv' /\ FireInv'
  BY <1>2, SchedulerAssumption, AgeAssumption, StepType, StepHolder, StepSpacing, StepFire
<1>4. FireInv => OncePerFire
  BY DEF FireInv, OncePerFire
<1> QED
  BY <1>1, <1>3, <1>4, PTL DEF Spec

-----------------------------------------------------------------------------
(* Every fire is answered.  The duplicate filter may refuse the first      *)
(* passes in a window, another instance may hold the lock file, and each   *)
(* crash may cost the instance that was about to run; what is left of the  *)
(* window must still be longer than the way from one pass to the next.     *)

Width(s) == Window(Interval(s, 0))

\* From the beginning of a pass that comes too early to the end of the next.
Round == CHECK_INTERVAL + 2 * Slack

\* After k crashes a pass has ended before this moment of the window, or begins
\* at most one poll later.
Bound(s, k) == Width(s) - (MaxCrashes - k) * Round

\* From this moment on no entry of an earlier window refuses a run.
Chance(s) == Bound(s, 0) - 2 * Slack

\* 70% of any interval.
Enough(s, age) ==
    \A t \in Time : 10 * age >= 7 * Interval(s, t) /\ 10 * age >= 7 * IntervalAfter(s, t)

\* The windows of a schedule are equally wide; at least one pass begins after
\* Chance; and an entry made at the end of a pass of the last window, if only
\* just, is 70% of any interval away at Chance.
RoundsFit ==
    \A s \in Schedule :
        /\ \A t \in Time : Window(Interval(s, t)) = Width(s)
        /\ Chance(s) + Slack > 0
        /\ \A t \in Time :
              Enough(s, IntervalAfter(s, t) - (CHECK_INTERVAL + Width(s) + Slack) + Chance(s))

LEMMA Bounds ==
    ASSUME SchedulerAssumption, RoundsFit, NEW s \in Schedule
    PROVE  /\ Width(s) \in Nat /\ Chance(s) \in Int /\ Slack \in Nat /\ CHECK_INTERVAL \in Nat \ {0}
           /\ Chance(s) + Slack > 0
           /\ \A k \in 0 .. MaxCrashes :
                 /\ Bound(s, k) \in Int
                 /\ Chance(s) + 2 * Slack <= Bound(s, k) /\ Bound(s, k) <= Width(s)
                 /\ Bound(s, k + 1) = Bound(s, k) + CHECK_INTERVAL + 2 * Slack
<1>0. CHECK_INTERVAL \in Nat \ {0} /\ Slack \in Nat /\ MaxCrashes \in Nat /\ Round \in Nat
  BY DEF SchedulerAssumption, Round
<1>1. Width(s) \in Nat
  BY Zeros, CronType, WindowIsWide DEF Width
<1>2. Chance(s) + Slack > 0
  BY DEF RoundsFit
<1>3. Chance(s) = Width(s) - MaxCrashes * Round - 2 * Slack /\ MaxCrashes * Round \in Nat
  BY <1>0, <1>1 DEF Chance, Bound
<1>4. ASSUME NEW k \in 0 .. MaxCrashes
      PROVE  /\ Bound(s, k) \in Int
             /\ Chance(s) + 2 * Slack <= Bound(s, k) /\ Bound(s, k) <= Width(s)
             /\ Bound(s, k + 1) = Bound(s, k) + CHECK_INTERVAL + 2 * Slack
  <2> DEFINE j == MaxCrashes - k
  <2>1. j \in Nat /\ k \in Nat /\ j * Round \in Nat /\ k * Round \in Nat
    BY <1>0
  <2>2. j * Round + k * Round = MaxCrashes * Round
    BY <1>0
  <2>3. (MaxCrashes - (k + 1)) * Round = j * Round - Round
    BY <1>0
  <2>4. Bound(s, k) = Width(s) - j * Round /\ Bound(s, k + 1) = Width(s) - (j * Round - Round)
    BY <2>3 DEF Bound
  <2> HIDE DEF j
  <2> DEFINE jr == j * Round
             kr == k * Round
             mr == MaxCrashes * Round
  <2>5. jr \in Nat /\ kr \in Nat /\ jr + kr = mr
    BY <2>1, <2>2
  <2>6. /\ Bound(s, k) = Width(s) - jr /\ Bound(s, k + 1) = Width(s) - (jr - Round)
        /\ Chance(s) = Width(s) - mr - 2 * Slack
    BY <1>3, <2>4
  <2> HIDE DEF jr, kr, mr
  <2> QED
    BY <1>0, <1>1, <2>5, <2>6 DEF Round
<1>5. Chance(s) \in Int
  BY <1>0, <1>1, <1>3
<1> QED
  BY <1>0, <1>1, <1>2, <1>4, <1>5

LEMMA EarlyIsDue ==
    ASSUME SchedulerAssumption, RoundsFit, NEW s \in Schedule, NEW t \in Time,
           Elapsed(s, t) <= CHECK_INTERVAL + Width(s)
    PROVE  Due(s, t)
<1>1. Until(s, t) \in Nat /\ Since(s, t) \in Nat /\ Width(s) \in Nat /\ CHECK_INTERVAL \in Nat
  BY CronType, Bounds
<1>2. Window(Interval(s, t)) = Width(s)
  BY DEF RoundsFit
<1> QED
  BY <1>1, <1>2 DEF Due, Elapsed

\* What has once been long enough ago stays so.
LEMMA EnoughGrows ==
    ASSUME SchedulerAssumption, NEW s \in Schedule, NEW a \in Int, NEW b \in Int, a <= b, Enough(s, a)
    PROVE  Enough(s, b)
<1> SUFFICES ASSUME NEW t \in Time
             PROVE  10 * b >= 7 * Interval(s, t) /\ 10 * b >= 7 * IntervalAfter(s, t)
  BY DEF Enough
<1>1. Interval(s, t) \in Nat /\ IntervalAfter(s, t) \in Nat
  BY CronType
<1>2. 10 * a >= 7 * Interval(s, t) /\ 10 * a >= 7 * IntervalAfter(s, t)
  BY DEF Enough
<1> QED
  BY <1>1, <1>2

\* The tests of an entry that is old enough.
LEMMA EnoughPasses ==
    ASSUME SchedulerAssumption, WindowsFit, NEW s \in Schedule, NEW t \in Time,
           NEW a \in Int, Enough(s, a)
    PROVE  /\ a >= 1
           /\ 10 * a >= 7 * Interval(s, t) /\ 10 * a >= 7 * IntervalAfter(s, t)
<1>1. 10 * a >= 7 * Interval(s, t) /\ 10 * a >= 7 * IntervalAfter(s, t)
  BY DEF Enough
<1>2. 7 * IntervalAfter(s, t) > 30 * CHECK_INTERVAL + 10 * Slack /\ IntervalAfter(s, t) \in Nat
  BY IntervalIsLong, CronType
<1> QED
  BY <1>1, <1>2 DEF SchedulerAssumption

LEMMA AgesDiffer ==
    ASSUME SchedulerAssumption, AgeAssumption, WindowsFit, NEW s \in Schedule
    PROVE  MaxAge > Slack /\ MaxAge \in Nat /\ Slack \in Nat
<1>1. 0 \in Time
  BY Zeros
<1>2. 10 * (MaxAge - Slack) >= 7 * Interval(s, 0)
  BY <1>1 DEF AgeAssumption
<1>3. Interval(s, 0) > 0 /\ Interval(s, 0) \in Nat
  <2>1. Since(s, 0) \in 1 .. Period /\ Until(s, 0) \in Nat
    BY <1>1, Nearest, CronType
  <2> QED
    BY <2>1 DEF Interval, SchedulerAssumption
<1> QED
  BY <1>2, <1>3 DEF SchedulerAssumption

-----------------------------------------------------------------------------
(* The timers and the entries.                                             *)

Busy == {"lock"} \cup Critical

\* A pass began as long ago as its timer says, as far as the window goes back.
TimerFits(rec, t) ==
    /\ rec.pc = "down" => rec = Down
    /\ rec.pc = "sleep" => rec.timer <= CHECK_INTERVAL
    /\ rec.pc \notin {"down", "sleep"} =>
          \A s \in Schedule :
              Elapsed(s, t) >= rec.timer => Elapsed(s, rec.at) = Elapsed(s, t) - rec.timer
    /\ rec.pc \in Busy => rec.ts <= rec.timer

TimerInv == \A p \in Scheduler : TimerFits(proc[p], now)

\* An entry was made while a window, or a pass that began in it, was not over.
Stamped(s, age, e) == age = MaxAge \/ e - age <= CHECK_INTERVAL + Width(s) + Slack

StampInv ==
    \A s \in Schedule :
        /\ Stamped(s, last[s], Elapsed(s, now))
        /\ \A p \in Scheduler :
              /\ Stamped(s, proc[p].mem[s], Elapsed(s, now))
              /\ proc[p].pc \in Busy => Stamped(s, proc[p].ts, Elapsed(s, now))

\* What a step of a run does to the record of its instance.
LEMMA RunEffects ==
    ASSUME SchedulerAssumption, TypeInv, NEW p \in Scheduler, RunStep(p)
    PROVE  LET s == proc[p].cur
               a == proc[p]
               b == proc'[p]
               ok == LongEnough(last[s], a.ts, IntervalAfter(s, now))
           IN  /\ s \in Schedule /\ a \in Proc /\ b \in Proc
               /\ b.timer = a.timer /\ b.at = a.at /\ b.up = a.up /\ b.todo = a.todo
               /\ \A q \in Scheduler : q # p => proc'[q] = proc[q]
               /\ UNCHANGED <<now, enabled, crashes>>
               /\ b.pc = "scan" \/ (b.cur = s /\ b.ts = a.ts)
               /\ \/ /\ a.pc = "lock" /\ s \in lock /\ b.pc = "scan"
                     /\ b.mem = a.mem /\ UNCHANGED <<lock, last, fire>>
                  \/ /\ a.pc = "lock" /\ s \notin lock /\ b.pc = "load"
                     /\ b.mem = a.mem /\ lock' = lock \cup {s} /\ UNCHANGED <<last, fire>>
                  \/ /\ a.pc = "load" /\ ok /\ b.pc = "truncate"
                     /\ b.mem = [last EXCEPT ![s] = a.ts] /\ UNCHANGED <<lock, last, fire>>
                  \/ /\ a.pc = "load" /\ ~ok /\ b.pc = "unlock"
                     /\ b.mem = last /\ UNCHANGED <<lock, last, fire>>
                  \/ /\ a.pc = "truncate" /\ b.pc = "save"
                     /\ b.mem = a.mem /\ last' = Nothing /\ UNCHANGED <<lock, fire>>
                  \/ /\ a.pc = "save" /\ b.pc = "call"
                     /\ b.mem = a.mem /\ last' = a.mem /\ UNCHANGED <<lock, fire>>
                  \/ /\ a.pc = "call" /\ b.pc = "unlock"
                     /\ b.mem = a.mem /\ UNCHANGED <<lock, last>>
                     /\ fire'[s] # "open" /\ \A u \in Schedule : u # s => fire'[u] = fire[u]
                  \/ /\ a.pc = "unlock" /\ b.pc = "scan"
                     /\ b.mem = a.mem /\ lock' = lock \ {s} /\ UNCHANGED <<last, fire>>
<1> DEFINE s == proc[p].cur
           a == proc[p]
           ok == LongEnough(last[s], a.ts, IntervalAfter(s, now))
<1>0. a \in Proc /\ proc \in [Scheduler -> Proc] /\ proc' \in [Scheduler -> Proc]
  BY RunStepType DEF TypeInv, TypeOK
<1>1. s \in Schedule
  BY DEF RunStep, CreateLockFile, _load_last_execution, Truncate, _save_last_execution,
         api_run_playbook, Unlink, TypeInv, AtSchedule, Critical
<1>2. ASSUME NEW rec, Become(p, rec)
      PROVE  proc'[p] = rec /\ \A q \in Scheduler : q # p => proc'[q] = proc[q]
  BY <1>0, <1>2 DEF Become
<1>3. /\ NextSchedule(a).pc = "scan" /\ NextSchedule(a).mem = a.mem
      /\ NextSchedule(a).timer = a.timer /\ NextSchedule(a).at = a.at
      /\ NextSchedule(a).up = a.up /\ NextSchedule(a).todo = a.todo
  BY <1>0 DEF NextSchedule, Proc
<1>4. ASSUME NEW pc, Become(p, [a EXCEPT !.pc = pc])
      PROVE  /\ proc'[p].pc = pc /\ proc'[p].mem = a.mem
             /\ proc'[p].timer = a.timer /\ proc'[p].at = a.at
             /\ proc'[p].up = a.up /\ proc'[p].todo = a.todo
             /\ proc'[p].cur = a.cur /\ proc'[p].ts = a.ts
             /\ \A q \in Scheduler : q # p => proc'[q] = proc[q]
  <2>1. proc'[p] = [a EXCEPT !.pc = pc] /\ \A q \in Scheduler : q # p => proc'[q] = proc[q]
    BY <1>2, <1>4
  <2> QED
    BY <1>0, <2>1 DEF Proc
<1>5. CASE CreateLockFile(p) /\ s \in lock
  <2>1. /\ a.pc = "lock" /\ lock' = lock /\ Become(p, NextSchedule(a))
        /\ UNCHANGED <<now, enabled, last, crashes, fire>>
    BY <1>5 DEF CreateLockFile
  <2> QED
    BY <1>0, <1>1, <1>2, <1>3, <1>5, <2>1
<1>6. CASE CreateLockFile(p) /\ s \notin lock
  <2>1. /\ a.pc = "lock" /\ lock' = lock \cup {s} /\ Become(p, [a EXCEPT !.pc = "load"])
        /\ UNCHANGED <<now, enabled, last, crashes, fire>>
    BY <1>6 DEF CreateLockFile
  <2> QED
    BY <1>0, <1>1, <1>4, <1>6, <2>1
<1>7. CASE _load_last_execution(p) /\ ok
  <2> DEFINE mem == [last EXCEPT ![s] = a.ts]
  <2>1. /\ a.pc = "load" /\ Become(p, [a EXCEPT !.pc = "truncate", !.mem = mem])
        /\ UNCHANGED <<now, enabled, lock, last, crashes, fire>>
    BY <1>7 DEF _load_last_execution
  <2> HIDE DEF mem
  <2> DEFINE rec == [a EXCEPT !.pc = "truncate", !.mem = mem]
  <2>2. /\ rec.pc = "truncate" /\ rec.mem = mem /\ rec.timer = a.timer /\ rec.at = a.at
        /\ rec.up = a.up /\ rec.todo = a.todo /\ rec.cur = a.cur /\ rec.ts = a.ts
    BY <1>0 DEF Proc
  <2> HIDE DEF rec
  <2> QED
    BY <1>0, <1>1, <1>2, <1>7, <2>1, <2>2 DEF rec, mem
<1>8. CASE _load_last_execution(p) /\ ~ok
  <2>1. /\ a.pc = "load" /\ Become(p, [a EXCEPT !.pc = "unlock", !.mem = last])
        /\ UNCHANGED <<now, enabled, lock, last, crashes, fire>>
    BY <1>8 DEF _load_last_execution
  <2> DEFINE rec == [a EXCEPT !.pc = "unlock", !.mem = last]
  <2>2. /\ rec.pc = "unlock" /\ rec.mem = last /\ rec.timer = a.timer /\ rec.at = a.at
        /\ rec.up = a.up /\ rec.todo = a.todo /\ rec.cur = a.cur /\ rec.ts = a.ts
    BY <1>0 DEF Proc
  <2> HIDE DEF rec
  <2> QED
    BY <1>0, <1>1, <1>2, <1>8, <2>1, <2>2 DEF rec
<1>9. CASE Truncate(p)
  <2>1. /\ a.pc = "truncate" /\ last' = Nothing /\ Become(p, [a EXCEPT !.pc = "save"])
        /\ UNCHANGED <<now, enabled, lock, crashes, fire>>
    BY <1>9 DEF Truncate
  <2> QED
    BY <1>0, <1>1, <1>4, <2>1
<1>10. CASE _save_last_execution(p)
  <2>1. /\ a.pc = "save" /\ last' = a.mem /\ Become(p, [a EXCEPT !.pc = "call"])
        /\ UNCHANGED <<now, enabled, lock, crashes, fire>>
    BY <1>10 DEF _save_last_execution
  <2> QED
    BY <1>0, <1>1, <1>4, <2>1
<1>11. CASE api_run_playbook(p)
  <2>1. /\ a.pc = "call" /\ Become(p, [a EXCEPT !.pc = "unlock"])
        /\ fire' = [fire EXCEPT ![s] = IF @ \in {"served", "twice"} THEN "twice" ELSE "served"]
        /\ UNCHANGED <<now, enabled, lock, last, crashes>>
    BY <1>11 DEF api_run_playbook
  <2>2. fire'[s] # "open" /\ \A u \in Schedule : u # s => fire'[u] = fire[u]
    BY <1>1, <2>1 DEF TypeInv, TypeOK
  <2> QED
    BY <1>0, <1>1, <1>4, <2>1, <2>2
<1>12. CASE Unlink(p)
  <2>1. /\ a.pc = "unlock" /\ lock' = lock \ {s} /\ Become(p, NextSchedule(a))
        /\ UNCHANGED <<now, enabled, last, crashes, fire>>
    BY <1>12 DEF Unlink
  <2> QED
    BY <1>0, <1>1, <1>2, <1>3, <2>1
<1> QED
  BY <1>5, <1>6, <1>7, <1>8, <1>9, <1>10, <1>11, <1>12 DEF RunStep

\* What a step of a pass does to it.
LEMMA PassEffects ==
    ASSUME SchedulerAssumption, TypeInv, NEW p \in Scheduler, PassStep(p)
    PROVE  LET a == proc[p]
               b == proc'[p]
               same == b.timer = a.timer /\ b.at = a.at
           IN  /\ a \in Proc /\ b \in Proc /\ b.mem = a.mem /\ b.up = a.up
               /\ \A q \in Scheduler : q # p => proc'[q] = proc[q]
               /\ UNCHANGED <<now, enabled, lock, last, crashes, fire>>
               /\ \/ /\ a.pc = "sleep" /\ a.timer = CHECK_INTERVAL /\ b.pc = "scan"
                     /\ b.timer = 0 /\ b.at = now /\ b.todo = {s \in Schedule : enabled[s]}
                  \/ /\ a.pc = "scan" /\ b.pc = "lock" /\ same /\ b.ts = 0
                     /\ b.cur \in a.todo /\ _should_run_now(p, b.cur)
                     /\ a.up = STARTUP_GRACE_PERIOD
                  \/ /\ a.pc = "scan" /\ b.pc = "scan" /\ same
                     /\ \E s \in a.todo : /\ b.todo = a.todo \ {s}
                                          /\ ~(_should_run_now(p, s) /\ a.up = STARTUP_GRACE_PERIOD)
                  \/ a.pc = "scan" /\ a.todo = {} /\ b.pc = "sleep" /\ b.timer = 0
<1> DEFINE a == proc[p]
<1>0. a \in Proc /\ proc \in [Scheduler -> Proc] /\ TypeInv'
  BY StepType DEF TypeInv, TypeOK, Next
<1>1. proc' \in [Scheduler -> Proc]
  BY <1>0 DEF TypeInv, TypeOK
<1>2. ASSUME NEW rec, Become(p, rec)
      PROVE  proc'[p] = rec /\ \A q \in Scheduler : q # p => proc'[q] = proc[q]
  BY <1>0, <1>2 DEF Become
<1>3. CASE _check_and_run_schedules(p)
  <2> DEFINE todo == {s \in Schedule : enabled[s]}
             rec == [a EXCEPT !.pc = "scan", !.timer = 0, !.at = now, !.todo = todo]
  <2>1. /\ a.pc = "sleep" /\ a.timer = CHECK_INTERVAL /\ Become(p, rec)
        /\ UNCHANGED <<now, enabled, lock, last, crashes, fire>>
    BY <1>3 DEF _check_and_run_schedules
  <2> HIDE DEF todo
  <2>2. /\ rec.pc = "scan" /\ rec.timer = 0 /\ rec.at = now /\ rec.todo = todo
        /\ rec.mem = a.mem /\ rec.up = a.up
    BY <1>0 DEF Proc
  <2> HIDE DEF rec
  <2> QED
    BY <1>0, <1>1, <1>2, <2>1, <2>2 DEF todo
<1>4. ASSUME NEW s \in Schedule, Consider(p, s),
             _should_run_now(p, s) /\ a.up = STARTUP_GRACE_PERIOD
      PROVE  /\ proc'[p].mem = a.mem /\ proc'[p].up = a.up /\ proc'[p].pc = "lock"
             /\ proc'[p].timer = a.timer /\ proc'[p].at = a.at /\ proc'[p].ts = 0
             /\ proc'[p].cur = s /\ s \in a.todo /\ a.pc = "scan"
             /\ \A q \in Scheduler : q # p => proc'[q] = proc[q]
             /\ UNCHANGED <<now, enabled, lock, last, crashes, fire>>
  <2> DEFINE rest == [a EXCEPT !.todo = @ \ {s}]
             rec == [rest EXCEPT !.pc = "lock", !.cur = s, !.ts = 0]
  <2>1. /\ a.pc = "scan" /\ s \in a.todo /\ Become(p, rec)
        /\ UNCHANGED <<now, enabled, lock, last, crashes, fire>>
    BY <1>4 DEF Consider
  <2>2. /\ rec.pc = "lock" /\ rec.timer = a.timer /\ rec.at = a.at /\ rec.cur = s
        /\ rec.ts = 0 /\ rec.mem = a.mem /\ rec.up = a.up
    BY <1>0 DEF Proc
  <2> HIDE DEF rec
  <2> QED
    BY <1>2, <2>1, <2>2
<1>5. ASSUME NEW s \in Schedule, Consider(p, s),
             ~(_should_run_now(p, s) /\ a.up = STARTUP_GRACE_PERIOD)
      PROVE  /\ proc'[p].mem = a.mem /\ proc'[p].up = a.up /\ proc'[p].pc = "scan"
             /\ proc'[p].timer = a.timer /\ proc'[p].at = a.at
             /\ proc'[p].todo = a.todo \ {s} /\ s \in a.todo /\ a.pc = "scan"
             /\ \A q \in Scheduler : q # p => proc'[q] = proc[q]
             /\ UNCHANGED <<now, enabled, lock, last, crashes, fire>>
  <2> DEFINE rest == [a EXCEPT !.todo = @ \ {s}]
  <2>1. /\ a.pc = "scan" /\ s \in a.todo /\ Become(p, rest)
        /\ UNCHANGED <<now, enabled, lock, last, crashes, fire>>
    BY <1>5 DEF Consider
  <2>2. /\ rest.pc = a.pc /\ rest.timer = a.timer /\ rest.at = a.at
        /\ rest.todo = a.todo \ {s} /\ rest.mem = a.mem /\ rest.up = a.up
    BY <1>0 DEF Proc
  <2> HIDE DEF rest
  <2> QED
    BY <1>2, <2>1, <2>2
<1>6. CASE EndOfPass(p)
  <2> DEFINE rec == [a EXCEPT !.pc = "sleep", !.timer = 0, !.at = 0]
  <2>1. /\ a.pc = "scan" /\ a.todo = {} /\ Become(p, rec)
        /\ UNCHANGED <<now, enabled, lock, last, crashes, fire>>
    BY <1>6 DEF EndOfPass
  <2>2. rec.pc = "sleep" /\ rec.timer = 0 /\ rec.mem = a.mem /\ rec.up = a.up
    BY <1>0 DEF Proc
  <2> HIDE DEF rec
  <2> QED
    BY <1>0, <1>1, <1>2, <2>1, <2>2
<1>7. ASSUME NEW s \in Schedule, Consider(p, s)
      PROVE  s \in a.todo
  BY <1>7 DEF Consider
<1>8. CASE \E s \in Schedule : Consider(p, s)
  <2>1. PICK s \in Schedule : Consider(p, s)
    BY <1>8
  <2>2. CASE _should_run_now(p, s) /\ a.up = STARTUP_GRACE_PERIOD
    BY <1>0, <1>1, <1>4, <2>1, <2>2
  <2>3. CASE ~(_should_run_now(p, s) /\ a.up = STARTUP_GRACE_PERIOD)
    BY <1>0, <1>1, <1>5, <2>1, <2>3
  <2> QED
    BY <2>2, <2>3
<1> QED
  BY <1>3, <1>6, <1>8 DEF PassStep

\* The other steps of an instance.
LEMMA LifeEffects ==
    ASSUME SchedulerAssumption, TypeInv, NEW p \in Scheduler, start(p) \/ Crash(p)
    PROVE  LET b == proc'[p]
           IN  /\ b \in Proc /\ \A q \in Scheduler : q # p => proc'[q] = proc[q]
               /\ UNCHANGED <<now, enabled, lock, last>>
               /\ \/ /\ start(p) /\ proc[p].pc = "down" /\ b.pc = "sleep"
                     /\ b.timer = CHECK_INTERVAL /\ b.mem = last /\ UNCHANGED <<crashes, fire>>
                  \/ /\ Crash(p) /\ b = Down /\ crashes < MaxCrashes /\ crashes' = crashes + 1
                     /\ fire' = [s \in Schedule |->
                                    IF Holds(p, s) \/ \A q \in Scheduler \ {p} : ~Ready(q)
                                    THEN Excuse(s) ELSE fire[s]]
<1>0. proc \in [Scheduler -> Proc] /\ TypeInv'
  BY StepType DEF TypeInv, TypeOK, Next
<1>1. proc' \in [Scheduler -> Proc]
  BY <1>0 DEF TypeInv, TypeOK
<1>2. CASE start(p)
  <2> DEFINE rec == [Down EXCEPT !.pc = "sleep", !.timer = CHECK_INTERVAL, !.mem = last]
  <2>1. /\ proc[p].pc = "down" /\ proc' = [proc EXCEPT ![p] = rec]
        /\ UNCHANGED <<now, enabled, lock, last, crashes, fire>>
    BY <1>2 DEF start, Become
  <2>2. rec.pc = "sleep" /\ rec.timer = CHECK_INTERVAL /\ rec.mem = last
    BY DEF Down
  <2> HIDE DEF rec
  <2> QED
    BY <1>0, <1>1, <1>2, <2>1, <2>2
<1>3. CASE Crash(p)
  BY <1>0, <1>1, <1>3 DEF Crash, Become
<1> QED
  BY <1>2, <1>3

-----------------------------------------------------------------------------
(* The timers fit.                                                         *)

LEMMA TimerOthers ==
    ASSUME TimerInv, NEW p \in Scheduler, now' = now, TimerFits(proc'[p], now),
           \A q \in Scheduler : q # p => proc'[q] = proc[q]
    PROVE  TimerInv'
<1>1. \A q \in Scheduler : TimerFits(proc'[q], now)
  BY DEF TimerInv
<1>2. \A q \in Scheduler : TimerFits(proc'[q], now')
  BY <1>1
<1> QED
  BY <1>2 DEF TimerInv, TimerFits

LEMMA TickEffects ==
    ASSUME SchedulerAssumption, TypeInv, Tick, NEW p \in Scheduler
    PROVE  LET a == proc[p]
               b == proc'[p]
           IN  /\ a \in Proc /\ b.pc = a.pc
               /\ a.pc = "down" => b = a
               /\ a.pc # "down" =>
                     /\ b.timer = a.timer + 1 /\ b.at = a.at /\ b.todo = a.todo /\ b.cur = a.cur
                     /\ b.up = IF a.up = STARTUP_GRACE_PERIOD THEN a.up ELSE a.up + 1
                     /\ \A s \in Schedule : b.mem[s] = Older(a.mem[s])
                     /\ a.pc = "sleep" => a.timer < CHECK_INTERVAL
                     /\ a.pc # "sleep" => a.timer < Slack
               /\ a.pc \in Busy => b.ts = Older(a.ts)
<1> DEFINE a == proc[p]
           b == proc'[p]
<1>1. a \in Proc /\ b = OlderProc(a) /\ b.pc = a.pc /\ b.cur = a.cur /\ OnTime(p)
  BY TickProc DEF Tick, TypeInv, TypeOK
<1>2. a.pc \in Busy => a.pc # "down" /\ a.cur # NoSchedule
  BY DEF Busy, TypeInv, AtSchedule, SchedulerAssumption, Critical
<1>3. a.pc = "down" => b = a
  BY <1>1 DEF OlderProc
<1>4. ASSUME a.pc # "down"
      PROVE  /\ b.timer = a.timer + 1 /\ b.at = a.at /\ b.todo = a.todo /\ b.cur = a.cur
             /\ b.up = IF a.up = STARTUP_GRACE_PERIOD THEN a.up ELSE a.up + 1
             /\ b.mem = OlderAll(a.mem)
             /\ b.ts = IF a.cur = NoSchedule THEN a.ts ELSE Older(a.ts)
  BY <1>1, <1>4 DEF OlderProc, Proc
<1>5. a.pc # "down" => \A s \in Schedule : b.mem[s] = Older(a.mem[s])
  BY <1>4 DEF OlderAll
<1>6. /\ a.pc = "sleep" => a.timer < CHECK_INTERVAL
      /\ a.pc \notin {"down", "sleep"} => a.timer < Slack
  BY <1>1 DEF OnTime
<1> QED
  BY <1>1, <1>2, <1>3, <1>4, <1>5, <1>6

LEMMA TimerTick ==
    ASSUME SchedulerAssumption, AgeAssumption, WindowsFit, TypeInv, TimerInv, Tick
    PROVE  TimerInv'
<1>0. now \in Time /\ now' = Later(now) /\ now' \in Time
  BY LaterType DEF TypeInv, TypeOK, Tick, Later
<1>1. ASSUME NEW p \in Scheduler
      PROVE  TimerFits(proc'[p], Later(now))
  <2> DEFINE a == proc[p]
             b == proc'[p]
  <2>0. TimerFits(a, now) /\ a \in Proc
    BY DEF TimerInv, TypeInv, TypeOK
  <2>1. /\ b.pc = a.pc /\ (a.pc = "down" => b = a)
        /\ a.pc # "down" =>
              /\ b.timer = a.timer + 1 /\ b.at = a.at
              /\ a.pc = "sleep" => a.timer < CHECK_INTERVAL
        /\ a.pc \in Busy => b.ts = Older(a.ts)
    BY TickEffects
  <2>2. a.timer \in Nat /\ a.ts \in Age /\ a.at \in Time
    BY <2>0 DEF Proc, SchedulerAssumption
  <2> HIDE DEF a, b
  <2>3. b.pc = "down" => b = Down
    BY <2>0, <2>1 DEF TimerFits
  <2>4. b.pc = "sleep" => b.timer <= CHECK_INTERVAL
    BY <2>1, <2>2 DEF SchedulerAssumption
  <2>5. ASSUME b.pc \notin {"down", "sleep"}, NEW s \in Schedule,
               Elapsed(s, Later(now)) >= b.timer
        PROVE  Elapsed(s, b.at) = Elapsed(s, Later(now)) - b.timer
    <3>1. b.timer = a.timer + 1 /\ b.at = a.at /\ a.pc \notin {"down", "sleep"}
      BY <2>1, <2>5
    <3>2. Elapsed(s, now) >= a.timer => Elapsed(s, a.at) = Elapsed(s, now) - a.timer
      BY <2>0, <3>1 DEF TimerFits
    <3>3. Elapsed(s, now) \in Nat /\ Elapsed(s, Later(now)) \in Nat
      BY <1>0, CronType
    <3>4. Elapsed(s, Later(now)) = Elapsed(s, now) + 1 \/ Elapsed(s, Later(now)) = 0
      BY <1>0, ElapsedLater
    <3> QED
      BY <2>2, <2>5, <3>1, <3>2, <3>3, <3>4
  <2>6. ASSUME b.pc \in Busy
        PROVE  b.ts <= b.timer
    <3>1. a.pc \in Busy /\ a.pc # "down"
      BY <2>1, <2>6 DEF Busy, Critical
    <3>2. a.ts <= a.timer /\ b.ts = Older(a.ts) /\ b.timer = a.timer + 1
      BY <2>0, <2>1, <3>1 DEF TimerFits
    <3> QED
      BY <2>2, <3>2 DEF Older, Age, SchedulerAssumption
  <2> QED
    BY <2>3, <2>4, <2>5, <2>6 DEF TimerFits, b
<1>2. \A p \in Scheduler : TimerFits(proc'[p], now')
  BY <1>0, <1>1
<1> QED
  BY <1>2 DEF TimerInv, TimerFits

LEMMA TimerStep ==
    ASSUME SchedulerAssumption, AgeAssumption, WindowsFit, TypeInv, TimerInv, [Next]_vars
    PROVE  TimerInv'
<1>0. now \in Time /\ \A p \in Scheduler : TimerFits(proc[p], now) /\ proc[p] \in Proc
  BY DEF TimerInv, TypeInv, TypeOK
<1>1. CASE \E s \in Schedule : api_save_playbook_schedule(s) \/ api_delete_playbook_schedule(s)
  <2>1. UNCHANGED <<now, proc>>
    BY <1>1 DEF api_save_playbook_schedule, api_delete_playbook_schedule
  <2> QED
    BY <2>1 DEF TimerInv, TimerFits
<1>2. ASSUME NEW p \in Scheduler, start(p) \/ Crash(p)
      PROVE  TimerInv'
  <2>1. /\ now' = now /\ \A q \in Scheduler : q # p => proc'[q] = proc[q]
        /\ \/ proc'[p] = Down
           \/ proc'[p].pc = "sleep" /\ proc'[p].timer = CHECK_INTERVAL
    BY <1>2, LifeEffects
  <2>2. TimerFits(proc'[p], now)
    BY <2>1 DEF TimerFits, Down, Busy, Critical, SchedulerAssumption
  <2> QED
    BY <2>1, <2>2, TimerOthers
<1>3. ASSUME NEW p \in Scheduler, PassStep(p)
      PROVE  TimerInv'
  <2> DEFINE a == proc[p]
             b == proc'[p]
  <2>1. /\ a \in Proc /\ now' = now /\ \A q \in Scheduler : q # p => proc'[q] = proc[q]
        /\ \/ b.pc = "scan" /\ b.timer = 0 /\ b.at = now
           \/ /\ a.pc = "scan" /\ b.pc \in {"lock", "scan"} /\ b.timer = a.timer /\ b.at = a.at
              /\ b.pc = "lock" => b.ts = 0
           \/ b.pc = "sleep" /\ b.timer = 0
    BY <1>3, PassEffects
  <2>2. \A s \in Schedule : Elapsed(s, now) \in Nat
    BY <1>0, CronType
  <2>3. TimerFits(a, now) /\ a.timer \in Nat
    BY <1>0, <2>1 DEF Proc, SchedulerAssumption
  <2> HIDE DEF a, b
  <2>4. TimerFits(b, now)
    BY <2>1, <2>2, <2>3 DEF TimerFits, Busy, Critical, SchedulerAssumption
  <2> QED
    BY <2>1, <2>4, TimerOthers DEF b
<1>4. ASSUME NEW p \in Scheduler, RunStep(p)
      PROVE  TimerInv'
  <2> DEFINE a == proc[p]
             b == proc'[p]
  <2>1. /\ b.timer = a.timer /\ b.at = a.at /\ now' = now
        /\ \A q \in Scheduler : q # p => proc'[q] = proc[q]
        /\ b.pc = "scan" \/ b.ts = a.ts
        /\ a.pc \in Busy /\ b.pc \in Busy \cup {"scan"}
    BY <1>4, RunEffects DEF Busy, Critical
  <2>2. TimerFits(a, now)
    BY <1>0
  <2> HIDE DEF a, b
  <2>3. TimerFits(b, now)
    BY <2>1, <2>2 DEF TimerFits, Busy, Critical
  <2> QED
    BY <2>1, <2>3, TimerOthers DEF b
<1>5. CASE UNCHANGED vars
  BY <1>5 DEF vars, TimerInv, TimerFits
<1> QED
  BY <1>1, <1>2, <1>3, <1>4, <1>5, TimerTick DEF Next

-----------------------------------------------------------------------------
(* Entries are stamped in a window.                                        *)

LEMMA StampedLater ==
    ASSUME SchedulerAssumption, RoundsFit, NEW s \in Schedule, NEW age \in Age,
           NEW e \in Nat, NEW f \in Nat, f = e + 1 \/ f = 0, Stamped(s, age, e)
    PROVE  Stamped(s, Older(age), f)
<1>1. /\ CHECK_INTERVAL \in Nat /\ Slack \in Nat /\ Width(s) \in Nat /\ MaxAge \in Nat
  BY Bounds DEF SchedulerAssumption
<1>2. age \in Nat
  BY <1>1 DEF Age
<1> QED
  BY <1>1, <1>2 DEF Stamped, Older

LEMMA StampTick ==
    ASSUME SchedulerAssumption, WindowsFit, RoundsFit, TypeInv, TimerInv, StampInv, Tick
    PROVE  StampInv'
<1>0. now \in Time /\ now' = Later(now) /\ now' \in Time /\ last' = OlderAll(last)
  BY LaterType DEF TypeInv, TypeOK, Tick, Later
<1>1. ASSUME NEW s \in Schedule
      PROVE  /\ Stamped(s, last'[s], Elapsed(s, now'))
             /\ \A p \in Scheduler :
                   /\ Stamped(s, proc'[p].mem[s], Elapsed(s, now'))
                   /\ proc'[p].pc \in Busy => Stamped(s, proc'[p].ts, Elapsed(s, now'))
  <2> DEFINE e == Elapsed(s, now)
             f == Elapsed(s, now')
  <2>1. e \in Nat /\ f \in Nat /\ (f = e + 1 \/ f = 0)
    BY <1>0, CronType, ElapsedLater
  <2>2. \A age \in Age : Stamped(s, age, e) => Stamped(s, Older(age), f)
    BY <2>1, StampedLater
  <2>3. last[s] \in Age /\ last'[s] = Older(last[s]) /\ Stamped(s, last[s], e)
    BY <1>0 DEF TypeInv, TypeOK, OlderAll, StampInv
  <2>4. ASSUME NEW p \in Scheduler
        PROVE  /\ Stamped(s, proc'[p].mem[s], f)
               /\ proc'[p].pc \in Busy => Stamped(s, proc'[p].ts, f)
    <3> DEFINE a == proc[p]
               b == proc'[p]
    <3>1. /\ a \in Proc /\ b.pc = a.pc /\ (a.pc = "down" => b = a)
          /\ a.pc # "down" => b.mem[s] = Older(a.mem[s])
          /\ a.pc \in Busy => b.ts = Older(a.ts)
      BY TickEffects
    <3>2. a.mem[s] \in Age /\ a.ts \in Age
      BY <3>1 DEF Proc
    <3>3. Stamped(s, a.mem[s], e) /\ (a.pc \in Busy => Stamped(s, a.ts, e))
      BY DEF StampInv
    <3>4. a.pc = "down" => a = Down
      BY DEF TimerInv, TimerFits
    <3>5. Stamped(s, Down.mem[s], f)
      BY DEF Down, Nothing, Stamped
    <3> QED
      BY <2>2, <3>1, <3>2, <3>3, <3>4, <3>5
  <2> QED
    BY <2>2, <2>3, <2>4
<1> QED
  BY <1>1 DEF StampInv

LEMMA StampOthers ==
    ASSUME StampInv, NEW p \in Scheduler, now' = now,
           \A q \in Scheduler : q # p => proc'[q] = proc[q],
           \A s \in Schedule :
              /\ Stamped(s, last'[s], Elapsed(s, now))
              /\ Stamped(s, proc'[p].mem[s], Elapsed(s, now))
              /\ proc'[p].pc \in Busy => Stamped(s, proc'[p].ts, Elapsed(s, now))
    PROVE  StampInv'
<1>1. ASSUME NEW s \in Schedule, NEW q \in Scheduler
      PROVE  /\ Stamped(s, proc'[q].mem[s], Elapsed(s, now))
             /\ proc'[q].pc \in Busy => Stamped(s, proc'[q].ts, Elapsed(s, now))
  BY DEF StampInv
<1>2. \A s \in Schedule : Elapsed(s, now') = Elapsed(s, now)
  OBVIOUS
<1>3. ASSUME NEW s \in Schedule
      PROVE  /\ Stamped(s, last'[s], Elapsed(s, now'))
             /\ \A q \in Scheduler :
                   /\ Stamped(s, proc'[q].mem[s], Elapsed(s, now'))
                   /\ proc'[q].pc \in Busy => Stamped(s, proc'[q].ts, Elapsed(s, now'))
  BY <1>1, <1>2
<1> QED
  BY <1>3 DEF StampInv

LEMMA StampStep ==
    ASSUME SchedulerAssumption, WindowsFit, RoundsFit, OneSchedule,
           TypeInv, PassInv, TimerInv, StampInv, [Next]_vars
    PROVE  StampInv'
<1>0. now \in Time /\ \A s \in Schedule : Elapsed(s, now) \in Nat
  BY CronType DEF TypeInv, TypeOK
<1>s. \A s \in Schedule : Stamped(s, last[s], Elapsed(s, now))
  BY DEF StampInv
<1>n. \A s \in Schedule : Stamped(s, Nothing[s], Elapsed(s, now))
  BY DEF Nothing, Stamped
<1>1. CASE \E s \in Schedule : api_save_playbook_schedule(s) \/ api_delete_playbook_schedule(s)
  <2>1. UNCHANGED <<now, proc, last>>
    BY <1>1 DEF api_save_playbook_schedule, api_delete_playbook_schedule
  <2> QED
    BY <2>1 DEF StampInv
<1>2. ASSUME NEW p \in Scheduler, start(p) \/ Crash(p)
      PROVE  StampInv'
  <2>1. /\ UNCHANGED <<now, last>> /\ \A q \in Scheduler : q # p => proc'[q] = proc[q]
        /\ \/ proc'[p] = Down
           \/ proc'[p].pc = "sleep" /\ proc'[p].mem = last
    BY <1>2, LifeEffects
  <2>2. Down.mem = Nothing /\ Down.pc = "down"
    BY DEF Down
  <2>3. \A s \in Schedule :
           /\ Stamped(s, proc'[p].mem[s], Elapsed(s, now))
           /\ proc'[p].pc \notin Busy
    BY <1>s, <1>n, <2>1, <2>2 DEF Busy, Critical
  <2> QED
    BY <1>s, <2>1, <2>3, StampOthers
<1>3. ASSUME NEW p \in Scheduler, PassStep(p)
      PROVE  StampInv'
  <2> DEFINE a == proc[p]
             b == proc'[p]
  <2>1. /\ a \in Proc /\ b \in Proc /\ b.mem = a.mem /\ UNCHANGED <<now, last>>
        /\ \A q \in Scheduler : q # p => proc'[q] = proc[q]
        /\ \/ b.pc \in {"scan", "sleep"}
           \/ /\ a.pc = "scan" /\ b.pc = "lock" /\ b.ts = 0
              /\ b.cur \in a.todo /\ _should_run_now(p, b.cur)
    BY <1>3, PassEffects
  <2>2. ASSUME a.pc = "scan", b.ts = 0, b.cur \in a.todo, _should_run_now(p, b.cur)
        PROVE  \A s \in Schedule : Stamped(s, b.ts, Elapsed(s, now))
    <3> DEFINE s == b.cur
    <3>1. s \in Schedule /\ a.at \in Time /\ a.timer \in Nat
      BY <2>1, <2>2 DEF Proc, SchedulerAssumption
    <3>2. Due(s, a.at)
      BY <2>2 DEF _should_run_now, Due
    <3>3. Elapsed(s, a.at) <= CHECK_INTERVAL + Width(s)
      BY <3>1, <3>2, DueElapsed DEF RoundsFit
    <3>4. Elapsed(s, now) <= Elapsed(s, a.at) + a.timer /\ a.timer <= Slack
      BY <2>2, <3>1 DEF PassInv, KeepsUp
    <3>5. Elapsed(s, a.at) \in Nat /\ Width(s) \in Nat /\ Slack \in Nat /\ CHECK_INTERVAL \in Nat
      BY <3>1, CronType, Bounds
    <3> HIDE DEF s, a, b
    <3>6. Stamped(s, 0, Elapsed(s, now))
      BY <1>0, <3>1, <3>3, <3>4, <3>5 DEF Stamped
    <3> QED
      BY <2>2, <3>1, <3>6 DEF OneSchedule
  <2>3. \A s \in Schedule :
           /\ Stamped(s, b.mem[s], Elapsed(s, now))
           /\ b.pc \in Busy => Stamped(s, b.ts, Elapsed(s, now))
    BY <2>1, <2>2 DEF StampInv, Busy, Critical
  <2> QED
    BY <1>s, <2>1, <2>3, StampOthers
<1>4. ASSUME NEW p \in Scheduler, RunStep(p)
      PROVE  StampInv'
  <2> DEFINE a == proc[p]
             b == proc'[p]
  <2>1. /\ a \in Proc /\ now' = now
        /\ \A q \in Scheduler : q # p => proc'[q] = proc[q]
        /\ b.pc = "scan" \/ b.ts = a.ts
        /\ b.mem = a.mem \/ b.mem = last \/ b.mem = [last EXCEPT ![a.cur] = a.ts]
        /\ last' = last \/ last' = Nothing \/ last' = a.mem
        /\ a.pc \in Busy /\ b.pc \in Busy \cup {"scan"} /\ a.cur \in Schedule
    BY <1>4, RunEffects DEF Busy, Critical
  <2>2. \A s \in Schedule : Stamped(s, a.mem[s], Elapsed(s, now)) /\ Stamped(s, a.ts, Elapsed(s, now))
    BY <2>1 DEF StampInv
  <2>3. last \in [Schedule -> Age]
    BY DEF TypeInv, TypeOK
  <2> HIDE DEF a, b
  <2>4. \A s \in Schedule : [last EXCEPT ![a.cur] = a.ts][s] \in {last[s], a.ts}
    BY <2>1, <2>3
  <2>5. \A s \in Schedule :
           /\ Stamped(s, last'[s], Elapsed(s, now))
           /\ Stamped(s, b.mem[s], Elapsed(s, now))
           /\ b.pc \in Busy => Stamped(s, b.ts, Elapsed(s, now))
    BY <1>s, <1>n, <2>1, <2>2, <2>4 DEF Busy, Critical
  <2> QED
    BY <2>1, <2>5, StampOthers DEF b
<1>5. CASE UNCHANGED vars
  BY <1>5 DEF vars, StampInv
<1> QED
  BY <1>1, <1>2, <1>3, <1>4, <1>5, StampTick DEF Next

-----------------------------------------------------------------------------
(* What an open fire can count on.                                         *)

\* Old enough to let a run pass from Chance on, e after the window has opened.
Old(s, age, e) == age = MaxAge \/ Enough(s, age - e + Chance(s))

\* An instance has passed the second test and will run the playbook,
Runner(s) == \E p \in Scheduler : Holds(p, s) /\ proc[p].pc \in {"truncate", "save", "call"}

\* or is about to pass it,
Sure(s) ==
    \E p \in Scheduler :
        Holds(p, s) /\ proc[p].pc = "load" /\ Elapsed(s, now) - proc[p].ts >= Chance(s)

\* or will be in time for a pass after the moment b that begins before b and a poll.
OnSchedule(rec, s, e, b) ==
    /\ rec.pc = "sleep" \/ (rec.pc = "scan" /\ s \notin rec.todo)
          => e - rec.timer < IF rec.pc = "sleep" THEN b ELSE b - Slack
    /\ rec.pc = "lock" \/ (rec.pc = "scan" /\ s \in rec.todo)
          => e - rec.timer < b + CHECK_INTERVAL

\* One instance is, and as long as another can crash, every one after the crash.
Expected(s) ==
    /\ \E p \in Scheduler :
          Ready(p) /\ OnSchedule(proc[p], s, Elapsed(s, now), Bound(s, crashes))
    /\ crashes < MaxCrashes =>
          \A p \in Scheduler :
             Ready(p) => OnSchedule(proc[p], s, Elapsed(s, now), Bound(s, crashes + 1))

EntriesOld(s) ==
    /\ Old(s, last[s], Elapsed(s, now))
    /\ \A p \in Scheduler : Old(s, proc[p].mem[s], Elapsed(s, now))

\* Who gives up gave up early.
GaveUpEarly(s) ==
    \A p \in Scheduler :
        Holds(p, s) /\ proc[p].pc = "unlock" => Elapsed(s, now) - proc[p].ts < Chance(s)

Answered(s) ==
    /\ enabled[s] /\ s \notin Abandoned
    /\ Runner(s) \/ EntriesOld(s)
    /\ GaveUpEarly(s)
    /\ Runner(s) \/ Sure(s) \/ Expected(s)

OpenInv == \A s \in Schedule : fire[s] = "open" => Answered(s)

-----------------------------------------------------------------------------
(* The way from one pass to the next.                                      *)

\* The numbers of an instance and their bounds.
LEMMA Numbers ==
    ASSUME SchedulerAssumption, TypeInv, TimerInv, PassInv, NEW p \in Scheduler
    PROVE  /\ proc[p] \in Proc /\ proc[p].timer \in Nat /\ proc[p].ts \in Nat
           /\ proc[p].at \in Time
           /\ proc[p].pc = "sleep" => proc[p].timer <= CHECK_INTERVAL
           /\ proc[p].pc \notin {"down", "sleep"} => proc[p].timer <= Slack
           /\ proc[p].pc \in Busy => proc[p].cur \in Schedule /\ proc[p].ts <= proc[p].timer
           /\ now \in Time /\ \A s \in Schedule : Elapsed(s, now) \in Nat
<1>1. proc[p] \in Proc /\ now \in Time
  BY DEF TypeInv, TypeOK
<1>2. proc[p].timer \in Nat /\ proc[p].ts \in Nat /\ proc[p].at \in Time
  BY <1>1 DEF Proc, Age, SchedulerAssumption
<1>3. /\ proc[p].pc = "sleep" => proc[p].timer <= CHECK_INTERVAL
      /\ proc[p].pc \in Busy => proc[p].ts <= proc[p].timer
  BY DEF TimerInv, TimerFits
<1>4. proc[p].pc \notin {"down", "sleep"} => proc[p].timer <= Slack
  BY DEF PassInv, KeepsUp
<1>5. proc[p].pc \in Busy => proc[p].cur \in Schedule
  BY DEF TypeInv, AtSchedule, Busy
<1> QED
  BY <1>1, <1>2, <1>3, <1>4, <1>5, CronType

\* Without a run on its way, who holds the lock file took its time stamp early.
LEMMA HolderIsEarly ==
    ASSUME SchedulerAssumption, RoundsFit, TypeInv, TimerInv, PassInv, NEW s \in Schedule,
           GaveUpEarly(s), ~Runner(s), ~Sure(s), NEW p \in Scheduler, Holds(p, s)
    PROVE  /\ Elapsed(s, now) - proc[p].ts < Chance(s)
           /\ Elapsed(s, now) - proc[p].timer < Chance(s)
           /\ Elapsed(s, now) < Chance(s) + Slack
<1>1. proc[p].pc \in {"load", "unlock"}
  BY DEF Holds, Critical, Runner
<1>2. /\ Elapsed(s, now) \in Nat /\ proc[p].ts \in Nat /\ proc[p].timer \in Nat
      /\ proc[p].ts <= proc[p].timer /\ proc[p].timer <= Slack
  BY <1>1, Numbers DEF Busy, Critical
<1>3. Chance(s) \in Int /\ Slack \in Nat
  BY Bounds
<1>4. Elapsed(s, now) - proc[p].ts < Chance(s)
  BY <1>1, <1>2, <1>3 DEF GaveUpEarly, Sure
<1> QED
  BY <1>2, <1>3, <1>4

\* While an instance is on schedule, the window is open for as long as another
\* poll takes.
LEMMA TimeLeft ==
    ASSUME SchedulerAssumption, RoundsFit, OneSchedule, TypeInv, TimerInv, PassInv,
           NEW s \in Schedule, GaveUpEarly(s), ~Runner(s), ~Sure(s),
           NEW k \in 0 .. MaxCrashes, NEW p \in Scheduler, Ready(p),
           OnSchedule(proc[p], s, Elapsed(s, now), Bound(s, k))
    PROVE  Elapsed(s, now) < Bound(s, k) + CHECK_INTERVAL + Slack
<1> DEFINE a == proc[p]
           e == Elapsed(s, now)
           b == Bound(s, k)
<1>1. /\ a \in Proc /\ a.timer \in Nat /\ e \in Nat
      /\ a.pc = "sleep" => a.timer <= CHECK_INTERVAL
      /\ a.pc \notin {"down", "sleep"} => a.timer <= Slack
      /\ a.pc \in Busy => a.cur \in Schedule
  BY Numbers
<1>2. /\ b \in Int /\ Chance(s) \in Int /\ Slack \in Nat /\ CHECK_INTERVAL \in Nat
      /\ Chance(s) + 2 * Slack <= b
  BY Bounds
<1>3. a.pc # "down" /\ a.pc \in {"down", "sleep", "scan", "lock"} \cup Critical
  BY <1>1 DEF Ready, Proc
<1>4. CASE a.pc \in Critical
  <2>1. Holds(p, s)
    BY <1>1, <1>4 DEF Holds, OneSchedule, Busy
  <2>2. e < Chance(s) + Slack
    BY <2>1, HolderIsEarly
  <2> HIDE DEF e, b
  <2>3. e < b + CHECK_INTERVAL + Slack
    BY <1>1, <1>2, <2>2
  <2> QED
    BY <2>3 DEF e, b
<1>5. CASE a.pc \in {"sleep", "scan", "lock"}
  <2>1. OnSchedule(a, s, e, b)
    OBVIOUS
  <2> HIDE DEF a, e, b
  <2>2. e < b + CHECK_INTERVAL + Slack
    BY <1>1, <1>2, <1>5, <2>1 DEF OnSchedule
  <2> QED
    BY <2>2 DEF e, b
<1> QED
  BY <1>3, <1>4, <1>5

\* Who comes late is in time for what is left after one more crash.
LEMMA LateIsInTime ==
    ASSUME SchedulerAssumption, RoundsFit, NEW s \in Schedule,
           NEW k \in 0 .. MaxCrashes, NEW rec, NEW e \in Int,
           rec.timer \in Nat, e - rec.timer < Bound(s, k) + CHECK_INTERVAL + Slack
    PROVE  OnSchedule(rec, s, e, Bound(s, k + 1))
<1>1. /\ Bound(s, k) \in Int /\ Slack \in Nat /\ CHECK_INTERVAL \in Nat
      /\ Bound(s, k + 1) = Bound(s, k) + CHECK_INTERVAL + 2 * Slack
  BY Bounds
<1> QED
  BY <1>1 DEF OnSchedule

LEMMA NextBound ==
    ASSUME SchedulerAssumption, RoundsFit, NEW s \in Schedule,
           NEW k \in 0 .. MaxCrashes, NEW rec, NEW e \in Int,
           rec.timer \in Nat, OnSchedule(rec, s, e, Bound(s, k))
    PROVE  OnSchedule(rec, s, e, Bound(s, k + 1))
<1>1. /\ Bound(s, k) \in Int /\ Slack \in Nat /\ CHECK_INTERVAL \in Nat
      /\ Bound(s, k + 1) = Bound(s, k) + CHECK_INTERVAL + 2 * Slack
  BY Bounds
<1> QED
  BY <1>1 DEF OnSchedule

-----------------------------------------------------------------------------
(* The two tests, from Chance on.                                          *)

LEMMA OldIsEnough ==
    ASSUME SchedulerAssumption, RoundsFit, NEW s \in Schedule, NEW age \in Nat,
           NEW e \in Nat, NEW ts \in Nat, Old(s, age, e), e - ts >= Chance(s)
    PROVE  age = MaxAge \/ Enough(s, age - ts)
<1>1. Chance(s) \in Int
  BY Bounds
<1>2. ASSUME age # MaxAge
      PROVE  Enough(s, age - ts)
  <2>1. Enough(s, age - e + Chance(s))
    BY <1>2 DEF Old
  <2>2. age - e + Chance(s) \in Int /\ age - ts \in Int /\ age - e + Chance(s) <= age - ts
    BY <1>1
  <2> QED
    BY <2>1, <2>2, EnoughGrows
<1> QED
  BY <1>2

\* A pass that begins after Chance, before the window closes, finds the schedule due.
LEMMA ChanceIsTaken ==
    ASSUME SchedulerAssumption, AgeAssumption, WindowsFit, RoundsFit,
           TypeInv, TimerInv, PassInv, NEW s \in Schedule, NEW p \in Scheduler,
           proc[p].pc = "scan", Old(s, proc[p].mem[s], Elapsed(s, now)),
           Elapsed(s, now) - proc[p].timer >= Chance(s) + Slack,
           Elapsed(s, now) - proc[p].timer < Width(s) + CHECK_INTERVAL
    PROVE  _should_run_now(p, s)
<1> DEFINE a == proc[p]
           e == Elapsed(s, now)
           m == a.mem[s]
<1>1. a \in Proc /\ a.timer \in Nat /\ a.at \in Time /\ e \in Nat
  BY Numbers
<1>2. /\ Chance(s) \in Int /\ Slack \in Nat /\ CHECK_INTERVAL \in Nat /\ Width(s) \in Nat
      /\ Chance(s) + Slack > 0
  BY Bounds
<1>3. m \in Nat /\ MaxAge \in Nat /\ MaxAge > Slack
  BY <1>1, AgesDiffer DEF Proc, Age
<1>4. e >= a.timer => Elapsed(s, a.at) = e - a.timer
  BY DEF TimerInv, TimerFits
<1>5. Old(s, m, e) /\ e - a.timer >= Chance(s) + Slack /\ e - a.timer < Width(s) + CHECK_INTERVAL
  OBVIOUS
<1>6. Until(s, a.at) \in Nat /\ Interval(s, a.at) \in Nat
  BY <1>1, CronType
<1> HIDE DEF e, m
<1>7. Elapsed(s, a.at) = e - a.timer /\ Elapsed(s, a.at) <= CHECK_INTERVAL + Width(s)
  BY <1>1, <1>2, <1>4, <1>5
<1>8. Due(s, a.at)
  BY <1>1, <1>7, EarlyIsDue
<1>9. m = MaxAge \/ Enough(s, m)
  <2>1. e - 0 >= Chance(s) /\ 0 \in Nat /\ m - 0 = m
    BY <1>1, <1>2, <1>3, <1>5
  <2>2. m = MaxAge \/ Enough(s, m - 0)
    BY <1>1, <1>3, <1>5, <2>1, OldIsEnough
  <2> QED
    BY <2>1, <2>2
<1>10. ASSUME m # MaxAge
       PROVE  m >= 1 /\ 10 * m >= 7 * Interval(s, a.at)
  BY <1>1, <1>3, <1>9, <1>10, EnoughPasses
<1>11. NotRecently(m, Until(s, a.at), Interval(s, a.at))
  BY <1>2, <1>3, <1>6, <1>10 DEF NotRecently, LongEnough
<1> QED
  BY <1>8, <1>11 DEF _should_run_now, Due, m

\* Who read the file after Chance runs the playbook.
LEMMA SureIsRight ==
    ASSUME SchedulerAssumption, WindowsFit, RoundsFit, NEW s \in Schedule, NEW t \in Time,
           NEW age \in Nat, NEW e \in Nat, NEW ts \in Nat, Old(s, age, e), e - ts >= Chance(s)
    PROVE  LongEnough(age, ts, IntervalAfter(s, t))
<1>1. age = MaxAge \/ Enough(s, age - ts)
  BY OldIsEnough
<1>2. CASE Enough(s, age - ts)
  BY <1>2, EnoughPasses DEF LongEnough
<1> QED
  BY <1>1, <1>2 DEF LongEnough

-----------------------------------------------------------------------------
(* What a step keeps of it.                                                *)

LEMMA NotHolding ==
    ASSUME NEW s \in Schedule, NEW p \in Scheduler, UNCHANGED <<now, lock>>,
           proc[p].pc \notin Critical, proc'[p].pc \notin Critical,
           \A q \in Scheduler : q # p => proc'[q] = proc[q]
    PROVE  /\ Runner(s)' <=> Runner(s)
           /\ Sure(s)' <=> Sure(s)
           /\ GaveUpEarly(s) => GaveUpEarly(s)'
           /\ Abandoned' = Abandoned
<1>1. \A q \in Scheduler, u \in Schedule : Holds(q, u)' <=> Holds(q, u)
  BY DEF Holds
<1>2. \A q \in Scheduler, u \in Schedule : Holds(q, u) => proc'[q] = proc[q]
  BY DEF Holds
<1>3. Elapsed(s, now)' = Elapsed(s, now)
  OBVIOUS
<1>4. Runner(s)' <=> Runner(s)
  BY <1>1, <1>2 DEF Runner
<1>5. Sure(s)' <=> Sure(s)
  BY <1>1, <1>2, <1>3 DEF Sure
<1>6. GaveUpEarly(s) => GaveUpEarly(s)'
  BY <1>1, <1>2, <1>3 DEF GaveUpEarly
<1>7. Abandoned' = Abandoned
  BY <1>1 DEF Abandoned, Holds
<1> QED
  BY <1>4, <1>5, <1>6, <1>7

LEMMA EntriesKept ==
    ASSUME NEW s \in Schedule, NEW p \in Scheduler, UNCHANGED <<now, last>>, EntriesOld(s),
           Old(s, proc'[p].mem[s], Elapsed(s, now)),
           \A q \in Scheduler : q # p => proc'[q] = proc[q]
    PROVE  EntriesOld(s)'
<1>1. \A q \in Scheduler : Old(s, proc'[q].mem[s], Elapsed(s, now'))
  BY DEF EntriesOld
<1>2. Old(s, last'[s], Elapsed(s, now'))
  BY DEF EntriesOld
<1> QED
  BY <1>1, <1>2 DEF EntriesOld

\* An instance that stays ready and on schedule leaves what is expected.
LEMMA ExpectedKept ==
    ASSUME SchedulerAssumption, NEW s \in Schedule, NEW p \in Scheduler, crashes \in 0 .. MaxCrashes,
           UNCHANGED <<now, crashes>>, \A q \in Scheduler : q # p => proc'[q] = proc[q],
           Expected(s), Ready(p)' <=> Ready(p),
           \A k \in 0 .. MaxCrashes :
              Ready(p) /\ OnSchedule(proc[p], s, Elapsed(s, now), Bound(s, k))
              => OnSchedule(proc'[p], s, Elapsed(s, now), Bound(s, k))
    PROVE  Expected(s)'
<1> DEFINE e == Elapsed(s, now)
           b == Bound(s, crashes)
           c == Bound(s, crashes + 1)
<1>1. \A q \in Scheduler : Ready(q)' <=> Ready(q)
  BY DEF Ready
<1>2. \A q \in Scheduler : Ready(q) /\ OnSchedule(proc[q], s, e, b) => OnSchedule(proc'[q], s, e, b)
  OBVIOUS
<1>3. ASSUME crashes < MaxCrashes
      PROVE  \A q \in Scheduler :
                Ready(q) /\ OnSchedule(proc[q], s, e, c) => OnSchedule(proc'[q], s, e, c)
  <2>1. crashes + 1 \in 0 .. MaxCrashes
    BY <1>3 DEF SchedulerAssumption
  <2> QED
    BY <2>1
<1>4. Elapsed(s, now)' = e /\ Bound(s, crashes)' = b /\ Bound(s, crashes + 1)' = c
  OBVIOUS
<1>5. /\ \E q \in Scheduler : Ready(q) /\ OnSchedule(proc[q], s, e, b)
      /\ crashes < MaxCrashes => \A q \in Scheduler : Ready(q) => OnSchedule(proc[q], s, e, c)
  BY DEF Expected
<1> HIDE DEF e, b, c
<1>6. /\ \E q \in Scheduler : Ready(q)' /\ OnSchedule(proc'[q], s, e, b)
      /\ crashes < MaxCrashes => \A q \in Scheduler : Ready(q)' => OnSchedule(proc'[q], s, e, c)
  BY <1>1, <1>2, <1>3, <1>5
<1> QED
  BY <1>4, <1>6 DEF Expected

LEMMA PassOnSchedule ==
    ASSUME SchedulerAssumption, AgeAssumption, WindowsFit, RoundsFit, OneSchedule,
           TypeInv, TimerInv, PassInv, NEW s \in Schedule, NEW p \in Scheduler, PassStep(p),
           enabled[s], EntriesOld(s), NEW k \in 0 .. MaxCrashes, Ready(p),
           OnSchedule(proc[p], s, Elapsed(s, now), Bound(s, k))
    PROVE  OnSchedule(proc'[p], s, Elapsed(s, now), Bound(s, k))
<1> DEFINE a == proc[p]
           c == proc'[p]
           e == Elapsed(s, now)
           b == Bound(s, k)
<1>1. /\ b \in Int /\ Chance(s) \in Int /\ Slack \in Nat /\ CHECK_INTERVAL \in Nat
      /\ Width(s) \in Nat /\ b <= Width(s) /\ Chance(s) + 2 * Slack <= b
  BY Bounds
<1>2. /\ a \in Proc /\ a.timer \in Nat /\ e \in Nat
      /\ a.pc \notin {"down", "sleep"} => a.timer <= Slack
  BY Numbers
<1>3. OnSchedule(a, s, e, b)
  OBVIOUS
<1>4. \A u \in a.todo : u = s
  BY <1>2 DEF Proc, OneSchedule
<1>5. ASSUME a.pc = "scan", ~_should_run_now(p, s), e - a.timer < b + CHECK_INTERVAL
      PROVE  e - a.timer < b - Slack
  <2>1. Old(s, a.mem[s], e)
    BY DEF EntriesOld
  <2>2. ~(e - a.timer >= Chance(s) + Slack /\ e - a.timer < Width(s) + CHECK_INTERVAL)
    BY <1>5, <2>1, ChanceIsTaken
  <2>3. e - a.timer < b + CHECK_INTERVAL
    BY <1>5
  <2> HIDE DEF a, e, b
  <2> QED
    BY <1>1, <1>2, <2>2, <2>3
<1>6. /\ c.pc = "sleep" \/ (c.pc = "scan" /\ s \notin c.todo)
            => e - c.timer < IF c.pc = "sleep" THEN b ELSE b - Slack
      /\ c.pc = "lock" \/ (c.pc = "scan" /\ s \in c.todo)
            => e - c.timer < b + CHECK_INTERVAL
  <2>1. \/ /\ a.pc = "sleep" /\ a.timer = CHECK_INTERVAL /\ c.pc = "scan"
           /\ c.timer = 0 /\ c.todo = {u \in Schedule : enabled[u]}
        \/ /\ a.pc = "scan" /\ c.pc = "lock" /\ c.timer = a.timer /\ c.cur \in a.todo
        \/ /\ a.pc = "scan" /\ c.pc = "scan" /\ c.timer = a.timer
           /\ \E u \in a.todo : /\ c.todo = a.todo \ {u}
                                /\ ~(_should_run_now(p, u) /\ a.up = STARTUP_GRACE_PERIOD)
        \/ a.pc = "scan" /\ a.todo = {} /\ c.pc = "sleep" /\ c.timer = 0
    BY PassEffects
  <2>2. CASE /\ a.pc = "sleep" /\ a.timer = CHECK_INTERVAL /\ c.pc = "scan"
             /\ c.timer = 0 /\ c.todo = {u \in Schedule : enabled[u]}
    <3>1. s \in c.todo
      BY <2>2
    <3> HIDE DEF a, c, e, b
    <3> QED
      BY <1>1, <1>2, <1>3, <2>2, <3>1 DEF OnSchedule
  <2>3. CASE a.pc = "scan" /\ c.pc = "lock" /\ c.timer = a.timer /\ c.cur \in a.todo
    <3>1. s \in a.todo
      BY <1>4, <2>3
    <3> HIDE DEF a, c, e, b
    <3> QED
      BY <1>1, <1>2, <1>3, <2>3, <3>1 DEF OnSchedule
  <2>4. CASE /\ a.pc = "scan" /\ c.pc = "scan" /\ c.timer = a.timer
             /\ \E u \in a.todo : /\ c.todo = a.todo \ {u}
                                  /\ ~(_should_run_now(p, u) /\ a.up = STARTUP_GRACE_PERIOD)
    <3>1. s \in a.todo /\ s \notin c.todo /\ ~_should_run_now(p, s)
      BY <1>4, <2>4 DEF Ready
    <3>2. e - a.timer < b + CHECK_INTERVAL
      BY <1>3, <2>4, <3>1 DEF OnSchedule
    <3>3. e - a.timer < b - Slack
      BY <1>5, <2>4, <3>1, <3>2
    <3> HIDE DEF a, c, e, b
    <3> QED
      BY <1>1, <1>2, <2>4, <3>1, <3>3
  <2>5. CASE a.pc = "scan" /\ a.todo = {} /\ c.pc = "sleep" /\ c.timer = 0
    <3>1. e - a.timer < b - Slack
      BY <1>3, <2>5 DEF OnSchedule
    <3> HIDE DEF a, c, e, b
    <3> QED
      BY <1>1, <1>2, <2>5, <3>1
  <2> QED
    BY <2>1, <2>2, <2>3, <2>4, <2>5
<1> QED
  BY <1>6 DEF OnSchedule

LEMMA PassAnswered ==
    ASSUME SchedulerAssumption, AgeAssumption, WindowsFit, RoundsFit, OneSchedule,
           TypeInv, TimerInv, PassInv, NEW s \in Schedule, NEW p \in Scheduler, PassStep(p),
           Answered(s)
    PROVE  Answered(s)'
<1>1. /\ proc'[p].mem = proc[p].mem /\ proc'[p].up = proc[p].up
      /\ \A q \in Scheduler : q # p => proc'[q] = proc[q]
      /\ UNCHANGED <<now, enabled, lock, last, crashes>>
      /\ proc[p].pc \in {"sleep", "scan"} /\ proc'[p].pc \in {"sleep", "scan", "lock"}
  BY PassEffects
<1>2. proc[p].pc \notin Critical /\ proc'[p].pc \notin Critical
  BY <1>1 DEF Critical
<1>3. /\ Runner(s)' <=> Runner(s)
      /\ Sure(s)' <=> Sure(s)
      /\ GaveUpEarly(s)'
      /\ Abandoned' = Abandoned
  BY <1>1, <1>2, NotHolding DEF Answered
<1>4. ASSUME EntriesOld(s)
      PROVE  EntriesOld(s)'
  <2>1. Old(s, proc'[p].mem[s], Elapsed(s, now))
    BY <1>1, <1>4 DEF EntriesOld
  <2> QED
    BY <1>1, <1>4, <2>1, EntriesKept
<1>5. ASSUME EntriesOld(s), Expected(s)
      PROVE  Expected(s)'
  <2>1. Ready(p)' <=> Ready(p)
    BY <1>1 DEF Ready
  <2>2. crashes \in 0 .. MaxCrashes
    BY DEF TypeInv, TypeOK
  <2>3. \A k \in 0 .. MaxCrashes :
           Ready(p) /\ OnSchedule(proc[p], s, Elapsed(s, now), Bound(s, k))
           => OnSchedule(proc'[p], s, Elapsed(s, now), Bound(s, k))
    BY <1>5, PassOnSchedule DEF Answered
  <2> QED
    BY <1>1, <1>5, <2>1, <2>2, <2>3, ExpectedKept
<1>6. enabled'[s] /\ s \notin Abandoned'
  BY <1>1, <1>3 DEF Answered
<1> QED
  BY <1>3, <1>4, <1>5, <1>6 DEF Answered

LEMMA RunOnSchedule ==
    ASSUME SchedulerAssumption, RoundsFit, OneSchedule,
           TypeInv, TimerInv, PassInv, NEW s \in Schedule, NEW p \in Scheduler, RunStep(p),
           s \notin Abandoned, GaveUpEarly(s), ~Runner(s), ~Sure(s),
           NEW k \in 0 .. MaxCrashes
    PROVE  OnSchedule(proc'[p], s, Elapsed(s, now), Bound(s, k))
<1> DEFINE a == proc[p]
           c == proc'[p]
           e == Elapsed(s, now)
           b == Bound(s, k)
<1>1. /\ b \in Int /\ Chance(s) \in Int /\ Slack \in Nat /\ CHECK_INTERVAL \in Nat
      /\ Chance(s) + 2 * Slack <= b
  BY Bounds
<1>2. a \in Proc /\ a.timer \in Nat /\ e \in Nat /\ (a.pc \in Busy => a.cur = s)
  BY Numbers DEF OneSchedule
<1>3. /\ c.timer = a.timer
      /\ \/ a.pc = "lock" /\ a.cur \in lock /\ c.pc = "scan"
         \/ a.pc = "unlock" /\ c.pc = "scan"
         \/ c.pc \in Critical
  BY RunEffects DEF Critical
<1>4. CASE a.pc = "lock" /\ a.cur \in lock /\ c.pc = "scan"
  <2>1. s \in lock
    BY <1>2, <1>4 DEF Busy
  <2>2. PICK q \in Scheduler : Holds(q, s)
    BY <2>1 DEF Abandoned
  <2>3. e < Chance(s) + Slack
    BY <2>2, HolderIsEarly
  <2> HIDE DEF a, c, e, b
  <2>4. OnSchedule(c, s, e, b)
    BY <1>1, <1>2, <1>3, <1>4, <2>3 DEF OnSchedule
  <2> QED
    BY <2>4 DEF c, e, b
<1>5. CASE a.pc = "unlock" /\ c.pc = "scan"
  <2>1. Holds(p, s)
    BY <1>2, <1>5 DEF Holds, Busy, Critical
  <2>2. e - a.timer < Chance(s)
    BY <2>1, HolderIsEarly
  <2> HIDE DEF a, c, e, b
  <2>3. OnSchedule(c, s, e, b)
    BY <1>1, <1>2, <1>3, <1>5, <2>2 DEF OnSchedule
  <2> QED
    BY <2>3 DEF c, e, b
<1>6. CASE c.pc \in Critical
  BY <1>6 DEF OnSchedule, Critical
<1> QED
  BY <1>3, <1>4, <1>5, <1>6

\* Who will run the playbook does, or dies.
LEMMA RunnerStays ==
    ASSUME SchedulerAssumption, OneSchedule, TypeInv,
           NEW s \in Schedule, NEW p \in Scheduler, RunStep(p), fire'[s] = "open", Runner(s)
    PROVE  Runner(s)'
<1>1. PICK q \in Scheduler : Holds(q, s) /\ proc[q].pc \in {"truncate", "save", "call"}
  BY DEF Runner
<1>2. CASE q = p
  <2>1. /\ proc'[p].pc \in {"save", "call"} \/ (proc[p].pc = "call" /\ fire'[proc[p].cur] # "open")
        /\ proc'[p].pc = "scan" \/ proc'[p].cur = proc[p].cur
    BY <1>1, <1>2, RunEffects
  <2>2. proc[p].cur = s
    BY <1>1, <1>2 DEF Holds
  <2>3. proc'[p].pc \in {"save", "call"} /\ proc'[p].cur = s
    BY <2>1, <2>2
  <2>4. Holds(p, s)'
    BY <2>3 DEF Holds, Critical
  <2> QED
    BY <2>3, <2>4 DEF Runner
<1>3. CASE q # p
  <2>1. proc'[q] = proc[q]
    BY <1>3, RunEffects
  <2>2. Holds(q, s)'
    BY <1>1, <2>1 DEF Holds
  <2> QED
    BY <1>1, <2>1, <2>2 DEF Runner
<1> QED
  BY <1>2, <1>3

\* What is sure comes true.
LEMMA SureStays ==
    ASSUME SchedulerAssumption, WindowsFit, RoundsFit, OneSchedule, TypeInv, TimerInv, PassInv,
           NEW s \in Schedule, NEW p \in Scheduler, RunStep(p), Sure(s),
           Old(s, last[s], Elapsed(s, now))
    PROVE  Runner(s)' \/ Sure(s)'
<1>1. PICK q \in Scheduler :
           Holds(q, s) /\ proc[q].pc = "load" /\ Elapsed(s, now) - proc[q].ts >= Chance(s)
  BY DEF Sure
<1>2. CASE q = p
  <2>1. proc[p].cur = s /\ proc[p].ts \in Nat /\ now \in Time /\ Elapsed(s, now) \in Nat
    BY <1>1, <1>2, Numbers DEF Holds
  <2>2. last[s] \in Nat
    BY DEF TypeInv, TypeOK, Age, SchedulerAssumption
  <2>3. LongEnough(last[s], proc[p].ts, IntervalAfter(s, now))
    BY <1>1, <1>2, <2>1, <2>2, SureIsRight
  <2>4. proc'[p].pc = "truncate" /\ proc'[p].cur = s
    BY <1>1, <1>2, <2>1, <2>3, RunEffects
  <2>5. Holds(p, s)'
    BY <2>4 DEF Holds, Critical
  <2> QED
    BY <2>4, <2>5 DEF Runner
<1>3. CASE q # p
  <2>1. proc'[q] = proc[q] /\ now' = now
    BY <1>3, RunEffects
  <2>2. Holds(q, s)' /\ Elapsed(s, now)' = Elapsed(s, now)
    BY <1>1, <2>1 DEF Holds
  <2> QED
    BY <1>1, <2>1, <2>2 DEF Sure
<1> QED
  BY <1>2, <1>3

LEMMA RunAnswered ==
    ASSUME SchedulerAssumption, AgeAssumption, WindowsFit, RoundsFit, OneSchedule,
           TypeInv, OneHolder, TimerInv, PassInv,
           NEW s \in Schedule, NEW p \in Scheduler, RunStep(p), fire'[s] = "open", Answered(s)
    PROVE  Answered(s)'
<1> DEFINE a == proc[p]
           c == proc'[p]
           e == Elapsed(s, now)
           ok == LongEnough(last[s], a.ts, IntervalAfter(s, now))
<1>1. /\ a.cur = s /\ c.up = a.up
      /\ \A q \in Scheduler : q # p => proc'[q] = proc[q]
      /\ UNCHANGED <<now, enabled, crashes>>
      /\ c.pc = "scan" \/ (c.cur = s /\ c.ts = a.ts)
      /\ \/ /\ a.pc = "lock" /\ s \in lock /\ c.pc = "scan" /\ c.mem = a.mem /\ UNCHANGED <<lock, last>>
         \/ /\ a.pc = "lock" /\ c.pc = "load" /\ c.mem = a.mem /\ UNCHANGED last
         \/ /\ a.pc = "load" /\ c.pc = "truncate" /\ UNCHANGED <<lock, last>>
         \/ /\ a.pc = "load" /\ ~ok /\ c.pc = "unlock" /\ c.mem = last /\ UNCHANGED <<lock, last>>
         \/ /\ a.pc = "truncate" /\ c.pc = "save"
         \/ /\ a.pc = "save" /\ c.pc = "call"
         \/ /\ a.pc = "unlock" /\ c.pc = "scan" /\ c.mem = a.mem /\ lock' = lock \ {s} /\ UNCHANGED last
  <2>1. a.cur = s
    BY RunEffects DEF OneSchedule
  <2>2. LongEnough(last[a.cur], a.ts, IntervalAfter(a.cur, now)) <=> ok
    BY <2>1
  <2>3. fire'[a.cur] = "open"
    BY <2>1
  <2>4. /\ c.up = a.up
        /\ \A q \in Scheduler : q # p => proc'[q] = proc[q]
        /\ UNCHANGED <<now, enabled, crashes>>
        /\ c.pc = "scan" \/ (c.cur = a.cur /\ c.ts = a.ts)
    BY RunEffects
  <2> DEFINE same == LongEnough(last[a.cur], a.ts, IntervalAfter(a.cur, now))
  <2>5. \/ /\ a.pc = "lock" /\ a.cur \in lock /\ c.pc = "scan"
           /\ c.mem = a.mem /\ UNCHANGED <<lock, last, fire>>
        \/ /\ a.pc = "lock" /\ a.cur \notin lock /\ c.pc = "load"
           /\ c.mem = a.mem /\ lock' = lock \cup {a.cur} /\ UNCHANGED <<last, fire>>
        \/ /\ a.pc = "load" /\ same /\ c.pc = "truncate"
           /\ c.mem = [last EXCEPT ![a.cur] = a.ts] /\ UNCHANGED <<lock, last, fire>>
        \/ /\ a.pc = "load" /\ ~same /\ c.pc = "unlock"
           /\ c.mem = last /\ UNCHANGED <<lock, last, fire>>
        \/ /\ a.pc = "truncate" /\ c.pc = "save"
           /\ c.mem = a.mem /\ last' = Nothing /\ UNCHANGED <<lock, fire>>
        \/ /\ a.pc = "save" /\ c.pc = "call"
           /\ c.mem = a.mem /\ last' = a.mem /\ UNCHANGED <<lock, fire>>
        \/ /\ a.pc = "call" /\ c.pc = "unlock"
           /\ c.mem = a.mem /\ UNCHANGED <<lock, last>>
           /\ fire'[a.cur] # "open" /\ \A u \in Schedule : u # a.cur => fire'[u] = fire[u]
        \/ /\ a.pc = "unlock" /\ c.pc = "scan"
           /\ c.mem = a.mem /\ lock' = lock \ {a.cur} /\ UNCHANGED <<last, fire>>
    BY RunEffects
  <2> HIDE DEF ok, same
  <2>6. same <=> ok
    BY <2>2 DEF same
  <2> HIDE DEF a, c
  <2> QED
    BY <2>1, <2>3, <2>4, <2>5, <2>6
<1>2. \A q \in Scheduler : q # p => (Holds(q, s)' <=> Holds(q, s))
  BY <1>1 DEF Holds
<1>3. c.pc \in Critical <=> Holds(p, s)'
  BY <1>1 DEF Holds, Critical
<1>4. a.pc \in Critical <=> Holds(p, s)
  BY <1>1 DEF Holds
<1>5. /\ a.timer \in Nat /\ a.ts \in Nat /\ now \in Time /\ e \in Nat /\ last[s] \in Nat
      /\ crashes \in 0 .. MaxCrashes /\ Chance(s) \in Int
  BY Numbers, Bounds DEF TypeInv, TypeOK, Age, SchedulerAssumption
<1>6. enabled'[s]
  BY <1>1 DEF Answered
<1>7. s \notin Abandoned'
  <2>1. CASE c.pc \in Critical
    BY <1>3, <2>1 DEF Abandoned
  <2>2. CASE a.pc = "lock" /\ s \in lock /\ c.pc = "scan"
    <3>1. PICK q \in Scheduler : Holds(q, s)
      BY <2>2 DEF Answered, Abandoned
    <3>2. q # p
      BY <2>2, <3>1 DEF Holds, Critical
    <3> QED
      BY <1>2, <3>1, <3>2 DEF Abandoned
  <2>3. CASE lock' = lock \ {s}
    BY <2>3 DEF Abandoned
  <2> QED
    BY <1>1, <2>1, <2>2, <2>3 DEF Critical
<1>8. Runner(s) => Runner(s)'
  BY RunnerStays
<1>9. ASSUME ~Runner(s), ~Runner(s)'
      PROVE  EntriesOld(s)'
  <2>1. EntriesOld(s)
    BY <1>9 DEF Answered
  <2>2. c.pc \notin {"truncate", "save", "call"}
    BY <1>3, <1>9 DEF Runner, Critical
  <2>3. last' = last /\ (c.mem = a.mem \/ c.mem = last)
    BY <1>1, <2>2
  <2>4. Old(s, c.mem[s], e)
    BY <2>1, <2>3 DEF EntriesOld
  <2> QED
    BY <1>1, <2>1, <2>3, <2>4, EntriesKept
<1>10. \A q \in Scheduler :
          Holds(q, s)' /\ proc'[q].pc = "unlock" => e - proc'[q].ts < Chance(s)
  <2>1. ASSUME c.pc = "unlock"
        PROVE  e - c.ts < Chance(s)
    <3>1. a.pc = "load" /\ ~ok /\ c.ts = a.ts
      BY <1>1, <2>1
    <3>2. Holds(p, s)
      BY <1>4, <3>1 DEF Critical
    <3>3. ~Runner(s)
      BY <3>1, <3>2 DEF Runner, OneHolder
    <3>4. Old(s, last[s], e)
      BY <3>3 DEF Answered, EntriesOld
    <3>5. ~(e - a.ts >= Chance(s))
      BY <1>5, <3>1, <3>4, SureIsRight
    <3> QED
      BY <1>5, <3>1, <3>5
  <2>2. ASSUME NEW q \in Scheduler, q # p, Holds(q, s), proc[q].pc = "unlock"
        PROVE  e - proc[q].ts < Chance(s)
    BY <2>2 DEF Answered, GaveUpEarly
  <2> QED
    BY <1>1, <1>2, <2>1, <2>2
<1>11. GaveUpEarly(s)'
  BY <1>1, <1>10 DEF GaveUpEarly
<1>12. ASSUME ~Runner(s), Sure(s)
       PROVE  Runner(s)' \/ Sure(s)'
  BY <1>12, SureStays DEF Answered, EntriesOld
<1>13. ASSUME ~Runner(s), ~Sure(s)
       PROVE  Expected(s)'
  <2>1. Expected(s) /\ s \notin Abandoned /\ GaveUpEarly(s)
    BY <1>13 DEF Answered
  <2>2. Ready(p)' <=> Ready(p)
    BY <1>1 DEF Ready
  <2>3. \A k \in 0 .. MaxCrashes : OnSchedule(c, s, e, Bound(s, k))
    BY <1>13, <2>1, RunOnSchedule
  <2> QED
    BY <1>1, <1>5, <2>1, <2>2, <2>3, ExpectedKept
<1> QED
  BY <1>6, <1>7, <1>8, <1>9, <1>11, <1>12, <1>13 DEF Answered

LEMMA StartAnswered ==
    ASSUME SchedulerAssumption, RoundsFit, OneSchedule, TypeInv, TimerInv, PassInv,
           NEW s \in Schedule, NEW p \in Scheduler, start(p), Answered(s)
    PROVE  Answered(s)'
<1>1. /\ proc[p].pc = "down" /\ proc'[p].pc = "sleep" /\ proc'[p].timer = CHECK_INTERVAL
      /\ proc'[p].mem = last
      /\ \A q \in Scheduler : q # p => proc'[q] = proc[q]
      /\ UNCHANGED <<now, enabled, lock, last, crashes>>
  <2>1. ~Crash(p)
    BY DEF start, Crash
  <2> QED
    BY <2>1, LifeEffects
<1>2. proc[p].pc \notin Critical /\ proc'[p].pc \notin Critical
  BY <1>1 DEF Critical
<1>3. /\ Runner(s)' <=> Runner(s)
      /\ Sure(s)' <=> Sure(s)
      /\ GaveUpEarly(s)'
      /\ Abandoned' = Abandoned
  BY <1>1, <1>2, NotHolding DEF Answered
<1>4. ASSUME EntriesOld(s)
      PROVE  EntriesOld(s)'
  <2>1. Old(s, proc'[p].mem[s], Elapsed(s, now))
    BY <1>1, <1>4 DEF EntriesOld
  <2> QED
    BY <1>1, <1>4, <2>1, EntriesKept
<1>5. ASSUME ~Runner(s), ~Sure(s)
      PROVE  Expected(s)'
  <2> DEFINE e == Elapsed(s, now)
             b == Bound(s, crashes)
             c == Bound(s, crashes + 1)
  <2>1. crashes \in 0 .. MaxCrashes /\ e \in Nat
    BY Numbers DEF TypeInv, TypeOK
  <2>2. PICK q \in Scheduler : Ready(q) /\ OnSchedule(proc[q], s, e, b)
    BY <1>5 DEF Answered, Expected
  <2>3. q # p
    BY <1>1, <2>2 DEF Ready
  <2>4. Ready(q)' /\ OnSchedule(proc'[q], s, e, b)
    BY <1>1, <2>2, <2>3 DEF Ready
  <2>5. ASSUME crashes < MaxCrashes, NEW r \in Scheduler, Ready(r)'
        PROVE  OnSchedule(proc'[r], s, e, c)
    <3>1. CASE r = p
      <4>1. e < b + CHECK_INTERVAL + Slack
        BY <1>5, <2>1, <2>2, TimeLeft DEF Answered
      <4>2. /\ proc'[p].timer \in Nat /\ CHECK_INTERVAL \in Nat /\ Slack \in Nat
            /\ proc'[p].timer = CHECK_INTERVAL /\ b \in Int
        BY <1>1, <2>1, Bounds
      <4> HIDE DEF e, b
      <4>3. e - proc'[p].timer < b + CHECK_INTERVAL + Slack
        BY <2>1, <4>1, <4>2
      <4> QED
        BY <2>1, <3>1, <4>2, <4>3, LateIsInTime DEF e, b
    <3>2. CASE r # p
      <4>1. Ready(r) /\ proc'[r] = proc[r]
        BY <1>1, <2>5, <3>2 DEF Ready
      <4> QED
        BY <1>5, <2>5, <4>1 DEF Answered, Expected
    <3> QED
      BY <3>1, <3>2
  <2>6. Elapsed(s, now)' = e /\ Bound(s, crashes)' = b /\ Bound(s, crashes + 1)' = c
    BY <1>1
  <2> HIDE DEF e, b, c
  <2> QED
    BY <1>1, <2>4, <2>5, <2>6 DEF Expected
<1>6. enabled'[s] /\ s \notin Abandoned'
  BY <1>1, <1>3 DEF Answered
<1> QED
  BY <1>3, <1>4, <1>5, <1>6 DEF Answered

\* The death of an instance leaves what is expected to another.
LEMMA CrashAnswered ==
    ASSUME SchedulerAssumption, RoundsFit, OneSchedule, TypeInv, TimerInv, PassInv,
           NEW s \in Schedule, NEW p \in Scheduler, Crash(p), fire'[s] = "open",
           fire[s] = "open" => Answered(s)
    PROVE  Answered(s)'
<1>1. /\ proc'[p] = Down /\ crashes < MaxCrashes /\ crashes' = crashes + 1
      /\ \A q \in Scheduler : q # p => proc'[q] = proc[q]
      /\ UNCHANGED <<now, enabled, lock, last>>
      /\ fire'[s] = IF Holds(p, s) \/ \A q \in Scheduler \ {p} : ~Ready(q)
                    THEN Excuse(s) ELSE fire[s]
  <2>1. proc[p].pc # "down"
    BY DEF Crash
  <2> QED
    BY <2>1, LifeEffects
<1>2. /\ ~Holds(p, s) /\ fire[s] = "open"
      /\ \E q \in Scheduler : q # p /\ Ready(q)
  BY <1>1 DEF Excuse
<1>3. proc[p].pc \notin Critical /\ proc'[p].pc \notin Critical
  BY <1>1, <1>2, Numbers DEF Holds, OneSchedule, Busy, Down, Critical
<1>4. Answered(s)
  BY <1>2
<1>5. /\ Runner(s)' <=> Runner(s)
      /\ Sure(s)' <=> Sure(s)
      /\ GaveUpEarly(s)'
      /\ Abandoned' = Abandoned
  BY <1>1, <1>3, <1>4, NotHolding DEF Answered
<1>6. ASSUME EntriesOld(s)
      PROVE  EntriesOld(s)'
  <2>1. Old(s, proc'[p].mem[s], Elapsed(s, now))
    BY <1>1 DEF Old, Down, Nothing
  <2> QED
    BY <1>1, <1>6, <2>1, EntriesKept
<1>7. ASSUME ~Runner(s), ~Sure(s)
      PROVE  Expected(s)'
  <2> DEFINE e == Elapsed(s, now)
             k == crashes + 1
             b == Bound(s, k)
             c == Bound(s, k + 1)
  <2>1. k \in 0 .. MaxCrashes /\ e \in Nat
    BY <1>1, Numbers DEF TypeInv, TypeOK, SchedulerAssumption
  <2>2. \A q \in Scheduler : Ready(q) => OnSchedule(proc[q], s, e, b)
    BY <1>1, <1>4, <1>7 DEF Answered, Expected
  <2>3. \A q \in Scheduler : Ready(q) => OnSchedule(proc[q], s, e, c)
    <3>1. \A q \in Scheduler : proc[q].timer \in Nat /\ e \in Int
      BY <2>1, Numbers
    <3> HIDE DEF e, k
    <3> QED
      BY <2>1, <2>2, <3>1, NextBound
  <2>4. \A q \in Scheduler : Ready(q)' => Ready(q) /\ q # p
    BY <1>1 DEF Ready, Down
  <2>5. \A q \in Scheduler : Ready(q) /\ q # p => Ready(q)'
    BY <1>1 DEF Ready
  <2>6. Elapsed(s, now)' = e /\ Bound(s, crashes)' = b /\ Bound(s, crashes + 1)' = c
    BY <1>1
  <2> HIDE DEF e, b, c
  <2>7. \A q \in Scheduler : Ready(q)' => OnSchedule(proc'[q], s, e, b) /\ OnSchedule(proc'[q], s, e, c)
    BY <1>1, <2>2, <2>3, <2>4
  <2>8. \E q \in Scheduler : Ready(q)'
    BY <1>2, <2>5
  <2> QED
    BY <2>6, <2>7, <2>8 DEF Expected
<1>8. enabled'[s] /\ s \notin Abandoned'
  BY <1>1, <1>4, <1>5 DEF Answered
<1> QED
  BY <1>4, <1>5, <1>6, <1>7, <1>8 DEF Answered

-----------------------------------------------------------------------------
(* Time.                                                                   *)

LEMMA TickKeepsHolders ==
    ASSUME SchedulerAssumption, TypeInv, Tick, NEW s \in Schedule
    PROVE  /\ \A q \in Scheduler :
                 /\ Holds(q, s)' <=> Holds(q, s)
                 /\ proc'[q].pc = proc[q].pc
                 /\ Ready(q) => Ready(q)'
           /\ Runner(s)' <=> Runner(s)
           /\ s \in Abandoned' <=> s \in Abandoned
<1>1. ASSUME NEW q \in Scheduler
      PROVE  /\ Holds(q, s)' <=> Holds(q, s)
             /\ proc'[q].pc = proc[q].pc
             /\ Ready(q) => Ready(q)'
  <2>1. /\ proc'[q].pc = proc[q].pc
        /\ proc[q].pc # "down" =>
              /\ proc'[q].cur = proc[q].cur
              /\ proc'[q].up = IF proc[q].up = STARTUP_GRACE_PERIOD THEN proc[q].up ELSE proc[q].up + 1
    BY TickEffects
  <2> QED
    BY <2>1 DEF Holds, Ready, Critical
<1>2. lock' = lock
  BY DEF Tick
<1>3. Runner(s)' <=> Runner(s)
  BY <1>1 DEF Runner
<1>4. s \in Abandoned' <=> s \in Abandoned
  BY <1>1, <1>2 DEF Abandoned
<1> QED
  BY <1>1, <1>3, <1>4

LEMMA OldLater ==
    ASSUME SchedulerAssumption, RoundsFit, NEW s \in Schedule, NEW age \in Age, NEW e \in Nat,
           Old(s, age, e)
    PROVE  Old(s, Older(age), e + 1)
<1>1. age \in Nat /\ MaxAge \in Nat /\ Chance(s) \in Int
  BY Bounds DEF Age, SchedulerAssumption
<1>2. CASE age = MaxAge
  BY <1>2 DEF Old, Older
<1>3. CASE age # MaxAge
  <2>1. Older(age) = age + 1 /\ Enough(s, age - e + Chance(s))
    BY <1>3 DEF Old, Older
  <2>2. (age + 1) - (e + 1) + Chance(s) = age - e + Chance(s)
    BY <1>1
  <2> QED
    BY <2>1, <2>2 DEF Old
<1> QED
  BY <1>2, <1>3

\* When the next window opens, an entry of the last one is old.
LEMMA StampedIsOld ==
    ASSUME SchedulerAssumption, RoundsFit, NEW s \in Schedule, NEW age \in Age, NEW e \in Nat,
           NEW t \in Time, Stamped(s, age, e), e + 1 = IntervalAfter(s, t)
    PROVE  Old(s, Older(age), 0)
<1>1. /\ age \in Nat /\ MaxAge \in Nat /\ Chance(s) \in Int /\ Width(s) \in Nat
      /\ CHECK_INTERVAL \in Nat /\ Slack \in Nat
  BY Bounds DEF Age, SchedulerAssumption
<1>2. CASE age = MaxAge
  BY <1>2 DEF Old, Older
<1>3. CASE age # MaxAge
  <2> DEFINE x == IntervalAfter(s, t) - (CHECK_INTERVAL + Width(s) + Slack) + Chance(s)
  <2>1. Older(age) = age + 1 /\ e - age <= CHECK_INTERVAL + Width(s) + Slack
    BY <1>3 DEF Stamped, Older
  <2>2. Enough(s, x)
    BY DEF RoundsFit
  <2>3. x \in Int /\ (age + 1) - 0 + Chance(s) \in Int /\ x <= (age + 1) - 0 + Chance(s)
    BY <1>1, <2>1
  <2> HIDE DEF x
  <2>4. Enough(s, (age + 1) - 0 + Chance(s))
    BY <2>2, <2>3, EnoughGrows
  <2> QED
    BY <2>1, <2>4 DEF Old
<1> QED
  BY <1>2, <1>3

\* No run is on its way when a window opens.
LEMMA NobodyIsBusy ==
    ASSUME SchedulerAssumption, WindowsFit, OneSchedule, TypeInv, PassInv,
           NEW s \in Schedule, Elapsed(s, now) + 1 = IntervalAfter(s, now), NEW p \in Scheduler
    PROVE  ~Holds(p, s)
<1> SUFFICES ASSUME Holds(p, s)
             PROVE  FALSE
  OBVIOUS
<1>1. proc[p].cur = s /\ proc[p].pc \in {"lock"} \cup Critical /\ now \in Time
  BY DEF Holds, TypeInv, TypeOK
<1> DEFINE w == Window(Interval(s, proc[p].at))
           i == IntervalAfter(s, now)
           e == Elapsed(s, now)
<1>2. proc[p].at \in Time /\ w \in Nat /\ e \in Nat /\ e <= CHECK_INTERVAL + w + Slack
  BY <1>1, RunInWindow
<1>3. i \in Nat /\ 7 * i > 30 * CHECK_INTERVAL + 10 * Slack
  BY <1>1, CronType, IntervalIsLong
<1>4. 10 * (CHECK_INTERVAL + w + Slack) < 7 * i
  BY <1>1, <1>2 DEF WindowsFit
<1>5. e + 1 = i
  OBVIOUS
<1> HIDE DEF w, i, e
<1> QED
  BY <1>2, <1>3, <1>4, <1>5 DEF SchedulerAssumption

LEMMA TickOpens ==
    ASSUME SchedulerAssumption, AgeAssumption, WindowsFit, RoundsFit, OneSchedule,
           TypeInv, TimerInv, PassInv, StampInv, NEW s \in Schedule, Tick,
           Opens(s, Later(now)), fire'[s] = "open"
    PROVE  Answered(s)'
<1> DEFINE e == Elapsed(s, now)
<1>1. /\ now' = Later(now) /\ now \in Time /\ e \in Nat
      /\ UNCHANGED <<enabled, crashes>> /\ last' = OlderAll(last)
      /\ enabled[s] /\ s \notin Abandoned /\ \E p \in Scheduler : Ready(p)
  BY CronType DEF Tick, Later, TypeInv, TypeOK
<1>2. Elapsed(s, now') = 0 /\ e + 1 = IntervalAfter(s, now)
  BY <1>1, ElapsedLater
<1>3. /\ \A q \in Scheduler : (Holds(q, s)' <=> Holds(q, s)) /\ (Ready(q) => Ready(q)')
      /\ s \in Abandoned' <=> s \in Abandoned
  BY TickKeepsHolders
<1>4. \A q \in Scheduler : ~Holds(q, s)'
  BY <1>2, <1>3, NobodyIsBusy
<1>5. EntriesOld(s)'
  <2>1. Old(s, last'[s], 0)
    <3>1. last[s] \in Age /\ Stamped(s, last[s], e) /\ last'[s] = Older(last[s])
      BY <1>1 DEF TypeInv, TypeOK, StampInv, OlderAll
    <3> HIDE DEF e
    <3> QED
      BY <1>1, <1>2, <3>1, StampedIsOld
  <2>2. ASSUME NEW q \in Scheduler
        PROVE  Old(s, proc'[q].mem[s], 0)
    <3>1. /\ proc[q].pc = "down" => proc'[q] = proc[q] /\ proc[q] = Down
          /\ proc[q].pc # "down" => proc'[q].mem[s] = Older(proc[q].mem[s])
          /\ proc[q].mem[s] \in Age
      BY TickEffects DEF TimerInv, TimerFits, Proc
    <3>2. CASE proc[q].pc = "down"
      BY <3>1, <3>2 DEF Down, Nothing, Old
    <3>3. CASE proc[q].pc # "down"
      <4>1. Stamped(s, proc[q].mem[s], e)
        BY DEF StampInv
      <4> HIDE DEF e
      <4> QED
        BY <1>1, <1>2, <3>1, <3>3, <4>1, StampedIsOld
    <3> QED
      BY <3>2, <3>3
  <2> QED
    BY <1>2, <2>1, <2>2 DEF EntriesOld
<1>6. GaveUpEarly(s)'
  BY <1>4 DEF GaveUpEarly
<1>7. Expected(s)'
  <2>1. \A q \in Scheduler : proc'[q].timer \in Nat
    <3>1. TypeInv'
      BY StepType DEF Next
    <3> QED
      BY <3>1 DEF TypeInv, TypeOK, Proc, SchedulerAssumption
  <2>2. ASSUME NEW k \in 0 .. MaxCrashes, NEW q \in Scheduler
        PROVE  OnSchedule(proc'[q], s, 0, Bound(s, k))
    <3>1. /\ Bound(s, k) \in Int /\ Chance(s) \in Int /\ Slack \in Nat /\ CHECK_INTERVAL \in Nat
          /\ Chance(s) + Slack > 0 /\ Chance(s) + 2 * Slack <= Bound(s, k)
      BY Bounds
    <3> QED
      BY <2>1, <3>1 DEF OnSchedule
  <2>3. crashes \in 0 .. MaxCrashes /\ (crashes < MaxCrashes => crashes + 1 \in 0 .. MaxCrashes)
    BY DEF TypeInv, TypeOK, SchedulerAssumption
  <2>4. \E q \in Scheduler : Ready(q)'
    BY <1>1, <1>3
  <2> QED
    BY <1>1, <1>2, <2>2, <2>3, <2>4 DEF Expected
<1>8. enabled'[s] /\ s \notin Abandoned'
  BY <1>1, <1>3
<1> QED
  BY <1>5, <1>6, <1>7, <1>8 DEF Answered

LEMMA TickStays ==
    ASSUME SchedulerAssumption, AgeAssumption, WindowsFit, RoundsFit, OneSchedule,
           TypeInv, TimerInv, PassInv, NEW s \in Schedule, Tick,
           ~Opens(s, Later(now)), Answered(s)
    PROVE  Answered(s)'
<1> DEFINE e == Elapsed(s, now)
           f == Elapsed(s, now')
<1>1. /\ now' = Later(now) /\ now \in Time /\ e \in Nat
      /\ UNCHANGED <<enabled, crashes>> /\ last' = OlderAll(last)
      /\ crashes \in 0 .. MaxCrashes
  BY CronType DEF Tick, Later, TypeInv, TypeOK
<1>2. f = e + 1
  BY <1>1, ElapsedLater
<1>3. /\ \A q \in Scheduler : /\ Holds(q, s)' <=> Holds(q, s)
                              /\ proc'[q].pc = proc[q].pc
                              /\ Ready(q) => Ready(q)'
      /\ Runner(s)' <=> Runner(s)
      /\ s \in Abandoned' <=> s \in Abandoned
  BY TickKeepsHolders
<1>4. ASSUME EntriesOld(s)
      PROVE  EntriesOld(s)'
  <2>1. Old(s, last'[s], f)
    <3>1. last[s] \in Age /\ Old(s, last[s], e) /\ last'[s] = Older(last[s])
      BY <1>1, <1>4 DEF TypeInv, TypeOK, EntriesOld, OlderAll
    <3> HIDE DEF e, f
    <3> QED
      BY <1>1, <1>2, <3>1, OldLater
  <2>2. ASSUME NEW q \in Scheduler
        PROVE  Old(s, proc'[q].mem[s], f)
    <3>1. /\ proc[q].pc = "down" => proc'[q] = proc[q] /\ proc[q] = Down
          /\ proc[q].pc # "down" => proc'[q].mem[s] = Older(proc[q].mem[s])
          /\ proc[q].mem[s] \in Age
      BY TickEffects DEF TimerInv, TimerFits, Proc
    <3>2. CASE proc[q].pc = "down"
      BY <3>1, <3>2 DEF Down, Nothing, Old
    <3>3. CASE proc[q].pc # "down"
      <4>1. Old(s, proc[q].mem[s], e)
        BY <1>4 DEF EntriesOld
      <4> HIDE DEF e, f
      <4> QED
        BY <1>1, <1>2, <3>1, <3>3, <4>1, OldLater
    <3> QED
      BY <3>2, <3>3
  <2> QED
    BY <2>1, <2>2 DEF EntriesOld
<1>5. \A q \in Scheduler :
         Holds(q, s) => /\ proc'[q].ts \in Int /\ proc[q].ts \in Int
                        /\ f - proc'[q].ts = e - proc[q].ts
  <2> SUFFICES ASSUME NEW q \in Scheduler, Holds(q, s)
               PROVE  /\ proc'[q].ts \in Int /\ proc[q].ts \in Int
                      /\ f - proc'[q].ts = e - proc[q].ts
    OBVIOUS
  <2>1. proc[q].pc \in Busy /\ proc[q].pc # "down" /\ proc[q].pc # "sleep"
    BY DEF Holds, Busy, Critical
  <2>2. proc'[q].ts = Older(proc[q].ts)
    BY <2>1, TickEffects
  <2>3. proc[q].ts \in Nat /\ proc[q].timer \in Nat /\ proc[q].ts <= proc[q].timer /\ proc[q].timer <= Slack
    BY <2>1, Numbers
  <2>4. MaxAge > Slack /\ MaxAge \in Nat /\ Slack \in Nat
    BY AgesDiffer
  <2>5. proc'[q].ts = proc[q].ts + 1
    BY <2>2, <2>3, <2>4 DEF Older
  <2> HIDE DEF e, f
  <2> QED
    BY <1>1, <1>2, <2>3, <2>5
<1>6. GaveUpEarly(s)'
  BY <1>3, <1>5 DEF GaveUpEarly, Answered
<1>7. Sure(s) => Sure(s)'
  BY <1>3, <1>5 DEF Sure
<1>8. ASSUME ~Runner(s), ~Sure(s)
      PROVE  Expected(s)'
  <2>0. \A q \in Scheduler :
           proc[q].pc # "down" => /\ proc'[q].timer = proc[q].timer + 1 /\ proc'[q].todo = proc[q].todo
                                  /\ proc[q].timer \in Nat /\ proc'[q].timer \in Nat
    BY TickEffects, Numbers
  <2>1. ASSUME NEW q \in Scheduler, Ready(q), NEW b \in Int, OnSchedule(proc[q], s, e, b)
        PROVE  OnSchedule(proc'[q], s, f, b)
    <3> DEFINE a == proc[q]
               c == proc'[q]
    <3>1. /\ c.pc = a.pc /\ c.todo = a.todo /\ c.timer = a.timer + 1 /\ a.timer \in Nat
          /\ OnSchedule(a, s, e, b)
      BY <1>3, <2>0, <2>1 DEF Ready
    <3> HIDE DEF a, c, e, f
    <3>2. f - c.timer = e - a.timer
      BY <1>1, <1>2, <3>1
    <3>3. OnSchedule(c, s, f, b)
      BY <3>1, <3>2 DEF OnSchedule
    <3> QED
      BY <3>3 DEF c, f
  <2> DEFINE b == Bound(s, crashes)
             d == Bound(s, crashes + 1)
  <2>2. PICK q \in Scheduler : Ready(q) /\ OnSchedule(proc[q], s, e, b)
    BY <1>8 DEF Answered, Expected
  <2>3. b \in Int /\ Slack \in Nat /\ CHECK_INTERVAL \in Nat
    BY <1>1, Bounds
  <2>4. e < b + CHECK_INTERVAL + Slack
    BY <1>1, <1>8, <2>2, TimeLeft DEF Answered
  <2>5. ASSUME crashes < MaxCrashes, NEW r \in Scheduler, Ready(r)'
        PROVE  OnSchedule(proc'[r], s, f, d)
    <3>1. CASE Ready(r)
      <4>1. OnSchedule(proc[r], s, e, d)
        BY <1>8, <2>5, <3>1 DEF Answered, Expected
      <4>2. d \in Int
        <5>1. crashes + 1 \in 0 .. MaxCrashes
          BY <1>1, <2>5 DEF SchedulerAssumption
        <5> QED
          BY <5>1, Bounds
      <4> QED
        BY <2>1, <3>1, <4>1, <4>2
    <3>2. CASE ~Ready(r)
      <4>1. proc[r].pc # "down"
        BY <1>3, <2>5 DEF Ready
      <4>2. /\ proc'[r].timer = proc[r].timer + 1
            /\ proc[r].timer \in Nat /\ proc'[r].timer \in Nat
        BY <2>0, <4>1
      <4> HIDE DEF e, f, b
      <4>3. f - proc'[r].timer < b + CHECK_INTERVAL + Slack /\ f \in Int
        BY <1>1, <1>2, <2>3, <2>4, <4>2
      <4> QED
        BY <1>1, <4>2, <4>3, LateIsInTime DEF b, d
    <3> QED
      BY <3>1, <3>2
  <2>6. Ready(q)' /\ OnSchedule(proc'[q], s, f, b)
    BY <1>3, <2>1, <2>2, <2>3
  <2>7. Elapsed(s, now)' = f /\ Bound(s, crashes)' = b /\ Bound(s, crashes + 1)' = d
    BY <1>1
  <2> HIDE DEF f, b, d
  <2> QED
    BY <1>1, <2>5, <2>6, <2>7 DEF Expected
<1>9. enabled'[s] /\ s \notin Abandoned'
  BY <1>1, <1>3 DEF Answered
<1> QED
  BY <1>3, <1>4, <1>6, <1>7, <1>8, <1>9 DEF Answered

-----------------------------------------------------------------------------
(* Every step, and the theorem.                                            *)

\* Whatever step is taken, a fire that is open can still count on an answer.
LEMMA StepOpen ==
    ASSUME SchedulerAssumption, AgeAssumption, WindowsFit, RoundsFit, OneSchedule,
           TypeInv, OneHolder, TimerInv, PassInv, StampInv, OpenInv, [Next]_vars
    PROVE  OpenInv'
<1> SUFFICES ASSUME NEW s \in Schedule, fire'[s] = "open"
             PROVE  Answered(s)'
  BY DEF OpenInv
<1>0. fire[s] = "open" => Answered(s)
  BY DEF OpenInv
<1>1. ASSUME NEW u \in Schedule, api_save_playbook_schedule(u)
      PROVE  Answered(s)'
  <2>1. UNCHANGED <<now, lock, last, proc, crashes, fire>> /\ enabled' = [enabled EXCEPT ![u] = TRUE]
    BY <1>1 DEF api_save_playbook_schedule
  <2>2. enabled'[s]
    BY <1>0, <2>1 DEF Answered, OneSchedule, TypeInv, TypeOK
  <2>3. /\ Abandoned' = Abandoned /\ (Runner(s)' <=> Runner(s)) /\ (EntriesOld(s)' <=> EntriesOld(s))
        /\ (GaveUpEarly(s)' <=> GaveUpEarly(s)) /\ (Sure(s)' <=> Sure(s)) /\ (Expected(s)' <=> Expected(s))
    BY <2>1 DEF Abandoned, Runner, EntriesOld, GaveUpEarly, Sure, Expected, Holds, Ready
  <2> QED
    BY <1>0, <2>1, <2>2, <2>3 DEF Answered
<1>2. ASSUME NEW u \in Schedule, api_delete_playbook_schedule(u)
      PROVE  Answered(s)'
  <2>1. fire' = [fire EXCEPT ![u] = Excuse(u)] /\ u = s
    BY <1>2 DEF api_delete_playbook_schedule, OneSchedule
  <2>2. fire'[s] # "open"
    BY <2>1 DEF Excuse, TypeInv, TypeOK
  <2> QED
    BY <2>2
<1>3. ASSUME NEW p \in Scheduler, start(p)
      PROVE  Answered(s)'
  <2>1. fire' = fire
    BY <1>3 DEF start
  <2> QED
    BY <1>0, <1>3, <2>1, StartAnswered
<1>4. ASSUME NEW p \in Scheduler, PassStep(p)
      PROVE  Answered(s)'
  <2>1. fire' = fire
    BY <1>4, PassEffects
  <2> QED
    BY <1>0, <1>4, <2>1, PassAnswered
<1>5. ASSUME NEW p \in Scheduler, RunStep(p)
      PROVE  Answered(s)'
  <2>1. fire' = fire \/ fire'[proc[p].cur] # "open"
    BY <1>5, RunEffects
  <2>2. proc[p].cur = s
    BY <1>5, RunEffects DEF OneSchedule
  <2> QED
    BY <1>0, <1>5, <2>1, <2>2, RunAnswered
<1>6. ASSUME NEW p \in Scheduler, Crash(p)
      PROVE  Answered(s)'
  BY <1>0, <1>6, CrashAnswered
<1>7. CASE Tick
  <2>1. CASE Opens(s, Later(now))
    BY <1>7, <2>1, TickOpens
  <2>2. CASE ~Opens(s, Later(now))
    <3>1. fire'[s] = fire[s]
      BY <1>7, <2>2 DEF Tick, Later
    <3> QED
      BY <1>0, <1>7, <2>2, <3>1, TickStays
  <2> QED
    BY <2>1, <2>2
<1>8. CASE UNCHANGED vars
  <2>1. UNCHANGED <<now, enabled, lock, last, proc, crashes, fire>>
    BY <1>8 DEF vars
  <2>2. /\ Abandoned' = Abandoned /\ (Runner(s)' <=> Runner(s)) /\ (EntriesOld(s)' <=> EntriesOld(s))
        /\ (GaveUpEarly(s)' <=> GaveUpEarly(s)) /\ (Sure(s)' <=> Sure(s)) /\ (Expected(s)' <=> Expected(s))
    BY <2>1 DEF Abandoned, Runner, EntriesOld, GaveUpEarly, Sure, Expected, Holds, Ready
  <2> QED
    BY <1>0, <2>1, <2>2 DEF Answered
<1> QED
  BY <1>1, <1>2, <1>3, <1>4, <1>5, <1>6, <1>7, <1>8 DEF Next

\* The window of a fire that can still count on a run is not over.
LEMMA OpenIsOpen ==
    ASSUME SchedulerAssumption, RoundsFit, OneSchedule, TypeInv, TimerInv, PassInv, OpenInv
    PROVE  FireServed
<1> SUFFICES ASSUME NEW s \in Schedule, fire[s] = "open", Until(s, now) > CHECK_INTERVAL,
                    Since(s, now) > Window(Interval(s, now)) + Slack
             PROVE  FALSE
  BY DEF FireServed
<1> DEFINE e == Elapsed(s, now)
<1>1. now \in Time /\ crashes \in 0 .. MaxCrashes /\ Answered(s)
  BY DEF TypeInv, TypeOK, OpenInv
<1>2. /\ CHECK_INTERVAL \in Nat /\ Slack \in Nat /\ Width(s) \in Nat
      /\ Bound(s, crashes) \in Int /\ Bound(s, crashes) <= Width(s)
  BY <1>1, Bounds
<1>3. Since(s, now) \in Nat /\ Until(s, now) \in Nat /\ e \in Nat
  BY <1>1, CronType
<1>4. Since(s, now) > Width(s) + Slack
  BY <1>1 DEF RoundsFit
<1>5. e > CHECK_INTERVAL + Width(s) + Slack
  BY <1>2, <1>3, <1>4 DEF Elapsed
<1>6. ASSUME NEW p \in Scheduler, Holds(p, s)
      PROVE  FALSE
  <2> DEFINE w == Window(Interval(s, proc[p].at))
  <2>1. proc[p].pc \in {"lock"} \cup Critical /\ proc[p].cur = s
    BY <1>6 DEF Holds
  <2>2. proc[p].at \in Time /\ e <= CHECK_INTERVAL + w + Slack
    BY <2>1, RunInWindow
  <2>3. w = Width(s)
    BY <2>2 DEF RoundsFit
  <2> HIDE DEF w, e
  <2> QED
    BY <1>2, <1>3, <1>5, <2>2, <2>3
<1>7. ~Runner(s) /\ ~Sure(s)
  BY <1>6 DEF Runner, Sure
<1>8. PICK p \in Scheduler : Ready(p) /\ OnSchedule(proc[p], s, e, Bound(s, crashes))
  BY <1>1, <1>7 DEF Answered, Expected
<1>9. e < Bound(s, crashes) + CHECK_INTERVAL + Slack
  BY <1>1, <1>7, <1>8, TimeLeft DEF Answered
<1> HIDE DEF e
<1> QED
  BY <1>2, <1>3, <1>5, <1>9

\* With one schedule whose windows leave room for a poll after every crash, a
\* fire that stays due has been answered when its window closes, whatever the
\* duplicate filter refuses and whoever holds the lock file or dies
\* (playbook_scheduler.py 242-331 and 355-485).
THEOREM FireServedHolds ==
    ASSUME OneSchedule, WindowsFit, RoundsFit
    PROVE  Spec => []FireServed
<1>1. Init => /\ TypeInv /\ OneHolder /\ SpacingInv /\ PassInv /\ FireInv
              /\ TimerInv /\ StampInv /\ OpenInv
  <2>1. ASSUME Init
        PROVE  PassInv /\ FireInv /\ TimerInv /\ StampInv /\ OpenInv
    <3>1. PassInv /\ FireInv
      BY <2>1 DEF Init, PassInv, FireInv, KeepsUp, Answers, Down, Critical
    <3>2. \A p \in Scheduler : proc[p] = Down /\ Down.pc = "down" /\ Down.mem = Nothing
      BY <2>1 DEF Init, Down
    <3>3. TimerInv
      BY <3>2 DEF TimerInv, TimerFits, Busy, Critical
    <3>4. last = Nothing /\ \A s \in Schedule : Nothing[s] = MaxAge
      BY <2>1 DEF Init, Nothing
    <3>5. StampInv
      BY <3>2, <3>4 DEF StampInv, Stamped, Busy, Critical
    <3>6. OpenInv
      BY <2>1 DEF Init, OpenInv
    <3> QED
      BY <3>1, <3>3, <3>5, <3>6
  <2> QED
    BY <2>1, InitSpacing
<1>2. SpacingInv => Spacing
  BY DEF SpacingInv, Spacing, Agrees, Spaced, Holds
<1>3. /\ TypeInv /\ OneHolder /\ SpacingInv /\ PassInv /\ FireInv
      /\ TimerInv /\ StampInv /\ OpenInv /\ [Next]_vars
      => /\ TypeInv' /\ OneHolder' /\ SpacingInv' /\ PassInv' /\ FireInv'
         /\ TimerInv' /\ StampInv' /\ OpenInv'
  BY <1>2, SchedulerAssumption, AgeAssumption, StepType, StepHolder, StepSpacing, StepFire,
     TimerStep, StampStep, StepOpen
<1>4. TypeInv /\ TimerInv /\ PassInv /\ OpenInv => FireServed
  BY SchedulerAssumption, OpenIsOpen
<1> QED
  BY <1>1, <1>3, <1>4, PTL DEF Spec

=============================================================================
