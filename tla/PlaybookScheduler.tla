------------------------- MODULE PlaybookScheduler -------------------------
(***************************************************************************)
(* The cron scheduler of playbooks.  A background thread polls the enabled *)
(* schedules and runs a playbook when its cron fires soon or fired a short *)
(* while ago.  Several instances of it may be at work: the debug reloader  *)
(* runs app.py in two processes, and importing app.py as a module creates  *)
(* a second scheduler in the same process.                                 *)
(*                                                                         *)
(* They share two kinds of files: a lock file for each schedule, created   *)
(* with O_EXCL, and one last_execution.json with the time of the last run  *)
(* of every schedule, which each instance also keeps a copy of in memory.  *)
(*                                                                         *)
(* Times are in units of 30 seconds.  Instead of a clock that grows, now   *)
(* goes round the period of the cron expressions and what the code keeps   *)
(* as a time stamp is kept as its age.                                     *)
(***************************************************************************)
EXTENDS Integers, FiniteSets

CONSTANTS Scheduler,             \* instances of PlaybookScheduler
          Schedule,              \* playbooks with a schedule
          Period,                \* the cron expressions repeat after this time
          Fires,                 \* Fires[s]: when in the period s fires
          CHECK_INTERVAL,
          STARTUP_GRACE_PERIOD,
          Slack,                 \* bound: the time one pass over the schedules takes
          MaxAge,                \* bound: older ages are not told apart
          MaxCrashes             \* bound: instances that die

CONSTANT NoSchedule

Time == 0 .. Period - 1
Age == 0 .. MaxAge

Least(S) == CHOOSE d \in S : \A e \in S : d <= e

FiresAt(s, t) == t % Period \in Fires[s]

\* croniter.get_prev and get_next: strictly before and strictly after t.
Since(s, t) == Least({d \in 1 .. Period : FiresAt(s, t - d)})
After(s, t) == Least({d \in 1 .. Period : FiresAt(s, t + d)})

\* get_next after get_prev starts from the previous fire, so it may return t.
Until(s, t) == IF FiresAt(s, t) THEN 0 ELSE After(s, t)

\* The interval between two fires, as _should_run_now computes it, and as
\* _create_scheduled_run does (get_prev after get_next).
Interval(s, t) == Since(s, t) + Until(s, t)
IntervalAfter(s, t) == IF FiresAt(s, t) THEN After(s, t) ELSE Since(s, t) + After(s, t)

ASSUME SchedulerAssumption ==
    /\ Period \in Nat \ {0} /\ CHECK_INTERVAL \in Nat \ {0}
    /\ STARTUP_GRACE_PERIOD \in Nat /\ Slack \in Nat
    /\ MaxAge \in Nat /\ MaxCrashes \in Nat
    /\ Fires \in [Schedule -> (SUBSET Time) \ {{}}]
    /\ NoSchedule \notin Schedule

\* Ages below MaxAge decide every comparison.
ASSUME AgeAssumption ==
    \A s \in Schedule, t \in Time : 10 * (MaxAge - Slack) >= 7 * Interval(s, t)

VARIABLES
    now,
    enabled,   \* enabled[s]: the schedule in the metadata of the playbook
    lock,      \* schedules whose lock file exists
    last,      \* last_execution.json: the age of each entry; MaxAge if there is none
    proc,      \* proc[p]: one instance
    crashes,
    ran,       \* history: the age of the time stamp of the last run
    fire       \* history: what became of the fire whose window was opened last

vars == <<now, enabled, lock, last, proc, crashes, ran, fire>>

-----------------------------------------------------------------------------
(* Types.                                                                  *)

\* The steps under the lock file.
Critical == {"load", "truncate", "save", "call", "unlock"}

Proc == [pc : {"down", "sleep", "scan", "lock"} \cup Critical,
         timer : 0 .. CHECK_INTERVAL + Slack,    \* since the sleep or the pass began
         up : 0 .. STARTUP_GRACE_PERIOD,         \* since _start_time
         at : Time,                              \* current_utc of the pass
         todo : SUBSET Schedule,                 \* of list_all_schedules
         cur : Schedule \cup {NoSchedule},
         ts : Age,                               \* age of current_timestamp
         mem : [Schedule -> Age]]                \* _last_execution

Nothing == [s \in Schedule |-> MaxAge]

Down == [pc |-> "down", timer |-> 0, up |-> 0, at |-> 0, todo |-> {},
         cur |-> NoSchedule, ts |-> 0, mem |-> Nothing]

TypeOK ==
    /\ now \in Time
    /\ enabled \in [Schedule -> BOOLEAN]
    /\ lock \subseteq Schedule
    /\ last \in [Schedule -> Age]
    /\ proc \in [Scheduler -> Proc]
    /\ crashes \in 0 .. MaxCrashes
    /\ ran \in [Schedule -> Age]
    /\ fire \in [Schedule -> {"open", "served", "twice", "excused"}]

Init ==
    /\ now = 0
    /\ enabled = [s \in Schedule |-> FALSE]
    /\ lock = {}
    /\ last = Nothing
    /\ proc = [p \in Scheduler |-> Down]
    /\ crashes = 0
    /\ ran = Nothing
    /\ fire = [s \in Schedule |-> "excused"]

-----------------------------------------------------------------------------
(* The two tests a schedule has to pass.                                   *)

TEN_MINUTES == 20

\* execution_window
Window(gap) ==
    IF gap <= TEN_MINUTES /\ gap > 4 * CHECK_INTERVAL THEN gap \div 2 ELSE 2 * CHECK_INTERVAL

\* Mutant: 30 seconds are enough.
LongEnough_30s(age, ts, gap) == age = MaxAge \/ age - ts >= 1

\* At least 30 seconds and 70% of the interval between an entry and the time stamp.
LongEnough(age, ts, gap) == age = MaxAge \/ (age - ts >= 1 /\ 10 * (age - ts) >= 7 * gap)

\* An urgent case, with the next fire at most 5 seconds away, asks for 5 seconds only.
NotRecently(age, until, gap) == IF until = 0 THEN age >= 1 ELSE LongEnough(age, 0, gap)

\* Mutant: only a fire since the last poll counts.
_should_run_now_OnePoll(p, s) ==
    LET t == proc[p].at
    IN  /\ Since(s, t) <= CHECK_INTERVAL
        /\ NotRecently(proc[p].mem[s], Until(s, t), Interval(s, t))

_should_run_now(p, s) ==
    LET t == proc[p].at
    IN  /\ Until(s, t) <= CHECK_INTERVAL \/ Since(s, t) <= Window(Interval(s, t))
        /\ NotRecently(proc[p].mem[s], Until(s, t), Interval(s, t))

-----------------------------------------------------------------------------
(* Users.                                                                  *)

api_save_playbook_schedule(s) ==
    /\ enabled' = [enabled EXCEPT ![s] = TRUE]
    /\ UNCHANGED <<now, lock, last, proc, crashes, ran, fire>>

\* Who turns the schedule off gives up the fire that is due.
Excuse(s) == IF fire[s] = "open" THEN "excused" ELSE fire[s]

api_delete_playbook_schedule(s) ==
    /\ enabled' = [enabled EXCEPT ![s] = FALSE]
    /\ fire' = [fire EXCEPT ![s] = Excuse(s)]
    /\ UNCHANGED <<now, lock, last, proc, crashes, ran>>

-----------------------------------------------------------------------------
(* An instance: created, asleep between two passes, in a pass, and dead.   *)

Become(p, rec) == proc' = [proc EXCEPT ![p] = rec]

\* Mutant: only the entries of enabled schedules are read.
start_EnabledOnly(p) ==
    /\ proc[p].pc = "down"
    /\ Become(p, [Down EXCEPT !.pc = "sleep", !.timer = CHECK_INTERVAL,
                              !.mem = [s \in {r \in Schedule : enabled[r]} |-> last[s]]])
    /\ UNCHANGED <<now, enabled, lock, last, crashes, ran, fire>>

\* __init__ and start: the loop begins with a pass.
start(p) ==
    /\ proc[p].pc = "down"
    /\ Become(p, [Down EXCEPT !.pc = "sleep", !.timer = CHECK_INTERVAL, !.mem = last])
    /\ UNCHANGED <<now, enabled, lock, last, crashes, ran, fire>>

_check_and_run_schedules(p) ==
    /\ proc[p].pc = "sleep"
    /\ proc[p].timer = CHECK_INTERVAL
    /\ Become(p, [proc[p] EXCEPT !.pc = "scan", !.timer = 0, !.at = now,
                                 !.todo = {s \in Schedule : enabled[s]}])
    /\ UNCHANGED <<now, enabled, lock, last, crashes, ran, fire>>

\* The next schedule of the pass, up to the end of the grace period test.
Consider(p, s) ==
    LET rest == [proc[p] EXCEPT !.todo = @ \ {s}]
    IN  /\ proc[p].pc = "scan"
        /\ s \in proc[p].todo
        /\ IF _should_run_now(p, s) /\ proc[p].up = STARTUP_GRACE_PERIOD
           THEN Become(p, [rest EXCEPT !.pc = "lock", !.cur = s, !.ts = 0])
           ELSE Become(p, rest)
        /\ UNCHANGED <<now, enabled, lock, last, crashes, ran, fire>>

EndOfPass(p) ==
    /\ proc[p].pc = "scan"
    /\ proc[p].todo = {}
    /\ Become(p, [proc[p] EXCEPT !.pc = "sleep", !.timer = 0, !.at = 0])
    /\ UNCHANGED <<now, enabled, lock, last, crashes, ran, fire>>

-----------------------------------------------------------------------------
(* _create_scheduled_run.                                                  *)

NextSchedule(rec) == [rec EXCEPT !.pc = "scan", !.cur = NoSchedule, !.ts = 0]

\* Mutant: os.open without O_EXCL.
CreateLockFile_NotExclusive(p) ==
    /\ proc[p].pc = "lock"
    /\ Become(p, [proc[p] EXCEPT !.pc = "load"])
    /\ lock' = lock \cup {proc[p].cur}
    /\ UNCHANGED <<now, enabled, last, crashes, ran, fire>>

\* os.open with O_CREAT and O_EXCL; a file that exists ends the call.
CreateLockFile(p) ==
    LET s == proc[p].cur
    IN  /\ proc[p].pc = "lock"
        /\ IF s \in lock
           THEN Become(p, NextSchedule(proc[p])) /\ lock' = lock
           ELSE Become(p, [proc[p] EXCEPT !.pc = "load"]) /\ lock' = lock \cup {s}
        /\ UNCHANGED <<now, enabled, last, crashes, ran, fire>>

\* Mutant: the second test is made on what this instance remembers.
_load_last_execution_Memory(p) ==
    LET s == proc[p].cur
        ok == LongEnough(proc[p].mem[s], proc[p].ts, IntervalAfter(s, now))
    IN  /\ proc[p].pc = "load"
        /\ Become(p, [proc[p] EXCEPT !.pc = IF ok THEN "truncate" ELSE "unlock",
                                     !.mem = [last EXCEPT ![s] = IF ok THEN proc[p].ts ELSE @]])
        /\ UNCHANGED <<now, enabled, lock, last, crashes, ran, fire>>

\* The whole of the memory is replaced, and the interval tested once more.
_load_last_execution(p) ==
    LET s == proc[p].cur
        ok == LongEnough(last[s], proc[p].ts, IntervalAfter(s, now))
    IN  /\ proc[p].pc = "load"
        /\ Become(p, [proc[p] EXCEPT !.pc = IF ok THEN "truncate" ELSE "unlock",
                                     !.mem = IF ok THEN [last EXCEPT ![s] = proc[p].ts] ELSE last])
        /\ UNCHANGED <<now, enabled, lock, last, crashes, ran, fire>>

\* open(..., 'w') empties the file; who reads it now finds no entry at all.
Truncate(p) ==
    /\ proc[p].pc = "truncate"
    /\ last' = Nothing
    /\ Become(p, [proc[p] EXCEPT !.pc = "save"])
    /\ UNCHANGED <<now, enabled, lock, crashes, ran, fire>>

_save_last_execution(p) ==
    /\ proc[p].pc = "save"
    /\ last' = proc[p].mem
    /\ Become(p, [proc[p] EXCEPT !.pc = "call"])
    /\ UNCHANGED <<now, enabled, lock, crashes, ran, fire>>

\* A call that fails is not told apart: its entry stays and it is not retried.
api_run_playbook(p) ==
    LET s == proc[p].cur
    IN  /\ proc[p].pc = "call"
        /\ Become(p, [proc[p] EXCEPT !.pc = "unlock"])
        /\ ran' = [ran EXCEPT ![s] = proc[p].ts]
        /\ fire' = [fire EXCEPT ![s] = IF @ \in {"served", "twice"} THEN "twice" ELSE "served"]
        /\ UNCHANGED <<now, enabled, lock, last, crashes>>

\* The finally clause: close and unlink.
Unlink(p) ==
    /\ proc[p].pc = "unlock"
    /\ lock' = lock \ {proc[p].cur}
    /\ Become(p, NextSchedule(proc[p]))
    /\ UNCHANGED <<now, enabled, last, crashes, ran, fire>>

-----------------------------------------------------------------------------
(* Death of an instance, and time.                                         *)

Holds(p, s) == proc[p].pc \in Critical /\ proc[p].cur = s

\* Lock files whose instance is gone: nothing removes them.
Abandoned == {s \in lock : \A p \in Scheduler : ~Holds(p, s)}

Ready(p) == proc[p].pc # "down" /\ proc[p].up = STARTUP_GRACE_PERIOD

Crash(p) ==
    /\ crashes < MaxCrashes
    /\ proc[p].pc # "down"
    /\ crashes' = crashes + 1
    /\ Become(p, Down)
    /\ fire' = [s \in Schedule |-> IF Holds(p, s) \/ \A q \in Scheduler \ {p} : ~Ready(q)
                                   THEN Excuse(s) ELSE fire[s]]
    /\ UNCHANGED <<now, enabled, lock, last, ran>>

Older(age) == IF age = MaxAge THEN age ELSE age + 1
OlderAll(ages) == [s \in Schedule |-> Older(ages[s])]

\* A pass takes at most Slack, a sleep exactly CHECK_INTERVAL.
OnTime(p) ==
    \/ proc[p].pc = "down"
    \/ proc[p].timer < IF proc[p].pc = "sleep" THEN CHECK_INTERVAL ELSE Slack

OlderProc(rec) ==
    IF rec.pc = "down" THEN rec
    ELSE [rec EXCEPT !.timer = @ + 1,
                     !.up = IF @ = STARTUP_GRACE_PERIOD THEN @ ELSE @ + 1,
                     !.ts = IF rec.cur = NoSchedule THEN @ ELSE Older(@),
                     !.mem = OlderAll(@)]

\* The window of a fire opens CHECK_INTERVAL before it.
Opens(s, t) == Until(s, t) = CHECK_INTERVAL

Tick ==
    LET t == (now + 1) % Period
    IN  /\ \A p \in Scheduler : OnTime(p)
        /\ now' = t
        /\ last' = OlderAll(last)
        /\ ran' = OlderAll(ran)
        /\ proc' = [p \in Scheduler |-> OlderProc(proc[p])]
        /\ fire' = [s \in Schedule |->
                       IF ~Opens(s, t) THEN fire[s]
                       ELSE IF enabled[s] /\ s \notin Abandoned /\ \E p \in Scheduler : Ready(p)
                            THEN "open" ELSE "excused"]
        /\ UNCHANGED <<enabled, lock, crashes>>

-----------------------------------------------------------------------------

PassStep(p) ==
    \/ _check_and_run_schedules(p)
    \/ \E s \in Schedule : Consider(p, s)
    \/ EndOfPass(p)

RunStep(p) ==
    \/ CreateLockFile(p)
    \/ _load_last_execution(p)
    \/ Truncate(p)
    \/ _save_last_execution(p)
    \/ api_run_playbook(p)
    \/ Unlink(p)

Next ==
    \/ \E s \in Schedule : api_save_playbook_schedule(s) \/ api_delete_playbook_schedule(s)
    \/ \E p \in Scheduler : start(p) \/ PassStep(p) \/ RunStep(p) \/ Crash(p)
    \/ Tick

Spec == Init /\ [][Next]_vars

-----------------------------------------------------------------------------
(* Properties.                                                             *)

\* The lock file of a schedule is held by one instance at most, and it exists
\* as long as its holder is between creating and unlinking it: no early return
\* or refusal of a second instance takes it away (playbook_scheduler.py 374-400
\* and 466-485).
OneHolder ==
    \A s \in Schedule :
        /\ \A p, q \in Scheduler : Holds(p, s) /\ Holds(q, s) => p = q
        /\ (\E p \in Scheduler : Holds(p, s)) => s \in lock

\* An instance about to run a playbook is 70% of an interval of its cron away
\* from the last run of that playbook, whichever instance made it and whatever
\* that one remembers: "This prevents duplicate runs even if multiple backend
\* processes are running" (playbook_scheduler.py 361-362).
Spacing ==
    \A p \in Scheduler, s \in Schedule :
        Holds(p, s) /\ proc[p].pc = "call" =>
            \E t \in Time : LongEnough(ran[s], proc[p].ts, IntervalAfter(s, t))

\* The window around a fire is wider than one poll, and still a fire is not
\* answered with two runs (playbook_scheduler.py 247-261 and 304-324).
OncePerFire == \A s \in Schedule : fire[s] # "twice"

\* A fire whose schedule stays enabled, while an instance past its grace period
\* stays alive and no lock file is abandoned, has been answered when its window
\* closes: neither the duplicate filter nor a busy lock file loses it ("This
\* ensures we catch executions even if we check slightly after the scheduled
\* time", playbook_scheduler.py 258).
FireServed ==
    \A s \in Schedule :
        /\ Until(s, now) > CHECK_INTERVAL
        /\ Since(s, now) > Window(Interval(s, now)) + Slack
        => fire[s] # "open"

=============================================================================
