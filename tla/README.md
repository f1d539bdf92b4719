# A verification project for the execution platform

The repository is an automation platform: a Flask server with a web console
queues *executions* (Ansible playbooks, host checks, OpenTofu runs) that Go
*workers* claim over HTTP and run, and a CI/CD engine in the server composes
executions into *pipeline runs* with approval gates.  A cron *scheduler* starts
playbooks, and a *source sync* copies the sources of a project to and from
directories and git repositories.  All state is in JSON files, one per record,
plus a SQLite index over the executions.  There is no message broker and no
transaction around a record and its index rows: what keeps the system right is the
order of reads and writes, lock files and `flock` in some places, and a set of
timeouts and self-healing passes.  That is what these modules model.

Contents

1. [Inventory](#1-inventory)
2. [Modules](#2-modules)
3. [The execution queue](#3-the-execution-queue)
4. [Pipeline runs](#4-pipeline-runs)
5. [The playbook scheduler](#5-the-playbook-scheduler)
6. [Source sync](#6-source-sync)
7. [Runs, bounds and fairness](#7-runs-bounds-and-fairness)
8. [What is proved](#8-what-is-proved)
9. [Where code and documentation disagree](#9-where-code-and-documentation-disagree)
10. [What is not modelled](#10-what-is-not-modelled)
11. [How to run](#11-how-to-run)

## 1. Inventory

Paths are relative to `src/`.

### The core

| Component | Source | State it keeps | Operations |
|---|---|---|---|
| Execution records | `server/storage/executions_store.py`, `server/services/execution_history.py`, `server/api/executions_routes.py` | one JSON file per execution: `status`, `workerId`, time stamps | create, cancel, stop, PATCH, `update_execution_record`, delete, retention |
| Queue index | `server/storage/index_db.py` | SQLite tables `queued_executions`, `running_executions`, `execution_locations` | add and remove rows, `list_queued`, counting, pruning, backfill at startup |
| Claim and recovery | `server/app.py`, `server/api/worker_routes.py`, `server/services/execution_dispatcher.py` | time of the last disk scan | `server_claim_next_execution`, finish, `server_recover_stuck_executions` |
| Worker | `worker/internal/loop`, `execute`, `httpclient` | slots, running processes | claim loop, status polling, kill, report |
| Pipeline engine | `server/services/cicd_engine.py`, `server/storage/cicd_store.py`, `server/api/cicd_routes.py` | one JSON file per run, a background thread per active run, `tfplan` in the directory of the stack | trigger, approve, reject, delete, the thread |
| Playbook scheduler | `server/services/playbook_scheduler.py` | a lock file per schedule, one `last_execution.json` for all, a copy of it per instance | pass over the schedules, run under the lock file |
| Source sync | `server/services/source_sync_service.py`, `git_source_manager.py`, `server/api/sources_routes.py` | `.sync_state.json` per project, jobs in memory, a clone per git source, the working directory of the process | `start_sync` and its thread, the old sync route, push, pull, both |

How they interact:

* The server is threaded.  Every request has a thread of its own, and a recovery
  thread scans the records periodically.  Nothing but `flock` on the record's
  file orders them, and not all of them take it.
* Creating an execution writes the record, then its `queued_executions` row.
* A worker's loop reserves a slot and sends a claim.  The server compares the
  worker's `running_executions` rows with its limit, prunes rows it takes for
  stale, lists candidates from the index (or from the files, once a minute, when
  the index gives none), takes the lock of a candidate, reads it again, writes
  RUNNING, writes the index and answers.
* The worker polls the status of what it runs every two seconds, kills the
  process on CANCELING, and reports a final status through the finish route,
  which reads, validates and writes *without* the lock.
* A pipeline thread creates executions and polls their records until they are
  final or an hour has passed.  At an approval step it stores WAITING_APPROVAL
  and ends; `approve` updates the file and starts a new thread.
* The scheduler posts to the route that creates an execution, as a user would.
  Two instances of it may be at work: the debug reloader starts `app.py` twice,
  and importing it as a module creates a second scheduler.
* A sync is started by a user or by the old route, which runs it within the
  request.  Syncs of different sources overlap; they share the state file and
  `os.chdir`.  Other routes (`check-conflict`, `sources/test`, `sources/resolve`)
  fetch and reset the same clones outside any sync.

What is hard about it, and the properties that make it correct:

| Component | Hard behaviour | Correctness |
|---|---|---|
| Records | locked and unlocked writers of the same file; lost updates | an execution is started at most once, its owner never changes, final stays final |
| Index | two stores without a transaction; crash between them; stale rows | no running execution is missing from the count; nothing is queued for ever |
| Claim | several claims at once; timeouts and retries of a claim; limit read before it is used | one owner; never more than the limit; requirements looked at when a candidate is listed |
| Worker | crash, restart with the same token, lost reports | a stop ends; a live run is not taken for dead |
| Scheduler | several instances; duplicate filter on a file that is emptied before it is written; lock files left by a crash | one run per fire; no fire lost; one holder of a lock file |
| Source sync | unlocked state file; clean-up five seconds late; commits left in a clone by a failed push; restart in the middle | one thread per source; both sides edited is noticed; a push delivers; no status stays running |
| Pipelines | check-then-write without a lock; two threads for one run; thread's copies of the file; plan file shared by runs | no step behind a gate without an approval; apply uses the approved plan; a plan does not outlive its run; runs end |

`PROJECT.json` lists the hazards line by line, each with the properties that
would catch it.

### Around the core

Autosync (a loop meant to call `start_sync`, which never finds a project), the
worker registry (tokens, heartbeats) and cloud stacks are stateful and are described
in [section 10](#10-what-is-not-modelled).  Secrets, users and roles, editors,
projects, search, host checks, the console, infrastructure code and the vendored
sample application are listed in `PROJECT.json` with the reason they are left out.

## 2. Modules

| Module | What it is |
|---|---|
| `ExecutionStatus` | the statuses and the transition table of `executions_store.py` |
| `ExecutionLifecycle` | abstract specification: records move along a set of moves, a parameter |
| `ExecutionQueue` | records, locks, index, claims, workers, crashes: the core |
| `MCExecutionQueue` | instances of it for TLC |
| `ExecutionQueueProofs` | lemmas and type correctness |
| `ExecutionQueueSafetyProofs` | ownership invariant, safety theorems, refinement |
| `ExecutionQueueLimitProofs` | the limit of a worker, and what pruning may fail |
| `PipelineRun` | the pipeline engine with its files, threads, requests and plan file |
| `MCPipelineRun` | pipelines for TLC |
| `PipelineRunProofs` | type correctness, gates, one thread, statuses, rejections |
| `PipelineRunPlanProofs` | the saved plan does not outlive its run |
| `PlaybookScheduler` | instances of the scheduler with their lock files and `last_execution.json` |
| `MCPlaybookScheduler` | a cron expression for TLC |
| `PlaybookSchedulerProofs` | type correctness, exclusion, spacing of runs, one run per fire, in time |
| `SourceSync` | syncs of sources with their threads, state file, clones and remotes |
| `MCSourceSync` | an instance of it for TLC |
| `SourceSyncProofs` | type correctness, one thread per job |
| `SourceSyncSafetyProofs` | settled statuses, pushes, conflicts |

`ExecutionQueue` EXTENDS `ExecutionStatus` and INSTANCEs `ExecutionLifecycle`
(as `Kept`, with `status` mapped to the statuses of the records).  `PipelineRun`
stands alone: of the queue it keeps only what a pipeline can see of an execution,
its record and its process (`job[r][t].state` and `.tool`).  `PlaybookScheduler`
and `SourceSync` stand alone too: a scheduled run is a call other users of the same
route make as well.

Definitions named `X_Something` under a comment "Mutant:" are deliberately wrong
versions of `X`.  They are used nowhere; for each property one of them, put in
place of `X`, makes TLC report a violation, which shows that the property
depends on the code.

## 3. The execution queue

### State

| Variable | Code |
|---|---|
| `record[e]` | the file of execution `e`: `status`, `workerId`, and `fits`, the workers that meet the requirements in its `runParams` |
| `gone` | executions whose file is deleted; `File(e)` is what a reader finds, `record[e]` what those who hold it open still see |
| `lock[e]`, `seen[e]` | `flock` on that file, and what its holder has loaded |
| `update[e][o]` | a thread inside `update_execution_record`, called by the finish route or by PATCH: `sent`, then `write` (it has read and validated), then `index` (it has written) |
| `creating[e]` | the record a create request has written and whose row it is still to insert |
| `queuedRow`, `runningRow` | the two tables |
| `claim[w][c]` | the server thread of one claim request: which line it is at, its candidates, what pruning is about to do |
| `waiting[w]` | the request the loop of the worker waits for |
| `run[w][e]` | the process: `running`, `stopping` (killed), `reporting` |
| `scanDue` | the interval since the last disk scan is over |
| `faults` | crashes, timeouts and lost reports so far, bounded by `MaxFaults` |

### Actions

Where the code reads and later writes, the model has two steps, so that other
threads may come in between.

| Code | Actions |
|---|---|
| `create_execution_record` | `create_execution_record` (the file), then `add_created_row` (`add_queued_execution`, or `mark_running_execution` for a record created RUNNING with a `workerId`) |
| `api_cancel_execution`, `api_stop_execution`, `server_recover_stuck_executions` | `LockAndRead`, then `WriteAndUnlock` |
| `update_execution_record` | `UpdateRead`, `UpdateWrite`, `UpdateIndex` |
| `server_claim_next_execution` | `ClaimBegin` (limit), `ClaimList`, `ClaimLock` (lock, second read, limit again), `ClaimWrite`, `mark_running_execution`, `ClaimNone`, `ClaimAnswer` |
| `prune_stale_running_for_worker` | `PruneRow`, `PruneFail`, `PruneDone`, from either of its two call sites |
| the worker | `ObserveCanceling`, `FinishExecution`, `ReleaseSlot`, `ClaimTimeout`, `FinishLost` |
| `delete_execution`, called by users and by retention | the same name |
| crashes | `WorkerCrash`, `ServerRestart` (threads and locks are gone, then `backfill_if_empty`) |

### Properties

A record is *started* when its status is RUNNING, CANCELING or final.  The server's
own callers create executions QUEUED and without a `workerId`; the body of
`POST /api/executions` may also bring a `workerId`, or RUNNING.  `Born[e]` is the set
of records `e` may be created as, and the theorems hold for every choice of it.

* `StartedOnce`: from its claim, or its creation as RUNNING, on an execution keeps
  its worker, never returns to QUEUED and is never claimed again.  The `workerId` of
  a QUEUED record says nothing: the claim of any worker overwrites it.
* `RunsOwnExecution`: what a worker runs is started and names it.
* `CanceledInQueueIsFinal`: the second read under the lock is enough for cancel.
  It tells an execution canceled in the queue by the missing `workerId`; one that
  was posted QUEUED with a `workerId` is not covered.
* `RunningIsIndexed`: the limit counts rows, and no RUNNING record is missing
  from them, except while the claim, or the create request, that made it so is
  still to write its row.
* `AtMostMaxRunning`: with one claim request per worker, claims never give a worker
  more executions than it has slots.  Executions that may be posted as RUNNING are
  not counted: nothing checks the limit for them.
* `LiveRunNotFailed`: only the 30-minute timeout fails an execution whose process
  is alive.  Holds with one slot and one claim request, fails with two slots
  (section 9) and with two requests (section 7).
* `KeptLifecycle`: the records implement `ExecutionLifecycle`, which begins at QUEUED
  or RUNNING, with `KeptMoves`.  The table `ALLOWED_TRANSITIONS` itself is *not* what
  the system implements, since a lost update may replace SUCCESS by CANCELING;
  `KeptMoves` is what remains true: a started execution never goes back to the queue
  or to RUNNING.
* `SettledIsFinal`: what is true of "final statuses cannot be changed", with PATCH.
  A final status may be overwritten by a call that has read an earlier one
  (`FinalIsFinal`, section 9), but only by a call under way: once no lock holder,
  update, claim or pruning has anything else left to write, no later call of any kind
  changes it.
* `StopTakesEffect`, `NoStarvation`: liveness, see section 7.

### Abstractions

* The age of a record is not in the state: any RUNNING record may be older than
  30 minutes, any CANCELING one older than 5.  The model has more behaviours than
  the code.  Recovery holds no lock in the model on records it leaves alone.
* A claim that the server refuses because of the one-second rate limit is a claim
  that returns nothing and is not modelled apart.
* `ClaimList` is one step although it visits files one by one.  Each candidate is
  read again under its lock, so what the list says is only a hint.  Files locked
  by others are passed over, as with LOCK_NB.
* `list_queued` orders by `queuedAt`; executions are numbered in that order and
  `create_execution_record` creates them in it.
* The finish route checks the owner in a read of its own before
  `update_execution_record` reads again; the model has one read.  Without PATCH
  the owner of a started execution does not change, which is proved.
* The two reads of pruning before its write are one, and so are its write and the
  removal of the row.  `mark_running_execution`'s two statements are one step and
  so are those of `UpdateIndex`.
* Reading and writing a file are atomic: the moment between truncating and
  writing, in which an unlocked reader finds half a JSON document, is not modelled,
  nor is the fallback for a broken SQLite file.
* PATCH may set any status, other fields, or both, the requirements included; a PATCH
  of `workerId` is not modelled.  The executions clients PATCH are the constant
  `Patched`.
* `apply_retention_policy` and `clear_all_executions` only choose which executions
  are deleted; in the model it is any of the constant `Deleted`, whatever their
  status, between any two steps.  Rows of a deleted record stay until pruning or a
  claim drops them (the backfill at startup leaves them), and its worker, whose
  status poll finds nothing, goes on and reports to nobody.  An update that
  has read the file before writes it anew; a write through a handle on the deleted
  file counts as a write of the new one if there is one by then, which the code
  does not do.  Deleting and PATCHing the same execution is not modelled.
* Requirements are the set `fits` of a record.  PATCH merges any field, so an update
  by PATCH may store any set; `ClaimList` looks at it, the second read under the lock
  does not.  Workers do not change their tags, runtimes and the like.
* A POST with any status but RUNNING creates a QUEUED record.
* Logs, results, time stamps and `execution_locations` do not decide anything and are
  left out.

## 4. Pipeline runs

### State and actions

`file[r]` is the run file with its steps.  `proc[r][p]` is a thread or a request
working on it with its own copies (`steps`, `gate`, `approved`), the updates it
is about to store and what it does next.  `update_pipeline_run` is two steps for
everybody: `Merge` reads the file and lays the updates over it, `Store` writes the
result.  Between them another thread or request may store, and its update is lost.
`approve_pipeline_run` and `reject_pipeline_run` check WAITING_APPROVAL in a read
of their own before that.

`Begin`, `NextStep`, `_execute_step`, `_wait_for_worker_execution` are the thread
(`_run_pipeline_thread` and what it calls).  A shell step is a command of the thread
itself, without an execution and without a time limit: `_execute_step` starts it
and `ShellEnds`, for which no fairness is assumed, ends it.  `StartTool`, `EndTool`, `ReportTool`
are the worker on the execution of a step, `GiveUp` is any of recovery, cancel and
stop, after which the process may run on.  `plan` is the file `tfplan` of the
stack, identified by the run whose plan step wrote it.  `granted`, `rejected` and
`givenUp` are history variables the properties need and no guard reads.

### Properties

* `GateHolds`: no step behind a gate runs before a request was admitted at it.
* `OneThread`, `StatusFitsSteps`: with one request at a time a run has one thread
  and a file that makes sense.
* `PlanIsEphemeral`: once a run is over and nothing works on it its plan is gone,
  unless an execution of it was given up (its tool may write the plan later).  A run
  deleted while it waits at its gate has no end and leaves its plan (section 7).
* `RunEnds`: liveness, see section 7.
* `RejectedRunsNoStep`: a run that was reported rejected executes no further step.
  Holds with one request at a time, is violated when an approve overlaps (section 9).
* `AppliesOwnPlan`: violated, section 9.

### Abstractions

All runs are on one stack, and all OpenTofu steps of a pipeline are on it.  The
path on which a thread dies of an exception, torn reads of the file, `PUT` of a
run and the editing of pipelines are not modelled.  A task step stands for the
steps that are executions of a worker without a plan file: Ansible playbooks, and
OpenTofu commands other than plan and apply.  Steps of an unknown type fail at once
and are left out.

## 5. The playbook scheduler

### State and actions

`proc[p]` is one instance of `PlaybookScheduler`: where its thread is, the time
since its sleep or pass began, the grace period, the moment the pass took for its
`current_utc`, the schedules still to look at, and `mem`, its copy
`_last_execution`.  `lock` is the set of schedules whose lock file exists, `last`
is `last_execution.json`, `enabled[s]` the schedule in the metadata of a playbook.
`ran` and `fire` are history: how long ago the playbook last ran, and what became
of the fire whose window was opened last.

| Code | Actions |
|---|---|
| `__init__`, `start`, the loop | `start`, `_check_and_run_schedules`, `EndOfPass` |
| `_should_run_now` and the grace period, per schedule | `Consider` |
| `_create_scheduled_run` | `CreateLockFile` (O_CREAT with O_EXCL), `_load_last_execution` (and the second test of the interval), `Truncate`, `_save_last_execution`, `api_run_playbook`, `Unlink` |
| users | `api_save_playbook_schedule`, `api_delete_playbook_schedule` |
| death of an instance, passing of time | `Crash`, `Tick` |

### Properties

* `OneHolder`: a lock file has one holder, and exists as long as it has one.
* `Spacing`: who is about to run a playbook is 70% of an interval away from its
  last run, whichever instance made it.
* `OncePerFire`: a fire is not answered with two runs, although the window around
  it is wider than one poll.
* `FireServed`: a fire is answered before its window closes, unless the schedule
  is turned off, no instance past its grace period is alive, or a crash has left
  the lock file.

### Abstractions

Time is in units of 30 seconds.  Instead of a clock that grows, `now` goes round
the period of the cron expressions, and time stamps are kept as ages, all ages
above `MaxAge` being one (`AgeAssumption`: no comparison tells them apart).  A
pass over the schedules takes at most `Slack`.  A call of the route that fails is
not told apart from one that succeeds: its entry stays and nothing retries it.
Comparisons below 30 seconds (the urgent case of 5 seconds) are rounded to the
unit.

## 6. Source sync

### State and actions

`store[s]` is the copy of a source in Project Storage, `ext[s]` the external one:
a directory, or the last commit of a branch.  `clone[s]` is the clone of a git
source in the cache: what it knows of the branch, its last commit, its work tree,
and whether somebody else has pushed since.  `state` is `.sync_state.json`, `job`
is `_active_jobs`, `cwd` the working directory of the server process.
`thread[t]` is a sync and then the clean-up thread it leaves: the directions still
to do, the updates of the state file still to make, the git clone it has moved
to.  `edited`, `overlapped`, `refreshed` (pushing threads whose clone somebody else
has refreshed since they began to copy) and `unsaved` (the state file could not be
written) are history.

| Code | Actions |
|---|---|
| `start_sync` | `start_sync` |
| `api_sync_project_source`, the old route | the same name: a sync without a job |
| `_detect_conflict` | `CheckConflict` |
| `_update_sync_state` | `_load_sync_state`, `Truncate`, `_save_sync_state` |
| `_sync_local_*`, the copy of `_sync_git_*` | `Clear`, `Fill`; `_compute_revision` |
| git | `ResolveGit` (clone or fetch), `Chdir`, `Commit`, `GitPush`, `RevParse`, `Restore`, `GitFails` |
| any error before the revision | `Fail` |
| an error in reading or writing the state file | `SaveFails` |
| `check-conflict`, `sources/test`, `sources/resolve` | `Refresh`: fetch and `reset --hard` at any moment |
| the end | `_sync_worker`, `cleanup_job` (five seconds late) |
| users, other clones, the server | `EditStorage`, `EditExternal`, `Restart` |

### Properties

* `OneSyncThread`: a running job has one thread and a thread a running job.  The
  late clean-up of an earlier job does not let a second thread start.
* `ConflictSeen`: for a source of mode local with both revisions on record, a sync in
  both directions goes ahead only if not both sides have an edit that no sync has
  copied or overwritten since.  In mode git the code never sees a conflict (below).
* `PushDelivers`: a push that succeeds has put the copy it took on the branch,
  stale clones, earlier refreshes and commits of failed pushes notwithstanding, if no
  two syncs overlapped and nobody refreshed the clone since the copy began.
* `SettledUnlessDisturbed`: a status stays "running" only after a restart, after
  two syncs at a time or with a state file that could not be written.

### Abstractions

Contents are version numbers: an edit makes a new one, a copy keeps it, and `Torn`
is what an unfinished copy leaves; clearing and filling a target are a step each.
`start_sync` may be called at any time.  In mode git the conflict test is
skipped, as in the code, where `resolve_path` returns a `Path` that is indexed
like a dictionary and the exception is swallowed (section 9).

Every git source has a clone of its own in the model.  In the code the directory of
the clone is keyed by project and URL (`server/services/git_source_manager.py:156`),
so two sources with one URL share it; a sync of one of them then disturbs a push of
the other as `Refresh` does.  `reset --hard` is one step and makes the work tree that
of the commit; in the code files git does not track stay.  The old route asks
for the path once more after its sync, but `server/api/sources_routes.py:1202` uses
`time`, which the module does not import, so that it never gets there.  First
clones, tags and commits as refs, the automatic first sync when a source is saved,
and the sync of the stacks as a whole are not modelled.

## 7. Runs, bounds and fairness

| Run | Instance | What it shows |
|---|---|---|
| `queue_core` | 3 executions, 1 worker, 1 slot, 1 fault; two are queued, one of which may be deleted, and one is posted as RUNNING on the worker | rows, the limit on claims and records agree through a crash, a lost report or claim, a restart and the deletion |
| `queue_two_workers` | 1 execution posted with any status and `workerId`, 2 workers with 2 claim requests each, 1 fault | claims compete with each other and with a cancel, a claim times out and is retried: one owner; `OwnershipInv`, `CanceledInQueueIsFinal`, `KeptLifecycle` |
| `queue_patch` | 1 execution, 1 worker it fits, PATCH of status and requirements at any time, a stop, no fault | types, and `SettledIsFinal`, survive unlocked writes by clients |
| `queue_live` | 2 executions, 1 worker, 1 slot, `ListLimit` 1, 1 fault, fair; the older execution fits nobody, or fits the worker, or was posted as RUNNING on it | `NoStarvation`, `StopTakesEffect` |
| `queue_final` | 1 execution, no fault | `FinalIsFinal` is violated |
| `queue_live_run` | 2 executions, 2 slots, no fault | `LiveRunNotFailed` is violated |
| `pipeline_races` | 1 run of plan, approval, apply, task; 2 threads, 2 requests, deletion, 1 restart | `GateHolds` |
| `pipeline_serial` | 2 runs of task, shell, plan, approval, apply on one stack, 1 request at a time, fair | `OneThread`, `StatusFitsSteps`, `PlanIsEphemeral`, `RejectedRunsNoStep`, `RunEnds` |
| `pipeline_other_plan` | 2 runs, one stack | `AppliesOwnPlan` is violated |
| `pipeline_rejected` | 1 run, 2 requests | `RejectedRunsNoStep` is violated |
| `scheduler_two` | 2 instances, 1 schedule of every ten minutes, a poll each minute, 1 crash | each fire is answered once, runs keep their distance |
| `sync_sources` | 1 source, local or git, 2 threads, 2 syncs, 2 edits (1 of a git source), 1 restart, refreshes at any time | one thread per job, conflicts of a local source seen, undisturbed pushes delivered, statuses settled |

Bounds. One execution is enough for races over a record, since records share no
file; a second is needed for the limit and pruning (one running, one candidate), a
third for a posted RUNNING record beside them. It takes two for an older execution
that hides a younger one, be it in the list, where it fits nobody, or in the slot,
where it runs, dies with its worker, is reported without success, or was posted as
RUNNING and nobody runs it. `ListLimit` is 50 in the code and 1 here, so that the
list does overflow. One fault in the queue is a crash, a restart, a lost report or a
claim given up on, at any moment; with two faults and two executions, stopped,
deleted, or run by OpenTofu, but none posted (1.5 million states), TLC finds the
properties of `queue_core` hold as well, and the theorems are for any number of
them. Two requests and two threads are the least at which approve and reject
overlap; a third would do what one of the two has already done. Two schedulers
compete for a lock file, and one crash with the restart after it is what leaves an
empty `last_execution.json`, a lost copy or an abandoned lock file. Two syncs are a
sync that fails and the one after it, or two that overlap; two edits are the two
sides of a conflict. Deadlock is checked wherever something never stops (scan and
recovery of the queue, time); pipeline runs end and syncs are bounded, so their
configurations have `CHECK_DEADLOCK FALSE`.

Fairness.  Threads of the server that have started go on (`WF` on every step of
an update, a claim, a lock holder, a pipeline thread).  The recovery thread polls
for ever, and so does the loop of a worker (`ClaimBegin`), its status poll
(`KilledAndReported`) and the scan interval.  Nothing is assumed of users, of
faults, or of the tool a worker runs: a playbook may hang for ever, and it is the
server's timeouts that end it.  `_wait_for_worker_execution` is fair because its
loop gives up after an hour; for the command of a shell step there is no such limit and
no fairness.  The scheduler needs no fairness: its deadlines are
in `Tick`, which does not pass them over.

Further observations, made with variants of these instances and not kept as runs:

* With two claim requests of one worker in flight (a claim that timed out and its
  retry) both pass the limit before either has written its row:
  `AtMostMaxRunning` does not hold for `ClaimCall = {c1, c2}`.  Nor does
  `LiveRunNotFailed`, even with one slot: the claim that timed out prunes what the
  retry is answered with.
* A record posted as RUNNING takes its worker past its limit: with one slot, one such
  record and one claim under way make two RUNNING.  No worker runs it; it ends by
  pruning, a stop or the 30-minute timeout.  Posted as RUNNING without a `workerId` it
  has no row, and only a stop or the timeout ends it.  Nothing in the repository posts such a body:
  the server's own callers create QUEUED records without a `workerId`.
* With PATCH a worker may run an execution it does not fit: it lists the execution, a
  PATCH brings other requirements, and the second read under the lock asks for the
  status only.  TLC finds it in eleven states with the constants of `queue_patch`.
* PATCH writes back what it has read without the lock, so a PATCH that overlaps a
  cancel or a claim may bring the record back to QUEUED.  `StartedOnce`,
  `StopTakesEffect` and `NoStarvation` hold for `Patched = {}` only.
* A worker does not stop an OpenTofu process whose record recovery has marked
  FAILED, nor any process whose record is deleted.  If such a process hangs, its
  slot stays taken, and `NoStarvation` does not hold.
* `RunEnds` excepts a run whose shell command is still at work: a command that hangs
  keeps the run RUNNING for ever, as the code does.
* A run deleted while it waits at its gate leaves its `tfplan` in the stack
  (`server/api/cicd_routes.py:373`), which the next plan of the stack replaces.
  `PlanIsEphemeral` is about runs that have ended.
* With two gates, two overlapping approves at the first leave `approved` set for
  the second: `GateHolds` does not hold for `TwoGates` with two requests.
* After a restart of the server nothing resumes a pipeline: `RunEnds` and
  `PlanIsEphemeral` hold for `MaxRestarts = 0` only.  `PlanIsEphemeral` also needs
  an apply after every plan: a run that ends with its plan leaves `tfplan` behind.
  With one restart TLC finds it between the write of a reject and its clean-up: the
  run is REJECTED and its plan stays.
* `Spacing` does not hold for two instances and two schedules: each schedule has a
  lock file of its own, but all share `last_execution.json`, and an instance
  writes back the entries of the others as it has loaded them.  The comments at
  `server/services/playbook_scheduler.py:356` and `:361` say otherwise.
* `OncePerFire` does not hold for intervals of five minutes and less, where the
  window is as wide as 70% of the interval: for `*/5 * * * *` TLC finds one fire
  answered when its window opens and again three and a half minutes later.
  `FireServed` does not hold for a cron that fires irregularly (at minutes 0 and
  6 of every 30), whose 70% are taken of the longer interval, nor for a schedule
  whose lock file a crash has left: nobody removes it, and the schedule never runs
  again.
* `PushDelivers` does not hold for syncs that overlap, since they share the
  working directory of the process.  Nor does it without its clause on refreshes: a
  `reset --hard` between the copy and `git add` leaves nothing to commit, one between
  the commit and `git push` drops the commit, and the push succeeds in both cases and
  delivers nothing.
* After a restart a status "running" stays until the next sync of the source in that
  direction.
* Records of `.sync_state.json` are lost when two syncs overlap, or when a sync reads
  the file while another has opened it for writing; without a record there is no
  conflict.  A torn copy, left by a sync that failed between emptying and filling its
  target, is no edit to `ConflictSeen`: the next sync from that side copies it on, and
  nothing in the code prevents that.
* Direction "both" is a pull and then a push; the console's
  `EditRepoSourceDialog.tsx:260` says "(push then pull)".

## 8. What is proved

For every number of executions, workers, slots, runs, threads, sources,
schedulers, faults and restarts, from the assumptions named in the modules, which
only say that the constants have their types and the marks for "none" are no names
of anything: `QueueAssumption`, `HolderAssumption`, `PipelineAssumption`,
`SchedulerAssumption`, `AgeAssumption` (ages that decide a comparison are kept
apart) and `SyncAssumption`.  Every other assumption is in the theorem.

| Module | Theorem | Assuming | States |
|---|---|---|---|
| `ExecutionQueueProofs` | `TypeCorrect` | | `Spec => []TypeOK` |
| `ExecutionQueueSafetyProofs` | `SettledIsFinalHolds` | | `Spec => SettledIsFinal` |
| | `Ownership` | `Patched = {}` | `Spec => []OwnershipInv` |
| | `RunsOwnExecutionHolds` | `Patched = {}` | `Spec => []RunsOwnExecution` |
| | `RunningIsIndexedHolds` | `Patched = {}` | `Spec => []RunningIsIndexed` |
| | `StartedOnceHolds` | `Patched = {}` | `Spec => StartedOnce` |
| | `CanceledInQueueHolds` | `Patched = {}` | `Spec => CanceledInQueueIsFinal` |
| | `LifecycleRefined` | `Patched = {}` | `Spec => KeptLifecycle` |
| `ExecutionQueueLimitProofs` | `AtMostMaxRunningHolds` | `Patched = {}`, one claim request per worker, finitely many executions | `Spec => []AtMostMaxRunning` |
| | `LiveRunNotFailedHolds` | the same, and one slot | `Spec => LiveRunNotFailed` |
| `PipelineRunProofs` | `TypeCorrect` | | `Spec => []TypeOK` |
| | `OneGateHolds` | one gate, requests may overlap | `Spec => []GateHolds` |
| | `OneThreadHolds` | one request at a time | `Spec => []OneThread` |
| | `StatusFitsStepsHolds` | one request at a time | `Spec => []StatusFitsSteps` |
| | `SerialRejectHolds` | one request at a time | `Spec => RejectedRunsNoStep` |
| | `SerialGatesHold` | one request at a time | `Spec => []GateHolds` |
| `PipelineRunPlanProofs` | `PlanIsEphemeralHolds` | one request at a time, no restart, every plan step followed by an apply with gates only between them | `Spec => []PlanIsEphemeral` |
| `PlaybookSchedulerProofs` | `TypeCorrect` | | `Spec => []TypeOK` |
| | `LockIsExclusive` | | `Spec => []OneHolder` |
| | `RunsAreSpaced` | one schedule | `Spec => []Spacing` |
| | `OneRunPerFire` | one schedule, `WindowsFit` | `Spec => []OncePerFire` |
| | `FireServedHolds` | one schedule, `WindowsFit`, `RoundsFit` | `Spec => []FireServed` |
| `SourceSyncProofs` | `TypeCorrect` | | `Spec => []TypeOK` |
| | `OneThreadPerJob` | | `Spec => []OneSyncThread` |
| `SourceSyncSafetyProofs` | `SettledHolds` | | `Spec => []SettledUnlessDisturbed` |
| | `PushDeliversHolds` | | `Spec => PushDelivers` |
| | `ConflictSeenHolds` | | `Spec => ConflictSeen` |

**The queue.**  `TypeOK` is not inductive: an update that is about to be written
carries a status that must be a real one, not "unset", and a claim about to write
must hold a real execution; `TypeInv` adds that.  `RunsOwnExecution` is not
inductive either: that the worker starts what it was answered is its own only
because the claim still remembers an execution whose record names it, and that
stays so only because no thread is about to write another worker into it.
`OwnershipInv` says this of everybody who remembers something about a record:

* `LockersAreCurrent`: what a holder of the lock has read is still true as far as
  its write depends on it.  Unlocked writers may change the *status* of a started
  record under a stop, which is the race of `FinalIsFinal`, but not its worker.  A
  started record without a worker (posted as RUNNING) has no unlocked writer, and
  under a stop or a timeout it is still RUNNING or CANCELING;
* `ClaimsHoldTheirLock`: a claim between lock and write has a QUEUED record;
* `PruningIsOwn`, `UpdatesAreReports`, `RowsAreOwn`: pruning, reports and rows are
  about started records of their own worker, rows still to be added included.  This is
  why the unlocked writers cannot meet a claim: they only touch records that have
  been started, claims only ones that have not.

A record's worker is its `Owner` once it is started; the `workerId` a QUEUED record was
posted with owns nothing.

`Patched = {}` is needed for the last point: PATCH writes any record back, the
worker included.  Deletion needs no assumption: it may come between any two steps,
and what is said of a deleted record is what those who have it open still see.
The action properties and the refinement follow from one lemma, that every step
moves every record by one of the moves in `RecordMove`.  `AtMostMaxRunning` is not
inductive: the limit is compared when a claim takes the lock and the record
becomes RUNNING later.  It counts the executions nobody posts as RUNNING, whose rows
only claims write.  `LimitInv` adds that a claim about to write finds its
worker below the limit, which the one request of the worker keeps true, since no
other claim of that worker comes in between.

`SettledIsFinal` needs neither ownership nor `Patched = {}`: validation refuses every
later PATCH and report, cancel, stop, recovery and pruning ask for another status when
they read, and a claim for QUEUED.  With the types alone, no step from a state in which
nothing else is in hand brings anything into hand again, or writes.

Only pruning and the timeout fail a record whose run is alive, and pruning is part
of a claim.  `LiveInv` says that a worker with a claim in the server runs nothing,
which one slot and one request give, and that what has been reported is neither run
nor about to be.  One request means that a claim the worker gave up on after ten
seconds, or had sent before it crashed, ends in the server before the next begins.
Both hypotheses are needed (sections 7 and 9).

**Pipelines.**  A run is behind its gate if anything is: the file, but also what a
thread or a request remembers or is about to store.  `GateInv` says that until the
gate is granted none of these has passed it: no copy is approved, no copy or update
has a position beyond the gate, and a file or update that says WAITING_APPROVAL
names the gate.  It is inductive for any number of overlapping requests, because
whoever sets `approved` has been granted, and it needs one gate, because a leftover
approval may open the next one (section 7).  For one request at a time, `SerialInv`
says who can be at work together: a run that waits has no thread, a request finds
none, and a thread that is to go on does not let the run wait.  `FitsInv` then says
that the file to be stored fits, since whoever works on a run works alone.

With one request at a time there may be any number of gates.  `GrantInv` says of the
file of a run, of every copy of it and of every update under way that the gates it
has passed were granted, and the gate it is approved for, if any, too; `FitsInv` and
`SerialInv` keep another request from changing the gate under an approval.
`RejectInv` says that a rejected run has a file that says so (or is deleted), and
that nobody works on it but the clean-up.

`PlanInv` follows the saved plan: as long as `tfplan` is that of a run none of whose
executions was given up, that run either rests at a gate between its plan and its
apply step, or the one who works on it still has the apply or the clean-up before
it.  `JobInv` relates the process on a worker to the step the thread waits for, so
that no tool writes a plan nobody waits for; a restart breaks that, and a second
request breaks the "one who works on it".

**The scheduler.**  `OneHolder` is inductive together with the types.  For
`Spacing`, `SpacingInv` relates the entry in the file, the copies and the true age
of the last run: outside the lock file the entry in `last_execution.json` is at
most as old as the last run, and under it the holder's copy and what it is about to
write agree with it.  With two schedules this is false, and so is `Spacing`.

`OncePerFire` adds the clock.  `PassInv` bounds how far an instance may be behind the
time it took for its pass, and `FireInv` says that the run that has answered the fire
is younger than the opening of its window.  A second run within the window would be
nearer to the first than the window and one pass take, and `WindowsFit` says that
this is less than 70% of the interval, which `Spacing` forbids.  Every ten minutes
satisfies `WindowsFit`; every five minutes does not, and there the property fails
(section 7).  The proof is over any `Period`, so it reasons about the remainders of
the model's clock by cases instead of by enumeration.

`FireServed` is a progress property put as a safety one: before the window closes,
somebody has come by.  `TimerInv` ties the timer of a pass to the moment it began,
and `StampInv` says that no entry was made later than the last pass of a window ends.  `Answered` then says what an open fire can count on: an instance has passed
the second test (`Runner`), or is about to and will (`Sure`), or one past its grace
period is due for a pass early enough (`Expected`).  Until then every entry, in the
file and in memory, is so old that from the moment `Chance` on no test refuses a run,
and whoever gave up under the lock file did so before (`EntriesOld`, `GaveUpEarly`),
so that from then on a busy lock file means a run.  A crash may take the instance that
was expected, so `Expected` also says that *every* instance past its grace period is
in time for the moment after one more crash, `Round` later; an instance that comes
late is (`LateIsInTime`).  TLC has checked these invariants for ten minutes with a
crash and with slow passes before they were proved.

`RoundsFit` says that the window leaves that room: after the last refusal, one
`Round` (a poll and two passes) for every crash.  With a poll of a minute and cron
expressions of ten minutes or of twenty it holds for one crash when a pass ends
within 30 seconds (`Slack = 0`), and for ten minutes for slower passes (`Slack = 1`)
without a crash.  It is what the proof needs for any number of instances, and
sufficient only: in `scheduler_two`, with slow passes and a crash, it fails, and TLC
finds that `FireServed` holds there all the same, as it does with three instances.

**Source sync.**  `OneSyncThread` needs only the types and who holds a job, whatever
git, the copies and the state file do.

* `SettledUnlessDisturbed`: without overlap, and as long as the state file can be
  written, one thread is at work at most
  (`AtMostOne`), and `SettleInv` says that every status at running is one this
  thread has still to replace, on whichever way it fails.
* `PushDelivers`: `PushInv` says that from the copy to the push the work tree, and
  from the commit on the head of the clone the process is in, hold what the thread
  has copied, as long as no two syncs have overlapped and nobody has refreshed the
  clone under it.
* `ConflictSeen` needs neither: syncs may overlap, fail and lose records before the one
  it is about, which is one of mode local with both records there.  `FreshInv` says
  that an edit is newer than every content and every revision about, and `EditInv`
  that a side with an edit nobody has copied or overwritten differs from the other
  side and from the revision that it will be compared with, in the file as in the
  hands of every thread that may still write it.  `GitInv` keeps the working
  directory of git out of the way of sources that are directories.

Only model-checked, and why: liveness (`NoStarvation`, `StopTakesEffect`,
`RunEnds`), which is out of the prover's reach along with ENABLED.  `FireServed` is
proved under `RoundsFit`; for the slower passes of `scheduler_two` TLC alone vouches
for it.  `GateHolds` for several gates and overlapping requests, `FinalIsFinal`,
`AppliesOwnPlan` and the other variants of
section 7 are not proved because they are false.

## 9. Where code and documentation disagree

1. `FinalIsFinal` (`queue_final`).  "Final statuses ... cannot be changed"
   (`server/storage/executions_store.py:70`).  A stop reads RUNNING under the lock,
   the report stores SUCCESS without it, the stop stores CANCELING.
2. `LiveRunNotFailed` (`queue_live_run`).  "The worker is online and polling for
   new work, so it is idle" (`server/storage/index_db.py:301`).  With two slots it
   is not: a stale row makes it look full, and its claim fails its own live run.
3. `AppliesOwnPlan` (`pipeline_other_plan`).  "Require the exact saved plan
   produced by the plan step" (`worker/internal/execute/tofu.go:343`).  A second
   run on the stack replaces the plan before the first is approved.
4. `RejectedRunsNoStep` (`pipeline_rejected`).  "Until the run is approved or
   rejected" (`server/services/cicd_engine.py:20`).  Both may succeed, and the run
   that was reported rejected executes its next step.

Read in the code, without a run:

* "Conflict detection" (`server/services/source_sync_service.py:7`), "Detect if both
  sides changed since last sync" (`:266`): in mode git none is ever detected.  Line
  1540 indexes the `Path` that `resolve_path` returns like a dictionary, the exception
  is swallowed, and the sync goes on without the test.  `ConflictSeen` is about mode
  local for that reason.
* Autosync runs nothing: `server/services/autosync_scheduler.py:85` takes the parent of
  the projects directory for the projects directory, so that no name it finds is a
  project.

## 10. What is not modelled

Inside the modelled components: which executions retention chooses, the playbooks
generated beside the records, deletion and PATCH of one execution, PATCH of
`workerId`, heartbeats,
`execution_locations`, the file fallback for a broken index, torn reads of records,
exceptions of the pipeline thread, `PUT` of pipeline runs and the numbers given to
runs, `stop()` of the scheduler and changes of its interval while it runs, editing
and reverting of sources, first clones.

Components with state of their own that are left out:

* *Autosync* is a loop meant to call `start_sync`, which finds no project (section 9).
  Its own state is a part of the project configuration, a file many routes read and
  write back without a lock; a model of it would say what one sentence does: the last
  writer wins.
* *Worker registry.*  One file per worker, a token hash and a cache of verified
  tokens.  The queue starts from an authenticated worker and shares nothing with
  it but the worker's name.
* *Cloud stacks* are directories of HCL.  Their plans and applies are executions,
  and the plan file is in `PipelineRun`.

Everything else is CRUD over one file or table, a read-only view, text conversion
or pure I/O, without a protocol of several steps, and makes up most of the lines of
the repository: the API description, the provisioning templates, editors, secrets,
users and roles, the console, the sample application.  `PROJECT.json` has the
reason for each.

## 11. How to run

    tlc -workers 2 -config queue_core.cfg MCExecutionQueue
    tlc -workers 2 -config pipeline_races.cfg MCPipelineRun
    tlc -workers 2 -config scheduler_two.cfg MCPlaybookScheduler
    tlc -workers 2 -config sync_sources.cfg MCSourceSync
    tlapm ExecutionQueueProofs.tla

and so on for the other configurations (`queue_*` belong to `MCExecutionQueue`,
`pipeline_*` to `MCPipelineRun`) and the other modules named `...Proofs`.  The
longest runs are `queue_core` (1.3 million states), `queue_patch` (1.9 million),
`sync_sources` (2.4 million) and, for their liveness, `queue_live` (0.2 million) and
`pipeline_serial` (0.3 million), two to four minutes each; each proof module takes a
few minutes.
