---------------------------- MODULE PipelineRun ----------------------------
(***************************************************************************)
(* CI/CD pipeline runs: a background thread of the server works through    *)
(* the steps of a run, pauses at an approval step by writing the run file  *)
(* and returning, and approve starts a new thread from that file.  OpenTofu*)
(* and Ansible steps are executions of a worker, shell steps commands of   *)
(* the thread's own; plan leaves the file tfplan in the directory of the   *)
(* stack, and apply takes whatever tfplan is there.                        *)
(*                                                                         *)
(* The run file is read and written without a lock: update_pipeline_run    *)
(* reads it, lays its updates over it and writes the whole of it back, and *)
(* the callers have checked the status in a read of their own before.      *)
(***************************************************************************)
EXTENDS Integers, FiniteSets, Sequences

CONSTANTS Run,          \* runs of pipelines on one stack
          Pipeline,     \* the steps: "task" is any other execution of a worker
          Thread,       \* threads one run may have at a time
          Request,      \* approve and reject requests a run may have at a time
          Deleted,      \* runs some user deletes
          MaxRestarts   \* bound: restarts of the server

CONSTANT NoPlan

ASSUME PipelineAssumption ==
    /\ Pipeline \in Seq({"plan", "approval", "apply", "task", "shell"})
    /\ Thread \cap Request = {}
    /\ Deleted \subseteq Run
    /\ MaxRestarts \in Nat
    /\ NoPlan \notin Run

VARIABLES
    file,      \* file[r]: the JSON file of run r
    proc,      \* proc[r][p]: a thread or a request that works on r
    job,       \* job[r][t]: the execution thread t has queued last
    plan,      \* the run whose plan step wrote tfplan, or NoPlan
    granted,   \* history: the gates of r some approve request was admitted at
    rejected,  \* history: runs a reject request has reported success for
    givenUp,   \* history: runs with an execution that was given up
    restarts

vars == <<file, proc, job, plan, granted, rejected, givenUp, restarts>>

-----------------------------------------------------------------------------
(* Types.  Steps count from 1; gate 0 is approval_step = None.             *)

Step == 1 .. Len(Pipeline)
Gate == {i \in Step : Pipeline[i] = "approval"}

TERMINAL == {"SUCCESS", "FAILED", "REJECTED"}
StepStatus == {"PENDING", "RUNNING", "SUCCESS", "FAILED", "SKIPPED",
               "WAITING_APPROVAL", "REJECTED"}

File == [status : {"ABSENT", "DELETED", "QUEUED", "RUNNING", "WAITING_APPROVAL"} \cup TERMINAL,
         steps : [Step -> StepStatus],
         current : 1 .. Len(Pipeline) + 1,
         gate : Gate \cup {0},
         approved : BOOLEAN]

NewFile == [status |-> "QUEUED", steps |-> [i \in Step |-> "PENDING"],
            current |-> 1, gate |-> 0, approved |-> FALSE]

\* What a thread or a request remembers: its copies of the file's fields, the
\* updates it is about to store, and where it goes on after that.
NoProc == [pc |-> "idle", i |-> 1, steps |-> NewFile.steps, gate |-> 0, approved |-> FALSE,
           upd |-> <<>>, buf |-> NewFile, next |-> "idle"]

NoJob == [kind |-> "task", state |-> "none", tool |-> "none"]
Job == [kind : {"plan", "apply", "task"},
        state : {"none", "queued", "running", "SUCCESS", "FAILED"},  \* the record
        tool : {"none", "running", "SUCCESS", "FAILED"}]             \* the process

TypeOK ==
    /\ file \in [Run -> File]
    /\ \A r \in Run, p \in Thread \cup Request :
        /\ proc[r][p].pc \in {"idle", "begin", "step", "exec", "wait", "shell",
                           "merge", "store", "cleanup"}
        /\ proc[r][p].i \in 1 .. Len(Pipeline) + 1
        /\ proc[r][p].buf \in File
    /\ job \in [Run -> [Thread -> Job]]
    /\ plan \in Run \cup {NoPlan}
    /\ granted \in [Run -> SUBSET Gate]
    /\ rejected \subseteq Run
    /\ givenUp \subseteq Run
    /\ restarts \in 0 .. MaxRestarts

Init ==
    /\ file = [r \in Run |-> [NewFile EXCEPT !.status = "ABSENT"]]
    /\ proc = [r \in Run |-> [p \in Thread \cup Request |-> NoProc]]
    /\ job = [r \in Run |-> [t \in Thread |-> NoJob]]
    /\ plan = NoPlan
    /\ granted = [r \in Run |-> {}]
    /\ rejected = {}
    /\ givenUp = {}
    /\ restarts = 0

-----------------------------------------------------------------------------
(* Steps of a thread or a request on its own.                              *)

Exists(r) == file[r].status \notin {"ABSENT", "DELETED"}

ProcStep(r, p, rec) == proc' = [proc EXCEPT ![r][p] = rec]

\* Calls update_pipeline_run(updates) next and goes on at "next".
Updating(rec, updates, next) ==
    [rec EXCEPT !.pc = "merge", !.upd = updates, !.next = next]

Updated(f, updates) == [x \in DOMAIN f |-> IF x \in DOMAIN updates THEN updates[x] ELSE f[x]]

\* A run without a file is not updated, and threads go on all the same.
Merge(r, p) ==
    LET k == proc[r][p]
    IN  /\ k.pc = "merge"
        /\ IF Exists(r)
           THEN ProcStep(r, p, [k EXCEPT !.pc = "store", !.upd = <<>>, !.buf = Updated(file[r], k.upd)])
           ELSE ProcStep(r, p, IF p \in Thread /\ k.next # "idle"
                               THEN [k EXCEPT !.pc = k.next, !.upd = <<>>] ELSE NoProc)
        /\ UNCHANGED <<file, job, plan, granted, rejected, givenUp, restarts>>

FreeThread(r, t) == proc[r][t] = NoProc /\ job[r][t].state \notin {"queued", "running"}
                        /\ job[r][t].tool = "none"

\* Writing the file; for approve also _start_pipeline_thread.
Store(r, p) ==
    LET k == proc[r][p]
        done == IF k.next = "idle" THEN NoProc ELSE [k EXCEPT !.pc = k.next, !.buf = NewFile]
    IN  /\ k.pc = "store"
        /\ file' = [file EXCEPT ![r] = k.buf]
        /\ IF k.next = "spawn"
           THEN \E t \in Thread :
                    /\ FreeThread(r, t)
                    /\ proc' = [proc EXCEPT ![r] = [@ EXCEPT ![p] = NoProc, ![t].pc = "begin"]]
           ELSE ProcStep(r, p, done)
        /\ rejected' = IF k.next = "cleanup" THEN rejected \cup {r} ELSE rejected
        /\ UNCHANGED <<job, plan, granted, givenUp, restarts>>

-----------------------------------------------------------------------------
(* The routes.                                                             *)

trigger_pipeline_run(r) ==
    /\ file[r].status = "ABSENT"
    /\ file' = [file EXCEPT ![r] = NewFile]
    /\ \E t \in Thread : FreeThread(r, t) /\ ProcStep(r, t, [NoProc EXCEPT !.pc = "begin"])
    /\ UNCHANGED <<job, plan, granted, rejected, givenUp, restarts>>

\* Mutant: any run that is not over may be approved.
Waiting_Unchecked(r) == Exists(r) /\ file[r].status \notin TERMINAL

Waiting(r) == file[r].status = "WAITING_APPROVAL"

approve_pipeline_run(r, q) ==
    /\ proc[r][q].pc = "idle"
    /\ Waiting(r)
    /\ ProcStep(r, q, Updating(NoProc, [status |-> "QUEUED", approved |-> TRUE], "spawn"))
    /\ granted' = [granted EXCEPT ![r] = @ \cup ({file[r].gate} \ {0})]
    /\ UNCHANGED <<file, job, plan, rejected, givenUp, restarts>>

\* Mutant: a status no step has.
SkipAfter_Canceled(steps, i) ==
    [j \in Step |-> IF j > i /\ steps[j] = "PENDING" THEN "CANCELED" ELSE steps[j]]

SkipAfter(steps, i) ==
    [j \in Step |-> IF j > i /\ steps[j] = "PENDING" THEN "SKIPPED" ELSE steps[j]]

reject_pipeline_run(r, q) ==
    LET g == file[r].gate
        steps == file[r].steps
    IN  /\ proc[r][q].pc = "idle"
        /\ Waiting(r)
        /\ ProcStep(r, q, Updating(NoProc,
               [status |-> "REJECTED", approved |-> FALSE,
                steps |-> IF g = 0 THEN steps
                          ELSE SkipAfter([steps EXCEPT ![g] = "REJECTED"], g)],
               "cleanup"))
        /\ UNCHANGED <<file, job, plan, granted, rejected, givenUp, restarts>>

\* Mutant: the plan of a rejected run is kept.
_cleanup_run_tfplans_Never == plan

\* The plan of the stack, if some step of the pipeline plans or applies.
_cleanup_run_tfplans ==
    IF \E i \in Step : Pipeline[i] \in {"plan", "apply"} THEN NoPlan ELSE plan

RejectCleanup(r, q) ==
    /\ proc[r][q].pc = "cleanup"
    /\ plan' = _cleanup_run_tfplans
    /\ ProcStep(r, q, NoProc)
    /\ UNCHANGED <<file, job, granted, rejected, givenUp, restarts>>

delete_pipeline_run(r) ==
    /\ r \in Deleted
    /\ Exists(r)
    /\ file' = [file EXCEPT ![r] = [NewFile EXCEPT !.status = "DELETED"]]
    /\ UNCHANGED <<proc, job, plan, granted, rejected, givenUp, restarts>>

-----------------------------------------------------------------------------
(* _run_pipeline_thread                                                    *)

Begin(r, t) ==
    LET f == file[r]
    IN  /\ proc[r][t].pc = "begin"
        /\ IF Exists(r) /\ f.status \notin TERMINAL
           THEN ProcStep(r, t, Updating(
                    [NoProc EXCEPT !.i = f.current, !.steps = f.steps, !.gate = f.gate,
                                   !.approved = f.approved],
                    [status |-> "RUNNING"], "step"))
           ELSE ProcStep(r, t, NoProc)
        /\ UNCHANGED <<file, job, plan, granted, rejected, givenUp, restarts>>

\* Mutant: an approval step is passed over.
Passes_Always(k) == TRUE

\* The thread was started by an approval at this very gate.
Passes(k) == k.approved /\ k.gate = k.i

\* What the thread does at step i, on its own copy of the steps.
NextStep(r, t) ==
    LET k == proc[r][t]
        i == k.i
        at(s) == [k.steps EXCEPT ![i] = s]
    IN  /\ k.pc = "step"
        /\ ProcStep(r, t,
            IF i > Len(Pipeline)
            THEN Updating(k, [status |-> "SUCCESS", steps |-> k.steps, current |-> i], "idle")
            ELSE IF Pipeline[i] # "approval"
            THEN Updating([k EXCEPT !.steps = at("RUNNING")],
                          [steps |-> at("RUNNING"), current |-> i], "exec")
            ELSE IF Passes(k)
            THEN Updating([k EXCEPT !.steps = at("SUCCESS"), !.i = i + 1, !.approved = FALSE, !.gate = 0],
                          [steps |-> at("SUCCESS"), current |-> i + 1, approved |-> FALSE, gate |-> 0],
                          "step")
            ELSE Updating(k, [status |-> "WAITING_APPROVAL", steps |-> at("WAITING_APPROVAL"),
                              current |-> i, gate |-> i, approved |-> FALSE], "idle"))
        /\ UNCHANGED <<file, job, plan, granted, rejected, givenUp, restarts>>

\* Starts the command of a shell step, queues the execution of any other; a plan
\* step removes the old plan first.
_execute_step(r, t) ==
    LET k == proc[r][t]
        kind == Pipeline[k.i]
    IN  /\ k.pc = "exec"
        /\ plan' = IF kind = "plan" THEN NoPlan ELSE plan
        /\ IF kind = "shell"
           THEN ProcStep(r, t, [k EXCEPT !.pc = "shell"]) /\ UNCHANGED job
           ELSE /\ ProcStep(r, t, [k EXCEPT !.pc = "wait"])
                /\ job' = [job EXCEPT ![r][t] = [kind |-> kind, state |-> "queued", tool |-> "none"]]
        /\ UNCHANGED <<file, granted, rejected, givenUp, restarts>>

\* The finally clause of _execute_tofu_step.
PlanAfter(kind, status) ==
    IF kind = "apply" \/ (kind = "plan" /\ status # "SUCCESS") THEN NoPlan ELSE plan

\* Mutant: a step that fails is logged and the run goes on.
StepDone_Continues(k, status) ==
    LET steps == [k.steps EXCEPT ![k.i] = status]
    IN  Updating([k EXCEPT !.steps = steps, !.i = @ + 1],
                 [steps |-> steps, current |-> k.i + 1], "step")

StepDone(k, status) ==
    LET steps == [k.steps EXCEPT ![k.i] = status]
        skipped == SkipAfter(steps, k.i)
    IN  IF status = "SUCCESS"
        THEN Updating([k EXCEPT !.steps = steps, !.i = @ + 1],
                      [steps |-> steps, current |-> k.i + 1], "step")
        ELSE Updating([k EXCEPT !.steps = skipped],
                      [status |-> "FAILED", steps |-> skipped, current |-> k.i], "idle")

\* The command of _execute_shell_step ends; nothing sets it a limit.
ShellEnds(r, t) ==
    /\ proc[r][t].pc = "shell"
    /\ \E status \in {"SUCCESS", "FAILED"} : ProcStep(r, t, StepDone(proc[r][t], status))
    /\ UNCHANGED <<file, job, plan, granted, rejected, givenUp, restarts>>

\* Mutant: the engine waits without a limit.
HourIsOver_Never(j) == FALSE

\* An hour may be over before the execution is.
HourIsOver(j) == j.state \in {"queued", "running"}

_wait_for_worker_execution(r, t) ==
    LET k == proc[r][t]
        j == job[r][t]
    IN  /\ k.pc = "wait"
        /\ \E status \in {"SUCCESS", "FAILED"} :
            /\ \/ j.state = status /\ UNCHANGED givenUp
               \/ /\ HourIsOver(j)
                  /\ status = "FAILED"
                  /\ givenUp' = givenUp \cup {r}
            /\ plan' = PlanAfter(j.kind, status)
            /\ ProcStep(r, t, StepDone(k, status))
        /\ UNCHANGED <<file, job, granted, rejected, restarts>>

ThreadStep(r, t) ==
    Begin(r, t) \/ NextStep(r, t) \/ _execute_step(r, t) \/ _wait_for_worker_execution(r, t)
        \/ Merge(r, t) \/ Store(r, t)

-----------------------------------------------------------------------------
(* The worker.                                                             *)

JobStep(r, t, rec) == job' = [job EXCEPT ![r][t] = rec]

\* An apply without a saved plan is refused.
StartTool(r, t) ==
    LET j == job[r][t]
    IN  /\ j.state = "queued"
        /\ IF j.kind = "apply" /\ plan = NoPlan
           THEN JobStep(r, t, [j EXCEPT !.state = "FAILED"])
           ELSE JobStep(r, t, [j EXCEPT !.state = "running", !.tool = "running"])
        /\ UNCHANGED <<file, proc, plan, granted, rejected, givenUp, restarts>>

EndTool(r, t) ==
    LET j == job[r][t]
    IN  /\ j.tool = "running"
        /\ \E result \in {"SUCCESS", "FAILED"} :
            /\ JobStep(r, t, [j EXCEPT !.tool = result])
            /\ plan' = IF j.kind = "plan" /\ result = "SUCCESS" THEN r ELSE plan
        /\ UNCHANGED <<file, proc, granted, rejected, givenUp, restarts>>

\* The report is refused if the record has become final in the meantime.
ReportTool(r, t) ==
    LET j == job[r][t]
    IN  /\ j.tool \in {"SUCCESS", "FAILED"}
        /\ JobStep(r, t, [j EXCEPT !.tool = "none",
                                   !.state = IF @ = "running" THEN j.tool ELSE @])
        /\ UNCHANGED <<file, proc, plan, granted, rejected, givenUp, restarts>>

\* Recovery, cancel or stop: the record is final, the tool may run on.
GiveUp(r, t) ==
    /\ job[r][t].state \in {"queued", "running"}
    /\ JobStep(r, t, [job[r][t] EXCEPT !.state = "FAILED"])
    /\ givenUp' = givenUp \cup {r}
    /\ UNCHANGED <<file, proc, plan, granted, rejected, restarts>>

\* Threads and requests are gone; nothing starts the threads again.
ServerRestart ==
    /\ restarts < MaxRestarts
    /\ restarts' = restarts + 1
    /\ proc' = [r \in Run |-> [p \in Thread \cup Request |-> NoProc]]
    /\ UNCHANGED <<file, job, plan, granted, rejected, givenUp>>

-----------------------------------------------------------------------------

RequestStep(r, q) == Merge(r, q) \/ Store(r, q) \/ RejectCleanup(r, q)

Next ==
    \/ \E r \in Run :
        \/ trigger_pipeline_run(r) \/ delete_pipeline_run(r)
        \/ \E q \in Request :
            approve_pipeline_run(r, q) \/ reject_pipeline_run(r, q) \/ RequestStep(r, q)
        \/ \E t \in Thread :
            \/ ThreadStep(r, t) \/ ShellEnds(r, t)
            \/ StartTool(r, t) \/ EndTool(r, t) \/ ReportTool(r, t) \/ GiveUp(r, t)
    \/ ServerRestart

Spec == Init /\ [][Next]_vars

\* Threads of the server go on; the hour of _wait_for_worker_execution ends.
\* Nothing is assumed of the tools of a worker or of shell commands.
Fairness ==
    \A r \in Run :
        /\ \A t \in Thread : WF_vars(ThreadStep(r, t))
        /\ \A q \in Request : WF_vars(RequestStep(r, q))

FairSpec == Spec /\ Fairness

-----------------------------------------------------------------------------
(* Properties.                                                             *)

\* No step behind an approval step runs before somebody has approved the run
\* while it waited at that gate (_run_pipeline_thread, whatever approve and
\* reject requests, deletes and restarts come in between).
GateHolds ==
    \A r \in Run, t \in Thread :
        proc[r][t].pc \in {"exec", "wait", "shell"} =>
            \A g \in Gate : g < proc[r][t].i => g \in granted[r]

\* With one request at a time no two threads ever work on a run, so no step
\* is executed twice (approve starts a thread, the old one has to be gone).
OneThread ==
    \A r \in Run : Cardinality({t \in Thread : proc[r][t].pc # "idle"}) <= 1

\* The status of a run agrees with those of its steps: a waiting run has done
\* everything before the gate, a failed one has one failed step and skipped
\* the rest, a successful one has done everything.
StatusFitsSteps ==
    \A r \in Run :
        LET s == file[r].steps
            doneTo(i) == \A j \in Step : j < i => s[j] = "SUCCESS"
            cutAt(i, status) == doneTo(i) /\ s[i] = status
                                    /\ \A j \in Step : j > i => s[j] = "SKIPPED"
        IN  CASE file[r].status = "WAITING_APPROVAL" ->
                    doneTo(file[r].gate) /\ s[file[r].gate] = "WAITING_APPROVAL"
              [] file[r].status = "FAILED" -> \E i \in Step : cutAt(i, "FAILED")
              [] file[r].status = "REJECTED" -> \E i \in Gate : cutAt(i, "REJECTED")
              [] file[r].status = "SUCCESS" -> doneTo(Len(Pipeline) + 1)
              [] OTHER -> TRUE

\* A plan does not outlive the end of its run: once a run has ended and nothing works
\* on it any more, its tfplan is gone (_cleanup_tfplan, _cleanup_run_tfplans), unless
\* an execution was given up: its tool may write the plan after the cleanup.  A run
\* deleted while it waits has no end, and its plan stays.
PlanIsEphemeral ==
    \A r \in Run \ givenUp :
        /\ file[r].status \in TERMINAL
        /\ \A p \in Thread \cup Request : proc[r][p].pc = "idle"
        => plan # r

\* Apply uses "the exact saved plan produced by the plan step" of its run.
AppliesOwnPlan ==
    [][\A r \in Run, t \in Thread :
          job[r][t].kind = "apply" /\ job[r][t].tool = "none" /\ job'[r][t].tool = "running"
          => plan = r]_vars

\* A run is "approved or rejected": after a successful reject no step starts.
RejectedRunsNoStep ==
    [][\A r \in rejected, t \in Thread :
          /\ job'[r][t].state = "queued" => job[r][t].state = "queued"
          /\ proc'[r][t].pc = "shell" => proc[r][t].pc = "shell"]_vars

\* A run comes to an end or waits for somebody, however its executions end or
\* hang, unless the command of one of its shell steps does.
RunEnds ==
    \A r \in Run :
        file[r].status \in {"QUEUED", "RUNNING"} ~>
            \/ file[r].status \in TERMINAL \cup {"WAITING_APPROVAL", "DELETED"}
            \/ \E t \in Thread : proc[r][t].pc = "shell"

=============================================================================
