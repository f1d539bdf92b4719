------------------------ MODULE PipelineRunPlanProofs ------------------------
(***************************************************************************)
(* A theorem about the saved plan of PipelineRun, for any number of runs   *)
(* on the stack, any deletions and every pipeline that applies what it     *)
(* plans: a run that has ended leaves no tfplan, if the requests of a run  *)
(* come one after the other and the server is not restarted.  Of a deleted *)
(* run, which never ends, it says nothing.                                 *)
(***************************************************************************)
EXTENDS PipelineRunProofs

-----------------------------------------------------------------------------
(* Between a plan step and the apply step behind it.                       *)

\* Between a plan step and the next apply step there are gates only.
PlansAreApplied ==
    \A p \in Step : Pipeline[p] = "plan" =>
        \E a \in Step : /\ p < a /\ Pipeline[a] = "apply"
                        /\ \A j \in Step : p < j /\ j < a => Pipeline[j] = "approval"

\* Between a plan step and position i there are gates only.
PlanBefore(i) ==
    \E p \in Step : /\ p < i /\ Pipeline[p] = "plan"
                    /\ \A j \in Step : p < j /\ j < i => Pipeline[j] = "approval"

HasPlan == \E i \in Step : Pipeline[i] = "plan"

\* A step that takes the plan away, or makes it.
Plans(i) == i \in Step /\ Pipeline[i] \in {"plan", "apply"}

LEMMA PlanIsUsed ==
    ASSUME PlansAreApplied, NEW i \in Position, PlanBefore(i)
    PROVE  /\ i \in Step /\ Pipeline[i] \in {"approval", "apply"}
           /\ Pipeline[i] = "approval" => PlanBefore(i + 1)
           /\ HasPlan
<1>0. Len(Pipeline) \in Nat /\ i \in Int
  BY PipelineFacts DEF Position
<1>1. PICK p \in Step : /\ p < i /\ Pipeline[p] = "plan"
                        /\ \A j \in Step : p < j /\ j < i => Pipeline[j] = "approval"
  BY DEF PlanBefore
<1>2. PICK a \in Step : /\ p < a /\ Pipeline[a] = "apply"
                        /\ \A j \in Step : p < j /\ j < a => Pipeline[j] = "approval"
  BY <1>1 DEF PlansAreApplied
<1>3. p \in Int /\ a \in Int /\ a <= Len(Pipeline) /\ 1 <= p
  BY <1>0, <1>1, <1>2 DEF Step
<1>4. i <= a
  BY <1>0, <1>1, <1>2, <1>3
<1>5. i \in Step
  BY <1>0, <1>1, <1>3, <1>4 DEF Step
<1>6. Pipeline[i] \in {"approval", "apply"}
  BY <1>0, <1>1, <1>2, <1>3, <1>4, <1>5
<1>7. ASSUME Pipeline[i] = "approval"
      PROVE  PlanBefore(i + 1)
  <2>1. p < i + 1
    BY <1>0, <1>1, <1>3
  <2>2. ASSUME NEW j \in Step, p < j, j < i + 1
        PROVE  Pipeline[j] = "approval"
    <3>1. j \in Int
      BY <1>0 DEF Step
    <3>2. j < i \/ j = i
      BY <1>0, <2>2, <3>1
    <3> QED
      BY <1>1, <1>7, <2>2, <3>2
  <2> QED
    BY <1>1, <2>1, <2>2 DEF PlanBefore
<1> QED
  BY <1>1, <1>5, <1>6, <1>7 DEF HasPlan

LEMMA PlanIsMade ==
    ASSUME NEW i \in Step, Pipeline[i] = "plan"
    PROVE  PlanBefore(i + 1)
<1>1. i \in Int /\ \A j \in Step : j \in Int
  BY PipelineFacts DEF Step
<1>2. i < i + 1 /\ \A j \in Step : ~(i < j /\ j < i + 1)
  BY <1>1
<1> QED
  BY <1>2 DEF PlanBefore

-----------------------------------------------------------------------------
(* A thread waits for the execution it has queued, and for no other, until *)
(* the worker has reported it or it is given up.                           *)

JobFits(j, k) ==
    /\ j.state \in {"queued", "running"} => k.pc = "wait"
    /\ j.tool # "none" => j.state = "running"
    /\ k.pc = "wait" => j.kind = Pipeline[k.i]

JobInv == \A r \in Run, t \in Thread : r \notin givenUp => JobFits(job[r][t], proc[r][t])

LEMMA ProcAt ==
    ASSUME TypeInv, NEW r \in Run, NEW p \in Thread \cup Request, NEW k, ProcStep(r, p, k)
    PROVE  \A x \in Run, y \in Thread \cup Request :
              proc'[x][y] = IF x = r /\ y = p THEN k ELSE proc[x][y]
  BY DEF ProcStep, TypeInv

LEMMA JobAt ==
    ASSUME TypeInv, NEW r \in Run, NEW t \in Thread, NEW j, JobStep(r, t, j)
    PROVE  \A x \in Run, y \in Thread :
              job'[x][y] = IF x = r /\ y = t THEN j ELSE job[x][y]
  BY DEF JobStep, TypeInv, TypeOK

\* A step of a thread or a request that is not about an execution.
LEMMA JobKeeps ==
    ASSUME TypeInv, JobInv, NEW r \in Run, NEW p \in Thread \cup Request, NEW k,
           ProcStep(r, p, k), job' = job, givenUp \subseteq givenUp', k.pc # "wait",
           p \in Thread => \/ proc[r][p].pc # "wait" \/ r \in givenUp'
                           \/ job[r][p].state \notin {"queued", "running"}
    PROVE  JobInv'
<1>1. \A x \in Run, y \in Thread : proc'[x][y] = IF x = r /\ y = p THEN k ELSE proc[x][y]
  BY ProcAt
<1>2. ASSUME NEW x \in Run, NEW y \in Thread, x \notin givenUp'
      PROVE  JobFits(job[x][y], proc'[x][y])
  <2>1. JobFits(job[x][y], proc[x][y])
    BY <1>2 DEF JobInv
  <2> QED
    BY <1>1, <1>2, <2>1 DEF JobFits
<1> QED
  BY <1>2 DEF JobInv, JobFits

LEMMA JobStore ==
    ASSUME TypeInv, JobInv, NEW r \in Run, NEW p \in Thread \cup Request, Store(r, p)
    PROVE  JobInv'
<1> DEFINE k == proc[r][p]
           k1 == [k EXCEPT !.pc = k.next, !.buf = NewFile]
<1>1. /\ k \in Proc /\ k.pc = "store" /\ k.next # "wait"
      /\ UNCHANGED <<job, givenUp>>
  BY DEF TypeInv, ProcOK, Store, Proc
<1>2. CASE k.next # "spawn"
  <2>1. k1.pc # "wait" /\ NoProc.pc # "wait"
    BY <1>1, NoProcType DEF Proc
  <2>2. ProcStep(r, p, k1) \/ ProcStep(r, p, NoProc)
    BY <1>2 DEF Store
  <2> HIDE DEF k1
  <2> QED
    BY <1>1, <2>1, <2>2, JobKeeps
<1>3. CASE k.next = "spawn"
  <2>1. PICK t \in Thread :
            /\ FreeThread(r, t)
            /\ proc' = [proc EXCEPT ![r] = [@ EXCEPT ![p] = NoProc, ![t].pc = "begin"]]
    BY <1>3 DEF Store
  <2>2. \A x \in Run, y \in Thread :
            \/ proc'[x][y] = proc[x][y]
            \/ x = r /\ y \in {p, t} /\ proc'[x][y].pc # "wait"
    <3>1. proc[r][t] = NoProc /\ NoProc \in Proc /\ NoProc.pc = "idle"
      BY <2>1, NoProcType DEF FreeThread, ProcOK
    <3>2. t # p
      BY <1>1, <3>1
    <3>3. \A x \in Run, y \in Thread :
             proc'[x][y] = IF x # r THEN proc[x][y]
                           ELSE IF y = t THEN [NoProc EXCEPT !.pc = "begin"]
                           ELSE IF y = p THEN NoProc ELSE proc[x][y]
      BY <2>1, <3>1, <3>2 DEF TypeInv
    <3>4. [NoProc EXCEPT !.pc = "begin"].pc = "begin"
      BY <3>1 DEF Proc
    <3> QED
      BY <3>1, <3>3, <3>4
  <2>3. ASSUME NEW x \in Run, NEW y \in Thread, x \notin givenUp
        PROVE  JobFits(job[x][y], proc'[x][y])
    <3>1. JobFits(job[x][y], proc[x][y])
      BY <2>3 DEF JobInv
    <3>2. job[r][t].state \notin {"queued", "running"}
      BY <2>1 DEF FreeThread
    <3> QED
      BY <1>1, <2>2, <3>1, <3>2 DEF JobFits
  <2> QED
    BY <1>1, <2>3 DEF JobInv, JobFits
<1> QED
  BY <1>2, <1>3

LEMMA StepDoneForm ==
    ASSUME NEW k \in Proc, k.i \in Step, NEW s
    PROVE  /\ StepDone(k, s).pc = "merge"
           /\ StepDone(k, s).next = IF s = "SUCCESS" THEN "step" ELSE "idle"
           /\ s = "SUCCESS" => StepDone(k, s).i = k.i + 1
  BY DEF StepDone, Updating, Proc

LEMMA JobWait ==
    ASSUME TypeInv, JobInv, NEW r \in Run, NEW t \in Thread, _wait_for_worker_execution(r, t)
    PROVE  JobInv'
<1>1. proc[r][t] \in Proc /\ proc[r][t].i \in Step
  BY DEF TypeInv, ProcOK, Executes, _wait_for_worker_execution
<1>2. PICK s \in {"SUCCESS", "FAILED"} :
          /\ \/ job[r][t].state = s /\ UNCHANGED givenUp
             \/ givenUp' = givenUp \cup {r}
          /\ ProcStep(r, t, StepDone(proc[r][t], s))
  BY DEF _wait_for_worker_execution
<1>3. StepDone(proc[r][t], s).pc = "merge" /\ job' = job
  BY <1>1, StepDoneForm DEF _wait_for_worker_execution
<1> QED
  BY <1>2, <1>3, JobKeeps

LEMMA JobShell ==
    ASSUME TypeInv, JobInv, NEW r \in Run, NEW t \in Thread, ShellEnds(r, t)
    PROVE  JobInv'
<1>1. proc[r][t] \in Proc /\ proc[r][t].i \in Step /\ proc[r][t].pc = "shell"
  BY DEF TypeInv, ProcOK, Executes, ShellEnds
<1>2. PICK s \in {"SUCCESS", "FAILED"} : ProcStep(r, t, StepDone(proc[r][t], s))
  BY DEF ShellEnds
<1>3. StepDone(proc[r][t], s).pc = "merge" /\ UNCHANGED <<job, givenUp>>
  BY <1>1, StepDoneForm DEF ShellEnds
<1> QED
  BY <1>1, <1>2, <1>3, JobKeeps

LEMMA JobExecute ==
    ASSUME TypeInv, JobInv, NEW r \in Run, NEW t \in Thread, _execute_step(r, t)
    PROVE  JobInv'
<1> DEFINE k == [proc[r][t] EXCEPT !.pc = "wait"]
           l == [proc[r][t] EXCEPT !.pc = "shell"]
           j == [kind |-> Pipeline[proc[r][t].i], state |-> "queued", tool |-> "none"]
<1>0. CASE Pipeline[proc[r][t].i] = "shell"
  <2>1. l.pc = "shell" /\ proc[r][t].pc = "exec"
    BY DEF TypeInv, Proc, _execute_step
  <2>2. ProcStep(r, t, l) /\ job' = job /\ givenUp' = givenUp
    BY <1>0 DEF _execute_step
  <2> HIDE DEF l
  <2> QED
    BY <2>1, <2>2, JobKeeps
<1> SUFFICES ASSUME Pipeline[proc[r][t].i] # "shell"
             PROVE  JobInv'
  BY <1>0
<1>1. k.pc = "wait" /\ k.i = proc[r][t].i
  BY DEF TypeInv, Proc
<1>2. ProcStep(r, t, k) /\ JobStep(r, t, j) /\ givenUp' = givenUp
  BY DEF _execute_step, JobStep
<1>3. JobFits(j, k)
  BY <1>1 DEF JobFits
<1> HIDE DEF k, j
<1>4. \A x \in Run, y \in Thread :
         /\ proc'[x][y] = IF x = r /\ y = t THEN k ELSE proc[x][y]
         /\ job'[x][y] = IF x = r /\ y = t THEN j ELSE job[x][y]
  BY <1>2, ProcAt, JobAt
<1> QED
  BY <1>2, <1>3, <1>4 DEF JobInv, JobFits

\* The steps of the worker, and of whoever gives an execution up.
LEMMA JobTool ==
    ASSUME TypeInv, JobInv, NEW r \in Run, NEW t \in Thread,
           StartTool(r, t) \/ EndTool(r, t) \/ ReportTool(r, t) \/ GiveUp(r, t)
    PROVE  JobInv'
<1> DEFINE j == job[r][t]
<1>1. j \in Job /\ proc' = proc /\ (r \notin givenUp => JobFits(j, proc[r][t]))
  BY DEF TypeInv, TypeOK, JobInv, StartTool, EndTool, ReportTool, GiveUp
<1>2. \E i \in Job : /\ JobStep(r, t, i) /\ givenUp \subseteq givenUp'
                     /\ r \notin givenUp' => JobFits(i, proc[r][t])
  <2>1. CASE StartTool(r, t)
    <3>1. [j EXCEPT !.state = "FAILED"] \in Job
          /\ [j EXCEPT !.state = "running", !.tool = "running"] \in Job
      BY <1>1 DEF Job
    <3> QED
      BY <1>1, <2>1, <3>1 DEF StartTool, Job, JobFits
  <2>2. CASE EndTool(r, t)
    <3>1. PICK result \in {"SUCCESS", "FAILED"} : JobStep(r, t, [j EXCEPT !.tool = result])
      BY <2>2 DEF EndTool
    <3>2. [j EXCEPT !.tool = result] \in Job
      BY <1>1 DEF Job
    <3> QED
      BY <1>1, <2>2, <3>1, <3>2 DEF EndTool, Job, JobFits
  <2>3. CASE ReportTool(r, t)
    <3> DEFINE state == IF j.state = "running" THEN j.tool ELSE j.state
    <3>1. state \in {"none", "queued", "running", "SUCCESS", "FAILED"}
          /\ (r \notin givenUp => state \in {"SUCCESS", "FAILED"})
      BY <1>1, <2>3 DEF ReportTool, Job, JobFits
    <3>2. JobStep(r, t, [j EXCEPT !.tool = "none", !.state = state]) /\ givenUp' = givenUp
      BY <2>3 DEF ReportTool
    <3> HIDE DEF state
    <3>3. [j EXCEPT !.tool = "none", !.state = state] \in Job
      BY <1>1, <3>1 DEF Job
    <3> QED
      BY <1>1, <3>1, <3>2, <3>3 DEF Job, JobFits
  <2>4. CASE GiveUp(r, t)
    <3>1. [j EXCEPT !.state = "FAILED"] \in Job
      BY <1>1 DEF Job
    <3> QED
      BY <2>4, <3>1 DEF GiveUp
  <2> QED
    BY <2>1, <2>2, <2>3, <2>4
<1>3. PICK i \in Job : /\ JobStep(r, t, i) /\ givenUp \subseteq givenUp'
                       /\ r \notin givenUp' => JobFits(i, proc[r][t])
  BY <1>2
<1>4. \A x \in Run, y \in Thread : job'[x][y] = IF x = r /\ y = t THEN i ELSE job[x][y]
  BY <1>3, JobAt
<1> QED
  BY <1>1, <1>3, <1>4 DEF JobInv, JobFits

OneRequest == \A p, q \in Request : p = q

NoRestart == MaxRestarts = 0

LEMMA UpdatingForm ==
    ASSUME NEW k \in Proc, NEW u, NEW n
    PROVE  /\ Updating(k, u, n).pc = "merge" /\ Updating(k, u, n).upd = u
           /\ Updating(k, u, n).next = n /\ Updating(k, u, n).i = k.i
  BY DEF Updating, Proc

\* What Merge, Begin and NextStep leave to be done is not the waiting.
LEMMA ThreadForms ==
    ASSUME TypeInv, NEW r \in Run, NEW p \in Thread \cup Request,
           Merge(r, p) \/ Begin(r, p) \/ NextStep(r, p)
    PROVE  /\ \E k : ProcStep(r, p, k) /\ k.pc # "wait"
           /\ proc[r][p].pc # "wait"
           /\ UNCHANGED <<file, job, plan, givenUp>>
<1>0. proc[r][p] \in Proc /\ NoProc \in Proc /\ NoProc.pc = "idle" /\ file[r] \in File
  BY NoProcType DEF TypeInv, TypeOK, ProcOK
<1>1. CASE Merge(r, p)
  <2> DEFINE k == proc[r][p]
             k1 == [k EXCEPT !.pc = "store", !.upd = <<>>, !.buf = Updated(file[r], k.upd)]
             k2 == [k EXCEPT !.pc = k.next, !.upd = <<>>]
  <2>1. ProcStep(r, p, k1) \/ ProcStep(r, p, k2) \/ ProcStep(r, p, NoProc)
    BY <1>1 DEF Merge
  <2>2. k1.pc = "store" /\ k2.pc = k.next /\ k.next # "wait"
    BY <1>0 DEF Proc
  <2>3. proc[r][p].pc # "wait" /\ UNCHANGED <<file, job, plan, givenUp>>
    BY <1>1 DEF Merge
  <2> HIDE DEF k1, k2, k
  <2> QED
    BY <1>0, <2>1, <2>2, <2>3
<1>2. CASE Begin(r, p)
  <2> DEFINE f == file[r]
             l == [NoProc EXCEPT !.i = f.current, !.steps = f.steps, !.gate = f.gate,
                                 !.approved = f.approved]
             u == [status |-> "RUNNING"]
  <2>1. ProcStep(r, p, Updating(l, u, "step")) \/ ProcStep(r, p, NoProc)
    BY <1>2 DEF Begin
  <2>2. l \in Proc
    BY <1>0 DEF Proc, File, Position, Steps
  <2>3. proc[r][p].pc # "wait" /\ UNCHANGED <<file, job, plan, givenUp>>
    BY <1>2 DEF Begin
  <2> HIDE DEF l, u
  <2>4. Updating(l, u, "step").pc = "merge"
    BY <2>2, UpdatingForm
  <2> QED
    BY <1>0, <2>1, <2>3, <2>4
<1>3. CASE NextStep(r, p)
  <2>1. /\ proc[r][p].pc # "wait" /\ UNCHANGED <<file, job, plan, givenUp>>
        /\ \E k : ProcStep(r, p, k) /\ k.pc = "merge"
    <3> DEFINE k == proc[r][p]
               i == k.i
               at(s) == [k.steps EXCEPT ![i] = s]
               u1 == [status |-> "SUCCESS", steps |-> k.steps, current |-> i]
               k2 == [k EXCEPT !.steps = at("RUNNING")]
               u2 == [steps |-> at("RUNNING"), current |-> i]
               k3 == [k EXCEPT !.steps = at("SUCCESS"), !.i = i + 1, !.approved = FALSE, !.gate = 0]
               u3 == [steps |-> at("SUCCESS"), current |-> i + 1, approved |-> FALSE, gate |-> 0]
               u4 == [status |-> "WAITING_APPROVAL", steps |-> at("WAITING_APPROVAL"),
                      current |-> i, gate |-> i, approved |-> FALSE]
    <3>1. \/ ProcStep(r, p, Updating(k, u1, "idle"))
          \/ ProcStep(r, p, Updating(k2, u2, "exec"))
          \/ ProcStep(r, p, Updating(k3, u3, "step"))
          \/ ProcStep(r, p, Updating(k, u4, "idle"))
      BY <1>3 DEF NextStep
    <3>2. \A u, n : \A l \in {k, k2, k3} : Updating(l, u, n).pc = "merge"
      BY <1>0 DEF Updating, Proc
    <3>3. proc[r][p].pc # "wait" /\ UNCHANGED <<file, job, plan, givenUp>>
      BY <1>3 DEF NextStep
    <3> HIDE DEF k, k2, k3, u1, u2, u3, u4
    <3> QED
      BY <3>1, <3>2, <3>3
  <2> QED
    BY <2>1
<1> QED
  BY <1>1, <1>2, <1>3

LEMMA JobNext ==
    ASSUME TypeInv, JobInv, NoRestart, [Next]_vars
    PROVE  JobInv'
<1>0. NoProc \in Proc /\ NoProc.pc = "idle"
  BY NoProcType DEF ProcOK
<1>1. CASE UNCHANGED vars
  BY <1>1 DEF JobInv, vars
<1>2. ASSUME NEW r \in Run, trigger_pipeline_run(r)
      PROVE  JobInv'
  <2>1. PICK t \in Thread : FreeThread(r, t) /\ ProcStep(r, t, [NoProc EXCEPT !.pc = "begin"])
    BY <1>2 DEF trigger_pipeline_run
  <2>2. [NoProc EXCEPT !.pc = "begin"].pc = "begin" /\ proc[r][t].pc # "wait"
    BY <1>0, <2>1 DEF Proc, FreeThread
  <2>3. UNCHANGED <<job, givenUp>>
    BY <1>2 DEF trigger_pipeline_run
  <2> QED
    BY <2>1, <2>2, <2>3, JobKeeps
<1>3. ASSUME NEW r \in Run, delete_pipeline_run(r)
      PROVE  JobInv'
  <2>1. UNCHANGED <<proc, job, givenUp>>
    BY <1>3 DEF delete_pipeline_run
  <2> QED
    BY <2>1 DEF JobInv
<1>4. ASSUME NEW r \in Run, NEW q \in Request,
             approve_pipeline_run(r, q) \/ reject_pipeline_run(r, q) \/ RejectCleanup(r, q)
      PROVE  JobInv'
  <2>1. UNCHANGED <<job, givenUp>> /\ q \notin Thread
    BY <1>4, PipelineAssumption DEF approve_pipeline_run, reject_pipeline_run, RejectCleanup
  <2>2. \A u, n : Updating(NoProc, u, n).pc = "merge"
    BY <1>0, UpdatingForm
  <2>3. \E k : ProcStep(r, q, k) /\ k.pc # "wait"
    BY <1>0, <1>4, <2>2 DEF approve_pipeline_run, reject_pipeline_run, RejectCleanup
  <2> QED
    BY <2>1, <2>3, JobKeeps
<1>5. ASSUME NEW r \in Run, NEW p \in Thread \cup Request,
             Merge(r, p) \/ Begin(r, p) \/ NextStep(r, p)
      PROVE  JobInv'
  BY <1>5, ThreadForms, JobKeeps
<1>6. ASSUME ServerRestart
      PROVE  FALSE
  BY <1>6 DEF ServerRestart, NoRestart, TypeInv, TypeOK
<1> QED
  BY <1>1, <1>2, <1>3, <1>4, <1>5, <1>6, JobStore, JobWait, JobShell, JobExecute, JobTool
     DEF Next, RequestStep, ThreadStep

-----------------------------------------------------------------------------
(* The plan of a run is there only between its plan step and the end of    *)
(* the apply step behind it, with somebody at work who takes it away or a  *)
(* run that waits at a gate.                                               *)

\* What is stored at the end of a thread, or before another is started.
StoreKeeps(b, next) ==
    /\ next = "idle" => b.status = "WAITING_APPROVAL" /\ PlanBefore(b.current)
    /\ next = "spawn" => PlanBefore(b.current)

Writes(k, next) == k.pc \in {"merge", "store"} /\ k.next = next

\* Who works on a run with a plan still takes it away or leaves it to a gate.
Keeps(f, k) ==
    /\ k.pc = "begin" => f.status = "DELETED" \/ PlanBefore(f.current)
    /\ k.pc = "step" \/ Writes(k, "step") => PlanBefore(k.i)
    /\ k.pc \in {"exec", "wait"} \/ Writes(k, "exec") => Plans(k.i)
    /\ k.pc # "shell"
    /\ k.pc = "cleanup" \/ Writes(k, "cleanup") => HasPlan
    /\ k.pc = "merge" => f.status = "DELETED" \/ StoreKeeps(Updated(f, k.upd), k.next)
    /\ k.pc = "store" => StoreKeeps(k.buf, k.next)

\* Nobody works on the run.
Rests(f) == f.status = "DELETED" \/ (f.status = "WAITING_APPROVAL" /\ PlanBefore(f.current))

PlanKept(r, f, at) ==
    /\ (\A p \in Thread \cup Request : at[p].pc = "idle") => Rests(f)
    /\ \A p \in Thread \cup Request : at[p].pc # "idle" => Keeps(f, at[p])

PlanInv == \A r \in Run : plan = r /\ r \notin givenUp => PlanKept(r, file[r], proc[r])

\* A step of the only one who works on a run.
LEMMA PlanStep ==
    ASSUME TypeInv, SerialInv, PlanInv, OneRequest,
           NEW r \in Run, NEW p \in Thread \cup Request, NEW k, NEW g,
           ~Idle(r, p) \/ \A y \in Thread \cup Request : Idle(r, y),
           ProcStep(r, p, k), \A x \in Run : file'[x] = IF x = r THEN g ELSE file[x],
           givenUp \subseteq givenUp', plan' \in {plan, NoPlan},
           plan = r /\ plan' = r /\ r \notin givenUp' =>
               IF k.pc = "idle" THEN Rests(g) ELSE Keeps(g, k)
    PROVE  PlanInv'
<1>1. \A x \in Run, y \in Thread \cup Request :
         proc'[x][y] = IF x = r /\ y = p THEN k ELSE proc[x][y]
  BY ProcAt
<1>2. \A y \in Thread \cup Request : y # p => Idle(r, y)
  BY Alone DEF OneRequest
<1>3. ASSUME NEW x \in Run, plan' = x, x \notin givenUp'
      PROVE  PlanKept(x, file'[x], proc'[x])
  <2>1. plan = x /\ x \notin givenUp
    BY <1>3, PipelineAssumption
  <2>2. CASE x # r
    <3>1. PlanKept(x, file[x], proc[x])
      BY <2>1 DEF PlanInv
    <3> QED
      BY <1>1, <2>2, <3>1 DEF PlanKept
  <2>3. CASE x = r
    <3>1. \A y \in Thread \cup Request : y # p => proc'[r][y].pc = "idle"
      BY <1>1, <1>2 DEF Idle
    <3>2. proc'[r][p] = k /\ file'[r] = g
      BY <1>1
    <3>3. IF k.pc = "idle" THEN Rests(g) ELSE Keeps(g, k)
      BY <1>3, <2>1, <2>3
    <3> QED
      BY <2>3, <3>1, <3>2, <3>3 DEF PlanKept
  <2> QED
    BY <2>2, <2>3
<1> QED
  BY <1>3 DEF PlanInv

\* What is known of who works on a run that has a plan.
LEMMA PlanOf ==
    ASSUME PlanInv, NEW r \in Run, NEW p \in Thread \cup Request, ~Idle(r, p),
           plan = r, r \notin givenUp
    PROVE  Keeps(file[r], proc[r][p])
  BY DEF PlanInv, PlanKept, Idle

LEMMA NoProcForm ==
    /\ NoProc \in Proc /\ NoProc.pc = "idle"
    /\ [NoProc EXCEPT !.pc = "begin"].pc = "begin"
  BY NoProcType DEF ProcOK, Proc

LEMMA PlanMerge ==
    ASSUME TypeInv, SerialInv, PlanInv, OneRequest,
           NEW r \in Run, NEW p \in Thread \cup Request, Merge(r, p)
    PROVE  PlanInv'
<1> DEFINE k == proc[r][p]
           k1 == [k EXCEPT !.pc = "store", !.upd = <<>>, !.buf = Updated(file[r], k.upd)]
           k2 == [k EXCEPT !.pc = k.next, !.upd = <<>>]
<1>1. k \in Proc /\ ProcOK(p, k) /\ k.pc = "merge" /\ ~Idle(r, p)
      /\ file[r].status # "ABSENT"
  <2>1. k \in Proc /\ ProcOK(p, k) /\ k.pc = "merge" /\ ~Idle(r, p)
    BY DEF TypeInv, Merge, Idle
  <2> QED
    BY <2>1 DEF SerialInv, SerialRun
<1>2. UNCHANGED <<file, plan, givenUp>>
  BY DEF Merge
<1>3. /\ k1.pc = "store" /\ k1.buf = Updated(file[r], k.upd) /\ k1.next = k.next /\ k1.i = k.i
      /\ k2.pc = k.next /\ k2.i = k.i /\ k2.next = k.next
  <2>1. Updated(file[r], k.upd) \in File
    BY <1>1, UpdatedFile DEF ProcOK, TypeInv, TypeOK
  <2> QED
    BY <1>1, <2>1 DEF Proc
<1>4. \/ ProcStep(r, p, k1) /\ file[r].status # "DELETED"
      \/ ProcStep(r, p, k2) /\ p \in Thread /\ k.next # "idle"
      \/ ProcStep(r, p, NoProc) /\ file[r].status = "DELETED"
  BY <1>1 DEF Merge, Exists
<1>5. plan = r /\ r \notin givenUp => Keeps(file[r], k)
  BY <1>1, PlanOf
<1> HIDE DEF k1, k2, k
<1>6. Keeps(file[r], k) /\ file[r].status # "DELETED" => Keeps(file[r], k1)
  BY <1>1, <1>3 DEF Keeps, Writes
<1>7. Keeps(file[r], k) /\ p \in Thread /\ k.next # "idle" => k2.pc # "idle" /\ Keeps(file[r], k2)
  BY <1>1, <1>3 DEF Keeps, Writes, ProcOK
<1>8. file[r].status = "DELETED" => Rests(file[r])
  BY DEF Rests
<1> DEFINE g == file[r]
<1>9. \A x \in Run : file'[x] = IF x = r THEN g ELSE file[x]
  BY <1>2
<1> QED
  BY <1>1, <1>2, <1>3, <1>4, <1>5, <1>6, <1>7, <1>8, <1>9, NoProcForm, PlanStep

LEMMA PlanStore ==
    ASSUME TypeInv, SerialInv, PlanInv, OneRequest,
           NEW r \in Run, NEW p \in Thread \cup Request, Store(r, p)
    PROVE  PlanInv'
<1> DEFINE k == proc[r][p]
           k1 == [k EXCEPT !.pc = k.next, !.buf = NewFile]
           begin == [NoProc EXCEPT !.pc = "begin"]
           g == k.buf
<1>1. k \in Proc /\ k.pc = "store" /\ ~Idle(r, p)
  BY DEF TypeInv, Store, Idle
<1>2. /\ \A x \in Run : file'[x] = IF x = r THEN g ELSE file[x]
      /\ UNCHANGED <<plan, givenUp>>
  BY DEF Store, TypeInv, TypeOK
<1>3. plan = r /\ r \notin givenUp => Keeps(file[r], k)
  BY <1>1, PlanOf
<1>4. k1.pc = k.next /\ k1.i = k.i
  BY <1>1 DEF Proc
<1>5. CASE k.next # "spawn"
  <2>1. \/ ProcStep(r, p, NoProc) /\ k.next = "idle"
        \/ ProcStep(r, p, k1) /\ k.next \in {"step", "exec", "cleanup"}
    BY <1>1, <1>5 DEF Store, Proc
  <2> HIDE DEF k, k1, g
  <2>2. k.next = "idle" /\ Keeps(file[r], k) => Rests(g)
    BY <1>1 DEF Keeps, StoreKeeps, Rests, g
  <2>3. k.next \in {"step", "exec", "cleanup"} /\ Keeps(file[r], k) => Keeps(g, k1)
    BY <1>1, <1>4 DEF Keeps, Writes
  <2> QED
    BY <1>1, <1>2, <1>3, <1>4, <2>1, <2>2, <2>3, NoProcForm, PlanStep
<1>6. CASE k.next = "spawn"
  <2>1. PICK t \in Thread :
            /\ proc[r][t] = NoProc
            /\ proc' = [proc EXCEPT ![r] = [@ EXCEPT ![p] = NoProc, ![t].pc = "begin"]]
    BY <1>6 DEF Store, FreeThread
  <2>2. p # t
    BY <1>1, <2>1, NoProcForm
  <2>3. \A x \in Run, y \in Thread \cup Request :
            proc'[x][y] = IF x # r THEN proc[x][y]
                          ELSE IF y = t THEN begin ELSE IF y = p THEN NoProc ELSE proc[x][y]
    BY <2>1, <2>2 DEF TypeInv
  <2>4. \A y \in Thread \cup Request : y # p => Idle(r, y)
    BY <1>1, Alone DEF OneRequest
  <2> HIDE DEF begin
  <2>5. \A y \in Thread \cup Request : IF y = t THEN proc'[r][y] = begin ELSE proc'[r][y].pc = "idle"
    BY <2>3, <2>4, NoProcForm DEF Idle
  <2> HIDE DEF k, g
  <2>6. Keeps(file[r], k) => Keeps(g, begin)
    <3>1. begin.pc = "begin"
      BY NoProcForm DEF begin
    <3> QED
      BY <1>1, <1>6, <3>1 DEF Keeps, StoreKeeps, Writes, g
  <2>7. begin.pc # "idle"
    BY NoProcForm DEF begin
  <2>8. ASSUME NEW x \in Run, plan = x, x \notin givenUp
        PROVE  PlanKept(x, file'[x], proc'[x])
    <3>1. CASE x = r
      BY <1>2, <1>3, <2>5, <2>6, <2>7, <2>8, <3>1 DEF PlanKept
    <3>2. CASE x # r
      BY <1>2, <2>3, <2>8, <3>2 DEF PlanInv, PlanKept
    <3> QED
      BY <3>1, <3>2
  <2> QED
    BY <1>2, <2>8 DEF PlanInv
<1> QED
  BY <1>5, <1>6

\* The requests of a run.
LEMMA PlanRoutes ==
    ASSUME TypeInv, SerialInv, PlanInv, OneRequest, PlansAreApplied,
           NEW r \in Run, NEW q \in Request,
           approve_pipeline_run(r, q) \/ reject_pipeline_run(r, q) \/ RejectCleanup(r, q)
    PROVE  PlanInv'
<1> DEFINE f == file[r]
<1>0. f \in File /\ SerialRun(r)
  BY DEF TypeInv, TypeOK, SerialInv
<1>1. f.current \in Position
  BY <1>0 DEF File, Position
<1>2. /\ UNCHANGED <<file, givenUp>>
      /\ \A x \in Run : file'[x] = IF x = r THEN f ELSE file[x]
  BY DEF approve_pipeline_run, reject_pipeline_run, RejectCleanup
<1>3. ASSUME Waiting(r), Idle(r, q), plan' = plan, NEW u \in Updates, NEW n \in {"spawn", "cleanup"},
             "current" \notin DOMAIN u, ProcStep(r, q, Updating(NoProc, u, n))
      PROVE  PlanInv'
  <2> DEFINE k == Updating(NoProc, u, n)
  <2>1. \A y \in Thread \cup Request : Idle(r, y)
    BY <1>0, <1>3 DEF Waiting, SerialRun, NoThread, OneRequest
  <2>2. k.pc = "merge" /\ k.upd = u /\ k.next = n
    BY NoProcForm, UpdatingForm
  <2>3. Updated(f, u)["current"] = f.current
    BY <1>0, <1>3, UpdatedFields
  <2> HIDE DEF k, f
  <2>4. plan = r /\ r \notin givenUp => PlanBefore(f.current)
    BY <1>3, <2>1 DEF PlanInv, PlanKept, Idle, Rests, Waiting, f
  <2>5. PlanBefore(f.current) => HasPlan /\ Keeps(f, k)
    BY <1>1, <1>3, <2>2, <2>3, PlanIsUsed DEF Keeps, StoreKeeps, Writes
  <2> QED
    BY <1>2, <1>3, <2>1, <2>2, <2>4, <2>5, PlanStep DEF k
<1>4. CASE approve_pipeline_run(r, q)
  <2> DEFINE u == [status |-> "QUEUED", approved |-> TRUE]
  <2>1. u \in Updates /\ "current" \notin DOMAIN u
    BY DEF Updates, Stored
  <2>2. Waiting(r) /\ Idle(r, q) /\ plan' = plan /\ ProcStep(r, q, Updating(NoProc, u, "spawn"))
    BY <1>4 DEF approve_pipeline_run, Idle
  <2> HIDE DEF u, f
  <2> QED
    BY <1>3, <2>1, <2>2
<1>5. CASE reject_pipeline_run(r, q)
  <2> DEFINE new == IF f.gate = 0 THEN f.steps
                    ELSE SkipAfter([f.steps EXCEPT ![f.gate] = "REJECTED"], f.gate)
             u == [status |-> "REJECTED", approved |-> FALSE, steps |-> new]
  <2>1. new \in Steps
    <3>1. f.steps \in Steps /\ [f.steps EXCEPT ![f.gate] = "REJECTED"] \in Steps
      BY <1>0 DEF File, Steps, StepStatus
    <3> QED
      BY <3>1, SkipType
  <2>2. Waiting(r) /\ Idle(r, q) /\ plan' = plan /\ ProcStep(r, q, Updating(NoProc, u, "cleanup"))
    BY <1>5 DEF reject_pipeline_run, Idle
  <2> HIDE DEF new
  <2>3. u \in Updates /\ "current" \notin DOMAIN u
    BY <2>1 DEF Updates, Stored, TERMINAL
  <2> HIDE DEF u, f
  <2> QED
    BY <1>3, <2>2, <2>3
<1>6. CASE RejectCleanup(r, q)
  <2>1. proc[r][q].pc = "cleanup" /\ ~Idle(r, q) /\ ProcStep(r, q, NoProc)
        /\ plan' = _cleanup_run_tfplans
    BY <1>6 DEF RejectCleanup, Idle
  <2>2. plan = r /\ r \notin givenUp => HasPlan
    BY <2>1, PlanOf DEF Keeps
  <2>3. HasPlan => plan' = NoPlan
    BY <2>1 DEF HasPlan, _cleanup_run_tfplans
  <2>4. plan' \in {plan, NoPlan} /\ NoPlan # r
    BY <2>1, PipelineAssumption DEF _cleanup_run_tfplans
  <2> HIDE DEF f
  <2> QED
    BY <1>2, <2>1, <2>2, <2>3, <2>4, PlanStep
<1> QED
  BY <1>4, <1>5, <1>6

\* Runs that begin and runs that are deleted.
LEMMA PlanRuns ==
    ASSUME TypeInv, SerialInv, PlanInv, OneRequest, NEW r \in Run,
           trigger_pipeline_run(r) \/ delete_pipeline_run(r)
    PROVE  PlanInv'
<1>0. SerialRun(r)
  BY DEF SerialInv
<1>1. CASE trigger_pipeline_run(r)
  <2>1. PICK t \in Thread : ProcStep(r, t, [NoProc EXCEPT !.pc = "begin"])
    BY <1>1 DEF trigger_pipeline_run
  <2>2. /\ file[r].status = "ABSENT" /\ UNCHANGED <<plan, givenUp>>
        /\ \A x \in Run : file'[x] = IF x = r THEN NewFile ELSE file[x]
    BY <1>1 DEF trigger_pipeline_run, TypeInv, TypeOK
  <2>3. \A y \in Thread \cup Request : Idle(r, y)
    BY <1>0, <2>2 DEF SerialRun
  <2>4. ~(plan = r /\ r \notin givenUp)
    BY <2>2, <2>3 DEF PlanInv, PlanKept, Rests, Idle
  <2> DEFINE begin == [NoProc EXCEPT !.pc = "begin"]
             g == NewFile
  <2> HIDE DEF begin, g
  <2>5. ProcStep(r, t, begin) /\ \A x \in Run : file'[x] = IF x = r THEN g ELSE file[x]
    BY <2>1, <2>2 DEF begin, g
  <2> QED
    BY <2>2, <2>3, <2>4, <2>5, PlanStep
<1>2. CASE delete_pipeline_run(r)
  <2> DEFINE g == [NewFile EXCEPT !.status = "DELETED"]
  <2>1. g.status = "DELETED"
    BY DEF NewFile
  <2>2. /\ UNCHANGED <<proc, plan, givenUp>>
        /\ \A x \in Run : file'[x] = IF x = r THEN g ELSE file[x]
    BY <1>2 DEF delete_pipeline_run, TypeInv, TypeOK
  <2> HIDE DEF g
  <2>3. ASSUME NEW x \in Run, plan = x, x \notin givenUp
        PROVE  PlanKept(x, file'[x], proc[x])
    <3>1. PlanKept(x, file[x], proc[x])
      BY <2>3 DEF PlanInv
    <3>2. Rests(g) /\ \A k : Keeps(file[r], k) => Keeps(g, k)
      BY <2>1 DEF Rests, Keeps
    <3> QED
      BY <2>2, <3>1, <3>2 DEF PlanKept
  <2> QED
    BY <2>2, <2>3 DEF PlanInv
<1> QED
  BY <1>1, <1>2

LEMMA PlanBegin ==
    ASSUME TypeInv, SerialInv, FitsInv, PlanInv, OneRequest,
           NEW r \in Run, NEW t \in Thread, Begin(r, t)
    PROVE  PlanInv'
<1> DEFINE f == file[r]
           l == [NoProc EXCEPT !.i = f.current, !.steps = f.steps, !.gate = f.gate,
                               !.approved = f.approved]
           u == [status |-> "RUNNING"]
           k == Updating(l, u, "step")
<1>0. f \in File /\ ~Idle(r, t) /\ proc[r][t].pc = "begin"
  BY DEF TypeInv, TypeOK, Begin, Idle
<1>1. /\ UNCHANGED <<file, plan, givenUp>>
      /\ \A x \in Run : file'[x] = IF x = r THEN f ELSE file[x]
  BY DEF Begin
<1>2. l \in Proc /\ l.i = f.current
  BY <1>0, NoProcForm DEF Proc, File, Position, Steps
<1>3. \/ ProcStep(r, t, k) /\ f.status # "DELETED"
      \/ ProcStep(r, t, NoProc) /\ f.status \in TERMINAL \cup {"ABSENT", "DELETED"}
  BY DEF Begin, Exists
<1>4. f.status \in {"QUEUED", "DELETED"}
  BY <1>0 DEF FitsInv, ProcFits
<1> HIDE DEF l, u, f
<1>5. k.pc = "merge" /\ k.next = "step" /\ k.i = f.current
  BY <1>2, UpdatingForm
<1> HIDE DEF k
<1>6. plan = r /\ r \notin givenUp => f.status = "DELETED" \/ PlanBefore(f.current)
  BY <1>0, PlanOf DEF Keeps, f
<1>7. PlanBefore(f.current) => Keeps(f, k)
  BY <1>5 DEF Keeps, StoreKeeps, Writes
<1>8. f.status \in TERMINAL \cup {"ABSENT", "DELETED"} => Rests(f)
  BY <1>4 DEF TERMINAL, Rests
<1> QED
  BY <1>0, <1>1, <1>3, <1>5, <1>6, <1>7, <1>8, NoProcForm, PlanStep

\* An update that names no step left to be done.
LEMMA UpdatingKeeps ==
    ASSUME NEW l \in Proc, NEW u, NEW n \in {"idle", "step", "exec"}, NEW f,
           n = "step" => PlanBefore(l.i),
           n = "exec" => Plans(l.i),
           n = "idle" => Updated(f, u).status = "WAITING_APPROVAL" /\ PlanBefore(Updated(f, u).current)
    PROVE  Updating(l, u, n).pc # "idle" /\ Keeps(f, Updating(l, u, n))
<1> DEFINE k == Updating(l, u, n)
<1>1. k.pc = "merge" /\ k.upd = u /\ k.next = n /\ k.i = l.i
  BY UpdatingForm
<1> HIDE DEF k
<1> QED
  BY <1>1 DEF Keeps, StoreKeeps, Writes, k

LEMMA PlanNextStep ==
    ASSUME TypeInv, SerialInv, PlanInv, OneRequest, PlansAreApplied,
           NEW r \in Run, NEW t \in Thread, NextStep(r, t)
    PROVE  PlanInv'
<1> DEFINE f == file[r]
           k == proc[r][t]
           i == k.i
           at(s) == [k.steps EXCEPT ![i] = s]
           k2 == [k EXCEPT !.steps = at("RUNNING")]
           u2 == [steps |-> at("RUNNING"), current |-> i]
           k3 == [k EXCEPT !.steps = at("SUCCESS"), !.i = i + 1, !.approved = FALSE, !.gate = 0]
           u3 == [steps |-> at("SUCCESS"), current |-> i + 1, approved |-> FALSE, gate |-> 0]
           u4 == [status |-> "WAITING_APPROVAL", steps |-> at("WAITING_APPROVAL"),
                  current |-> i, gate |-> i, approved |-> FALSE]
<1>0. k \in Proc /\ f \in File /\ i \in Position /\ k.steps \in Steps
      /\ k.pc = "step" /\ ~Idle(r, t)
  <2>1. k \in Proc /\ f \in File /\ k.pc = "step"
    BY DEF TypeInv, TypeOK, NextStep
  <2> QED
    BY <2>1 DEF Proc, Idle
<1>1. /\ UNCHANGED <<file, plan, givenUp>>
      /\ \A x \in Run : file'[x] = IF x = r THEN f ELSE file[x]
  BY DEF NextStep
<1>2. CASE ~(plan = r /\ r \notin givenUp)
  <2>1. PICK n : ProcStep(r, t, n)
    BY ThreadForms
  <2> HIDE DEF f, k
  <2> QED
    BY <1>0, <1>1, <1>2, <2>1, PlanStep
<1>3. ASSUME plan = r, r \notin givenUp
      PROVE  PlanInv'
  <2>1. PlanBefore(i)
    BY <1>0, <1>3, PlanOf DEF Keeps
  <2>2. i \in Step /\ Pipeline[i] \in {"approval", "apply"}
        /\ (Pipeline[i] = "approval" => PlanBefore(i + 1))
    BY <1>0, <2>1, PlanIsUsed
  <2>3. ASSUME NEW l \in Proc, NEW u, NEW n \in {"idle", "step", "exec"},
               ProcStep(r, t, Updating(l, u, n)),
               n = "step" => PlanBefore(l.i),
               n = "exec" => Plans(l.i),
               n = "idle" => Updated(f, u).status = "WAITING_APPROVAL"
                                /\ PlanBefore(Updated(f, u).current)
        PROVE  PlanInv'
    <3> DEFINE m == Updating(l, u, n)
    <3>1. m.pc # "idle" /\ Keeps(f, m) /\ ProcStep(r, t, m)
      BY <2>3, UpdatingKeeps
    <3> HIDE DEF m, f
    <3> QED
      BY <1>0, <1>1, <3>1, PlanStep
  <2>4. CASE Pipeline[i] = "apply"
    <3>1. ProcStep(r, t, Updating(k2, u2, "exec"))
      BY <2>2, <2>4, PipelineFacts DEF NextStep, Step
    <3>2. at("RUNNING") \in Steps
      BY <1>0, <2>2, StepsType DEF StepStatus
    <3>3. k2 \in Proc /\ k2.i = i
      BY <1>0, <3>2 DEF Proc
    <3>4. Plans(i)
      BY <2>2, <2>4 DEF Plans
    <3> HIDE DEF k2, u2, k, f
    <3> QED
      BY <2>3, <3>1, <3>3, <3>4
  <2>5. CASE Pipeline[i] = "approval" /\ Passes(k)
    <3>1. ProcStep(r, t, Updating(k3, u3, "step"))
      BY <2>2, <2>5, PipelineFacts DEF NextStep, Step
    <3>2. at("SUCCESS") \in Steps /\ i + 1 \in Position
      BY <1>0, <2>2, StepsType, NextPosition DEF StepStatus
    <3>3. k3 \in Proc /\ k3.i = i + 1
      BY <1>0, <3>2 DEF Proc
    <3>4. PlanBefore(i + 1)
      BY <2>2, <2>5
    <3> HIDE DEF k3, u3, k, f
    <3> QED
      BY <2>3, <3>1, <3>3, <3>4
  <2>6. CASE Pipeline[i] = "approval" /\ ~Passes(k)
    <3>1. ProcStep(r, t, Updating(k, u4, "idle"))
      BY <2>2, <2>6, PipelineFacts DEF NextStep, Step
    <3>2. at("WAITING_APPROVAL") \in Steps /\ i \in Gate
      BY <1>0, <2>2, <2>6, StepsType DEF StepStatus, Gate
    <3>3. u4 \in Updates
      BY <1>0, <3>2 DEF Updates, Stored
    <3>4. Updated(f, u4)["status"] = "WAITING_APPROVAL" /\ Updated(f, u4)["current"] = i
      BY <1>0, <3>3, UpdatedFields
    <3> HIDE DEF u4, f
    <3> QED
      BY <1>0, <2>1, <2>3, <3>1, <3>4
  <2> QED
    BY <2>2, <2>4, <2>5, <2>6
<1> QED
  BY <1>2, <1>3

LEMMA PlanExecute ==
    ASSUME TypeInv, SerialInv, PlanInv, OneRequest,
           NEW r \in Run, NEW t \in Thread, _execute_step(r, t)
    PROVE  PlanInv'
<1> DEFINE f == file[r]
           k == proc[r][t]
           k1 == [k EXCEPT !.pc = IF Pipeline[k.i] = "shell" THEN "shell" ELSE "wait"]
<1>0. k \in Proc /\ k.pc = "exec" /\ ~Idle(r, t)
  BY DEF TypeInv, _execute_step, Idle
<1>1. /\ UNCHANGED <<file, givenUp>> /\ plan' \in {plan, NoPlan} /\ ProcStep(r, t, k1)
      /\ \A x \in Run : file'[x] = IF x = r THEN f ELSE file[x]
  BY DEF _execute_step
<1>2. k1.i = k.i /\ (Plans(k.i) => k1.pc = "wait")
  BY <1>0 DEF Proc, Plans
<1>3. plan = r /\ r \notin givenUp => Plans(k.i)
  BY <1>0, PlanOf DEF Keeps
<1> HIDE DEF k, k1, f
<1>4. Plans(k.i) => Keeps(f, k1)
  BY <1>2 DEF Keeps, Writes
<1> QED
  BY <1>0, <1>1, <1>2, <1>3, <1>4, PlanStep

\* The end of a plan or an apply step: the plan goes, or the plan step has made
\* it and the steps behind take it up.
LEMMA PlanWait ==
    ASSUME TypeInv, SerialInv, JobInv, PlanInv, OneRequest,
           NEW r \in Run, NEW t \in Thread, _wait_for_worker_execution(r, t)
    PROVE  PlanInv'
<1> DEFINE f == file[r]
           k == proc[r][t]
           j == job[r][t]
<1>0. k \in Proc /\ k.i \in Step /\ k.pc = "wait" /\ ~Idle(r, t)
  BY DEF TypeInv, ProcOK, Executes, _wait_for_worker_execution, Idle
<1>1. /\ UNCHANGED file
      /\ \A x \in Run : file'[x] = IF x = r THEN f ELSE file[x]
  BY DEF _wait_for_worker_execution
<1>2. PICK s \in {"SUCCESS", "FAILED"} :
          /\ plan' = PlanAfter(j.kind, s)
          /\ ProcStep(r, t, StepDone(k, s))
          /\ givenUp' \in {givenUp, givenUp \cup {r}}
  BY DEF _wait_for_worker_execution
<1>3. plan = r /\ r \notin givenUp => Plans(k.i) /\ j.kind = Pipeline[k.i]
  BY <1>0, PlanOf DEF Keeps, JobInv, JobFits
<1>4. plan' \in {plan, NoPlan} /\ NoPlan # r
  BY <1>2, PipelineAssumption DEF PlanAfter
<1>5. ASSUME plan = r, plan' = r, r \notin givenUp
      PROVE  StepDone(k, s).pc # "idle" /\ Keeps(f, StepDone(k, s))
  <2>1. s = "SUCCESS" /\ Pipeline[k.i] = "plan"
    BY <1>2, <1>3, <1>4, <1>5 DEF PlanAfter, Plans
  <2>2. PlanBefore(k.i + 1)
    BY <1>0, <2>1, PlanIsMade
  <2> DEFINE d == StepDone(k, s)
  <2>3. d.pc = "merge" /\ d.next = "step" /\ d.i = k.i + 1
    BY <1>0, <2>1, StepDoneForm
  <2> HIDE DEF d, f, k
  <2>4. d.pc # "idle" /\ Keeps(f, d)
    BY <2>2, <2>3 DEF Keeps, StoreKeeps, Writes
  <2> QED
    BY <2>4 DEF d
<1> DEFINE d == StepDone(k, s)
<1>6. ProcStep(r, t, d) /\ (plan = r /\ plan' = r /\ r \notin givenUp
                               => d.pc # "idle" /\ Keeps(f, d))
  BY <1>2, <1>5
<1> HIDE DEF d, k, f
<1>7. givenUp \subseteq givenUp'
  BY <1>2
<1> QED
  BY <1>0, <1>1, <1>4, <1>6, <1>7, PlanStep

\* No command runs while there is a plan.
LEMMA PlanShell ==
    ASSUME TypeInv, SerialInv, PlanInv, OneRequest, NEW r \in Run, NEW t \in Thread, ShellEnds(r, t)
    PROVE  PlanInv'
<1> DEFINE f == file[r]
           d == StepDone(proc[r][t], CHOOSE s : ProcStep(r, t, StepDone(proc[r][t], s)))
<1>1. proc[r][t].pc = "shell" /\ ~Idle(r, t)
  BY DEF ShellEnds, Idle
<1>2. ProcStep(r, t, d)
  BY DEF ShellEnds
<1>3. /\ UNCHANGED <<plan, givenUp>>
      /\ \A x \in Run : file'[x] = IF x = r THEN f ELSE file[x]
  BY DEF ShellEnds
<1>4. ~(plan = r /\ r \notin givenUp)
  BY <1>1, PlanOf DEF Keeps
<1> HIDE DEF d, f
<1> QED
  BY <1>1, <1>2, <1>3, <1>4, PlanStep

\* A tool writes the plan while the thread waits for it.
LEMMA PlanTool ==
    ASSUME TypeInv, SerialInv, JobInv, PlanInv, OneRequest, NEW r \in Run, NEW t \in Thread,
           StartTool(r, t) \/ EndTool(r, t) \/ ReportTool(r, t) \/ GiveUp(r, t)
    PROVE  PlanInv'
<1>1. /\ UNCHANGED <<file, proc>> /\ givenUp \subseteq givenUp'
      /\ plan' = plan \/ (plan' = r /\ EndTool(r, t) /\ job[r][t].kind = "plan")
  BY DEF StartTool, EndTool, ReportTool, GiveUp
<1>2. CASE plan' = plan
  BY <1>1, <1>2 DEF PlanInv
<1>3. CASE plan' = r /\ EndTool(r, t) /\ job[r][t].kind = "plan"
  <2>1. SUFFICES ASSUME r \notin givenUp
                 PROVE  PlanKept(r, file[r], proc[r])
    BY <1>1, <1>3 DEF PlanInv, PlanKept
  <2>2. proc[r][t].pc = "wait" /\ Pipeline[proc[r][t].i] = "plan"
    BY <1>3, <2>1 DEF JobInv, JobFits, EndTool
  <2>3. proc[r][t].i \in Step
    BY <2>2 DEF TypeInv, ProcOK, Executes
  <2>4. ~Idle(r, t) /\ Keeps(file[r], proc[r][t])
    BY <2>2, <2>3 DEF Idle, Keeps, Plans, Writes
  <2>5. \A y \in Thread \cup Request : y # t => Idle(r, y)
    BY <2>4, Alone DEF OneRequest
  <2> QED
    BY <2>4, <2>5 DEF PlanKept, Idle
<1> QED
  BY <1>1, <1>2, <1>3

LEMMA PlanNext ==
    ASSUME TypeInv, SerialInv, FitsInv, JobInv, PlanInv, OneRequest, NoRestart, PlansAreApplied,
           [Next]_vars
    PROVE  PlanInv'
<1>1. CASE UNCHANGED vars
  BY <1>1 DEF PlanInv, vars
<1>2. ASSUME ServerRestart
      PROVE  FALSE
  BY <1>2 DEF ServerRestart, NoRestart, TypeInv, TypeOK
<1> QED
  BY <1>1, <1>2, PlanMerge, PlanStore, PlanRoutes, PlanRuns, PlanBegin, PlanNextStep,
     PlanExecute, PlanWait, PlanShell, PlanTool
     DEF Next, RequestStep, ThreadStep

\* When a run has ended in SUCCESS, FAILED or REJECTED, its saved plan is gone:
\* every way through the pipeline from a plan step ends with the apply step that
\* removes it, a failure that does, a reject that does, or a gate where the run
\* waits (_execute_tofu_step and _cleanup_run_tfplans), however many runs share
\* the stack.  A run deleted at its gate leaves its plan: it has no ending.
THEOREM PlanIsEphemeralHolds ==
    ASSUME OneRequest, NoRestart, PlansAreApplied
    PROVE  Spec => []PlanIsEphemeral
<1>1. Init => TypeInv /\ SerialInv /\ FitsInv /\ JobInv /\ PlanInv
  <2> SUFFICES ASSUME Init
               PROVE  FitsInv /\ JobInv /\ PlanInv
    BY TypeInit, SerialInit
  <2>1. FitsInv
    BY NewFits DEF Init, FitsInv
  <2>2. JobInv
    BY NoProcForm DEF Init, JobInv, JobFits, NoJob
  <2>3. PlanInv
    BY PipelineAssumption DEF Init, PlanInv
  <2> QED
    BY <2>1, <2>2, <2>3
<1>2. TypeInv /\ SerialInv /\ FitsInv /\ JobInv /\ PlanInv /\ [Next]_vars
      => (TypeInv /\ SerialInv /\ FitsInv /\ JobInv /\ PlanInv)'
  BY TypeNext, SerialNext, FitsNext, JobNext, PlanNext DEF OneRequest
<1>3. PlanInv => PlanIsEphemeral
  BY DEF PlanInv, PlanKept, Rests, PlanIsEphemeral, TERMINAL
<1> QED
  BY <1>1, <1>2, <1>3, PTL DEF Spec

=============================================================================
