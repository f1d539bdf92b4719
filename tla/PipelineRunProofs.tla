-------------------------- MODULE PipelineRunProofs --------------------------
(***************************************************************************)
(* Theorems about PipelineRun for any number of runs, threads and restarts *)
(* and any pipeline: type correctness; that no step behind a pipeline's    *)
(* one gate runs without an approval, however many requests there are; and *)
(* that one request at a time leaves one thread at a time, a run whose     *)
(* status fits its steps, no step after a rejection, and every gate of a   *)
(* pipeline with several of them closed until it is granted.               *)
(***************************************************************************)
EXTENDS PipelineRun, FiniteSetTheorems, TLAPS

-----------------------------------------------------------------------------
(* Type correctness, strengthened by what a thread or request remembers.   *)

Stored == {"QUEUED", "RUNNING", "WAITING_APPROVAL"} \cup TERMINAL
Steps == [Step -> StepStatus]
Position == 1 .. Len(Pipeline) + 1

\* The updates the engine passes to update_pipeline_run.
Updates ==
    [status : Stored]
    \cup [status : Stored, approved : BOOLEAN]
    \cup [status : Stored, approved : BOOLEAN, steps : Steps]
    \cup [steps : Steps, current : Position]
    \cup [steps : Steps, current : Position, approved : BOOLEAN, gate : Gate \cup {0}]
    \cup [status : Stored, steps : Steps, current : Position]
    \cup [status : Stored, steps : Steps, current : Position, gate : Gate \cup {0},
          approved : BOOLEAN]

Proc == [pc : {"idle", "begin", "step", "exec", "wait", "shell", "merge", "store", "cleanup"},
         i : Position,
         steps : Steps,
         gate : Gate \cup {0},
         approved : BOOLEAN,
         upd : Updates \cup {<<>>},
         buf : File,
         next : {"idle", "step", "exec", "spawn", "cleanup"}]

\* What is executed, or is to be executed next, is a step and no gate.
Executes(k) ==
    k.pc \in {"exec", "wait", "shell"} \/ (k.pc \in {"merge", "store"} /\ k.next = "exec")

ProcOK(p, k) ==
    /\ k \in Proc
    /\ p \in Thread => k.next \in {"idle", "step", "exec"} /\ k.pc # "cleanup"
    /\ p \in Request =>
          /\ k.pc \in {"idle", "merge", "store", "cleanup"}
          /\ k.pc \in {"merge", "store"} => k.next \in {"spawn", "cleanup"}
    /\ k.pc = "merge" => k.upd \in Updates
    /\ Executes(k) => k.i \in Step \ Gate

TypeInv ==
    /\ TypeOK
    /\ proc \in [Run -> [Thread \cup Request -> Proc]]
    /\ \A r \in Run, p \in Thread \cup Request : ProcOK(p, proc[r][p])

LEMMA PipelineFacts ==
    /\ Len(Pipeline) \in Nat
    /\ \A i \in Step : Pipeline[i] \in {"plan", "approval", "apply", "task", "shell"}
    /\ \A i \in Step \ Gate : Pipeline[i] \in {"plan", "apply", "task", "shell"}
    /\ Gate \subseteq Step
  BY PipelineAssumption DEF Step, Gate

LEMMA NewFileType == NewFile \in File /\ NewFile.steps \in Steps
  BY PipelineFacts DEF NewFile, File, Steps, StepStatus, TERMINAL, Step

LEMMA NoProcType == NoProc.pc = "idle" /\ \A p : ProcOK(p, NoProc)
  BY PipelineFacts, NewFileType
     DEF NoProc, ProcOK, Proc, Executes, Position

\* An updated file is a file.
LEMMA UpdatedFile ==
    ASSUME NEW u \in Updates, NEW f \in File
    PROVE  /\ Updated(f, u) \in File
           /\ \A x \in DOMAIN u : x \in DOMAIN f /\ Updated(f, u)[x] = u[x]
           /\ \A x \in DOMAIN f \ DOMAIN u : Updated(f, u)[x] = f[x]
<1> DEFINE g == Updated(f, u)
<1>1. /\ DOMAIN f = {"status", "steps", "current", "gate", "approved"}
      /\ f.status \in Stored \cup {"ABSENT", "DELETED"}
      /\ f.steps \in Steps /\ f.current \in Position
      /\ f.gate \in Gate \cup {0} /\ f.approved \in BOOLEAN
  BY DEF File, Stored, Steps, Position
<1>2. /\ DOMAIN u \subseteq DOMAIN f
      /\ "status" \in DOMAIN u => u.status \in Stored
      /\ "steps" \in DOMAIN u => u.steps \in Steps
      /\ "current" \in DOMAIN u => u.current \in Position
      /\ "gate" \in DOMAIN u => u.gate \in Gate \cup {0}
      /\ "approved" \in DOMAIN u => u.approved \in BOOLEAN
  BY <1>1 DEF Updates
<1>3. /\ g = [x \in DOMAIN f |-> g[x]]
      /\ \A x \in DOMAIN f : g[x] = IF x \in DOMAIN u THEN u[x] ELSE f[x]
  BY DEF Updated
<1> HIDE DEF g
<1>4. /\ g["status"] \in Stored \cup {"ABSENT", "DELETED"}
      /\ g["steps"] \in Steps /\ g["current"] \in Position
      /\ g["gate"] \in Gate \cup {0} /\ g["approved"] \in BOOLEAN
  BY <1>1, <1>2, <1>3
<1>5. g \in File
  BY <1>1, <1>3, <1>4 DEF File, Stored, Steps, Position
<1> QED
  BY <1>2, <1>3, <1>5 DEF g

\* A step of one thread or request changes what this one remembers only.
LEMMA ProcChange ==
    ASSUME TypeInv, NEW r \in Run, NEW p \in Thread \cup Request, NEW k, ProcOK(p, k),
           ProcStep(r, p, k)
    PROVE  /\ proc' \in [Run -> [Thread \cup Request -> Proc]]
           /\ \A x \in Run, y \in Thread \cup Request :
                 /\ proc'[x][y] = IF x = r /\ y = p THEN k ELSE proc[x][y]
                 /\ ProcOK(y, proc'[x][y])
<1>1. k \in Proc
  BY DEF ProcOK
<1>2. /\ proc' \in [Run -> [Thread \cup Request -> Proc]]
      /\ \A x \in Run, y \in Thread \cup Request :
            proc'[x][y] = IF x = r /\ y = p THEN k ELSE proc[x][y]
  BY <1>1 DEF ProcStep, TypeInv
<1> QED
  BY <1>2 DEF TypeInv

\* What remains to be shown of such a step.
LEMMA TypeStep ==
    ASSUME TypeInv, NEW r \in Run, NEW p \in Thread \cup Request, NEW k, ProcOK(p, k),
           ProcStep(r, p, k),
           file' \in [Run -> File], job' \in [Run -> [Thread -> Job]],
           plan' \in Run \cup {NoPlan}, granted' \in [Run -> SUBSET Gate],
           rejected' \subseteq Run, givenUp' \subseteq Run, restarts' \in 0 .. MaxRestarts
    PROVE  TypeInv'
<1>1. /\ proc' \in [Run -> [Thread \cup Request -> Proc]]
      /\ \A x \in Run, y \in Thread \cup Request : ProcOK(y, proc'[x][y])
  BY ProcChange
<1>2. \A x \in Run, y \in Thread \cup Request : proc'[x][y] \in Proc
  BY <1>1
<1>3. \A x \in Run, y \in Thread \cup Request :
        /\ proc'[x][y].pc \in
              {"idle", "begin", "step", "exec", "wait", "shell", "merge", "store", "cleanup"}
        /\ proc'[x][y].i \in 1 .. Len(Pipeline) + 1
        /\ proc'[x][y].buf \in File
  BY <1>2 DEF Proc, Position
<1> QED
  BY <1>1, <1>3 DEF TypeInv, TypeOK

LEMMA UpdatingType ==
    ASSUME NEW p \in Thread \cup Request, NEW k \in Proc, NEW u \in Updates, NEW n,
           IF p \in Thread THEN n \in {"idle", "step", "exec"} ELSE n \in {"spawn", "cleanup"},
           n = "exec" => k.i \in Step \ Gate
    PROVE  /\ ProcOK(p, Updating(k, u, n))
           /\ Updating(k, u, n).pc = "merge"
           /\ Updating(k, u, n).upd = u
           /\ Updating(k, u, n).next = n
           /\ Updating(k, u, n).i = k.i
           /\ Updating(k, u, n).gate = k.gate
           /\ Updating(k, u, n).approved = k.approved
           /\ Updating(k, u, n).buf = k.buf
  BY PipelineAssumption DEF Updating, ProcOK, Proc, Executes

LEMMA TypeInit == Init => TypeInv
<1> SUFFICES ASSUME Init
             PROVE  TypeInv
  OBVIOUS
<1>1. [NewFile EXCEPT !.status = "ABSENT"] \in File
  BY NewFileType DEF File
<1>2. NoJob \in Job
  BY DEF NoJob, Job
<1>3. NoProc \in Proc
  BY NoProcType DEF ProcOK
<1>4. TypeOK
  BY <1>1, <1>2, <1>3, PipelineAssumption DEF Init, TypeOK, Proc, Position
<1> QED
  BY <1>3, <1>4, NoProcType DEF Init, TypeInv

LEMMA TypeMerge ==
    ASSUME TypeInv, NEW r \in Run, NEW p \in Thread \cup Request, Merge(r, p)
    PROVE  TypeInv'
<1> DEFINE k == proc[r][p]
           k1 == [k EXCEPT !.pc = "store", !.upd = <<>>, !.buf = Updated(file[r], k.upd)]
           k2 == [k EXCEPT !.pc = k.next, !.upd = <<>>]
<1>1. k \in Proc /\ k.upd \in Updates /\ k.pc = "merge" /\ ProcOK(p, k) /\ file[r] \in File
  BY DEF TypeInv, TypeOK, ProcOK, Merge
<1>2. Updated(file[r], k.upd) \in File
  BY <1>1, UpdatedFile
<1>3. ProcOK(p, k1)
  BY <1>1, <1>2 DEF ProcOK, Proc, Executes
<1>4. p \in Thread => ProcOK(p, k2)
  BY <1>1, PipelineAssumption DEF ProcOK, Proc, Executes
<1>5. ProcStep(r, p, k1) \/ (p \in Thread /\ ProcStep(r, p, k2)) \/ ProcStep(r, p, NoProc)
  BY DEF Merge
<1>6. UNCHANGED <<file, job, plan, granted, rejected, givenUp, restarts>>
  BY DEF Merge
<1> HIDE DEF k, k1, k2
<1> QED
  BY <1>3, <1>4, <1>5, <1>6, NoProcType, TypeStep DEF TypeInv, TypeOK

\* Starting a thread, from a request that is over or from a trigger.
LEMMA SpawnType ==
    ASSUME NEW t \in Thread, NEW k \in Proc, k = NoProc
    PROVE  ProcOK(t, [k EXCEPT !.pc = "begin"])
  BY PipelineAssumption DEF NoProc, ProcOK, Proc, Executes

LEMMA TypeStore ==
    ASSUME TypeInv, NEW r \in Run, NEW p \in Thread \cup Request, Store(r, p)
    PROVE  TypeInv'
<1> DEFINE k == proc[r][p]
           k1 == [k EXCEPT !.pc = k.next, !.buf = NewFile]
<1>1. k \in Proc /\ k.pc = "store" /\ ProcOK(p, k) /\ k.buf \in File
  BY DEF TypeInv, TypeOK, Store
<1>2. /\ file' \in [Run -> File]
      /\ rejected' \subseteq Run
      /\ UNCHANGED <<job, plan, granted, givenUp, restarts>>
  BY <1>1 DEF TypeInv, TypeOK, Store
<1>3. k.next # "spawn" => ProcOK(p, k1)
  BY <1>1, NewFileType, PipelineAssumption DEF ProcOK, Proc, Executes
<1>4. CASE k.next # "spawn"
  <2>1. ProcStep(r, p, k1) \/ ProcStep(r, p, NoProc)
    BY <1>4 DEF Store
  <2> HIDE DEF k, k1
  <2> QED
    BY <1>2, <1>3, <1>4, <2>1, NoProcType, TypeStep DEF TypeInv, TypeOK
<1>5. CASE k.next = "spawn"
  <2>1. PICK t \in Thread :
            /\ proc[r][t] = NoProc
            /\ proc' = [proc EXCEPT ![r] = [@ EXCEPT ![p] = NoProc, ![t].pc = "begin"]]
    BY <1>5 DEF Store, FreeThread
  <2>2. p # t
    BY <1>1, <2>1, NoProcType
  <2> DEFINE new == [NoProc EXCEPT !.pc = "begin"]
  <2>3. ProcOK(t, new) /\ new \in Proc
    BY SpawnType, NoProcType DEF ProcOK
  <2>4. /\ proc' \in [Run -> [Thread \cup Request -> Proc]]
        /\ \A x \in Run, y \in Thread \cup Request :
              proc'[x][y] = IF x # r THEN proc[x][y]
                            ELSE IF y = t THEN new ELSE IF y = p THEN NoProc ELSE proc[x][y]
    <3>1. NoProc \in Proc
      BY NoProcType DEF ProcOK
    <3> QED
      BY <2>1, <2>2, <2>3, <3>1 DEF TypeInv
  <2> HIDE DEF new
  <2>5. \A x \in Run, y \in Thread \cup Request : ProcOK(y, proc'[x][y])
    BY <2>3, <2>4, NoProcType DEF TypeInv
  <2>6. \A x \in Run, y \in Thread \cup Request : proc'[x][y] \in Proc
    BY <2>4
  <2>7. \A x \in Run, y \in Thread \cup Request :
          /\ proc'[x][y].pc \in
              {"idle", "begin", "step", "exec", "wait", "shell", "merge", "store", "cleanup"}
          /\ proc'[x][y].i \in 1 .. Len(Pipeline) + 1
          /\ proc'[x][y].buf \in File
    BY <2>6 DEF Proc, Position
  <2> QED
    BY <1>2, <2>4, <2>5, <2>7 DEF TypeInv, TypeOK
<1> QED
  BY <1>4, <1>5

LEMMA SkipType ==
    ASSUME NEW steps \in Steps, NEW i
    PROVE  SkipAfter(steps, i) \in Steps
  BY DEF SkipAfter, Steps, StepStatus

LEMMA TypeRoutes ==
    ASSUME TypeInv, NEW r \in Run,
           \/ trigger_pipeline_run(r) \/ delete_pipeline_run(r)
           \/ \E q \in Request : approve_pipeline_run(r, q) \/ reject_pipeline_run(r, q)
                                     \/ RejectCleanup(r, q)
    PROVE  TypeInv'
<1>0. NoProc \in Proc /\ file[r] \in File
  BY NoProcType DEF ProcOK, TypeInv, TypeOK
<1>1. CASE trigger_pipeline_run(r)
  <2>1. PICK t \in Thread : ProcStep(r, t, [NoProc EXCEPT !.pc = "begin"])
    BY <1>1 DEF trigger_pipeline_run
  <2>2. ProcOK(t, [NoProc EXCEPT !.pc = "begin"])
    BY <1>0, SpawnType
  <2> DEFINE new == [NoProc EXCEPT !.pc = "begin"]
  <2>3. /\ file' \in [Run -> File]
        /\ UNCHANGED <<job, plan, granted, rejected, givenUp, restarts>>
    BY <1>1, NewFileType DEF trigger_pipeline_run, TypeInv, TypeOK
  <2> HIDE DEF new
  <2> QED
    BY <2>1, <2>2, <2>3, TypeStep DEF new, TypeInv, TypeOK
<1>2. CASE delete_pipeline_run(r)
  <2>1. [NewFile EXCEPT !.status = "DELETED"] \in File
    BY NewFileType DEF File
  <2> QED
    BY <1>2, <2>1 DEF delete_pipeline_run, TypeInv, TypeOK
<1>3. ASSUME NEW q \in Request, approve_pipeline_run(r, q)
      PROVE  TypeInv'
  <2> DEFINE u == [status |-> "QUEUED", approved |-> TRUE]
             k == Updating(NoProc, u, "spawn")
  <2>1. u \in Updates
    BY DEF Updates, Stored
  <2>2. ProcStep(r, q, k)
    BY <1>3 DEF approve_pipeline_run
  <2>3. /\ granted' \in [Run -> SUBSET Gate]
        /\ UNCHANGED <<file, job, plan, rejected, givenUp, restarts>>
    BY <1>0, <1>3 DEF approve_pipeline_run, TypeInv, TypeOK, File
  <2> HIDE DEF u
  <2>4. ProcOK(q, k)
    BY <1>0, <2>1, UpdatingType, PipelineAssumption
  <2> HIDE DEF k
  <2> QED
    BY <2>2, <2>3, <2>4, TypeStep DEF TypeInv, TypeOK
<1>4. ASSUME NEW q \in Request, reject_pipeline_run(r, q)
      PROVE  TypeInv'
  <2> DEFINE g == file[r].gate
             steps == file[r].steps
             new == IF g = 0 THEN steps ELSE SkipAfter([steps EXCEPT ![g] = "REJECTED"], g)
             u == [status |-> "REJECTED", approved |-> FALSE, steps |-> new]
             k == Updating(NoProc, u, "cleanup")
  <2>1. steps \in Steps /\ [steps EXCEPT ![g] = "REJECTED"] \in Steps
    BY <1>0 DEF File, Steps, StepStatus
  <2>2. new \in Steps
    BY <2>1, SkipType
  <2>3. ProcStep(r, q, k)
    BY <1>4 DEF reject_pipeline_run
  <2> HIDE DEF new
  <2>4. u \in Updates
    BY <2>2 DEF Updates, Stored, TERMINAL
  <2> HIDE DEF u
  <2>5. ProcOK(q, k)
    BY <1>0, <2>4, UpdatingType, PipelineAssumption
  <2>6. UNCHANGED <<file, job, plan, granted, rejected, givenUp, restarts>>
    BY <1>4 DEF reject_pipeline_run
  <2> HIDE DEF k
  <2> QED
    BY <2>3, <2>5, <2>6, TypeStep DEF TypeInv, TypeOK
<1>5. ASSUME NEW q \in Request, RejectCleanup(r, q)
      PROVE  TypeInv'
  <2>1. ProcStep(r, q, NoProc) /\ plan' \in {plan, NoPlan}
    BY <1>5 DEF RejectCleanup, _cleanup_run_tfplans
  <2>2. UNCHANGED <<file, job, granted, rejected, givenUp, restarts>>
    BY <1>5 DEF RejectCleanup
  <2> QED
    BY <2>1, <2>2, NoProcType, TypeStep DEF TypeInv, TypeOK
<1> QED
  BY <1>1, <1>2, <1>3, <1>4, <1>5

LEMMA TypeBegin ==
    ASSUME TypeInv, NEW r \in Run, NEW t \in Thread, Begin(r, t)
    PROVE  TypeInv'
<1> DEFINE f == file[r]
           k == [NoProc EXCEPT !.i = f.current, !.steps = f.steps, !.gate = f.gate,
                               !.approved = f.approved]
           u == [status |-> "RUNNING"]
<1>1. f \in File /\ NoProc \in Proc
  BY NoProcType DEF TypeInv, TypeOK, ProcOK
<1>2. k \in Proc
  BY <1>1 DEF Proc, File, Position, Steps
<1>3. u \in Updates
  BY DEF Updates, Stored
<1>4. ProcStep(r, t, Updating(k, u, "step")) \/ ProcStep(r, t, NoProc)
  BY DEF Begin
<1>5. UNCHANGED <<file, job, plan, granted, rejected, givenUp, restarts>>
  BY DEF Begin
<1> HIDE DEF k, u
<1>6. ProcOK(t, Updating(k, u, "step"))
  BY <1>2, <1>3, UpdatingType
<1> QED
  BY <1>4, <1>5, <1>6, NoProcType, TypeStep DEF TypeInv, TypeOK

\* What a thread remembers of a step it has given a status.
LEMMA StepsType ==
    ASSUME NEW steps \in Steps, NEW i \in Step, NEW s \in StepStatus
    PROVE  [steps EXCEPT ![i] = s] \in Steps
  BY DEF Steps

LEMMA NextPosition ==
    ASSUME NEW i \in Step
    PROVE  i \in Position /\ i + 1 \in Position
  BY PipelineFacts DEF Step, Position

LEMMA TypeNextStep ==
    ASSUME TypeInv, NEW r \in Run, NEW t \in Thread, NextStep(r, t)
    PROVE  TypeInv'
<1> DEFINE k == proc[r][t]
           i == k.i
           at(s) == [k.steps EXCEPT ![i] = s]
           u1 == [status |-> "SUCCESS", steps |-> k.steps, current |-> i]
           k2 == [k EXCEPT !.steps = at("RUNNING")]
           u2 == [steps |-> at("RUNNING"), current |-> i]
           k3 == [k EXCEPT !.steps = at("SUCCESS"), !.i = i + 1, !.approved = FALSE, !.gate = 0]
           u3 == [steps |-> at("SUCCESS"), current |-> i + 1, approved |-> FALSE, gate |-> 0]
           u4 == [status |-> "WAITING_APPROVAL", steps |-> at("WAITING_APPROVAL"),
                  current |-> i, gate |-> i, approved |-> FALSE]
<1>1. k \in Proc /\ i \in Position /\ k.steps \in Steps
  <2>1. k \in Proc
    BY DEF TypeInv
  <2> QED
    BY <2>1 DEF Proc
<1>2. UNCHANGED <<file, job, plan, granted, rejected, givenUp, restarts>>
  BY DEF NextStep
<1>3. ASSUME NEW n, ProcOK(t, n), ProcStep(r, t, n)
      PROVE  TypeInv'
  BY <1>2, <1>3, TypeStep DEF TypeInv, TypeOK
<1>4. CASE i > Len(Pipeline)
  <2>1. u1 \in Updates
    BY <1>1 DEF Updates, Stored, TERMINAL
  <2>2. ProcStep(r, t, Updating(k, u1, "idle"))
    BY <1>4 DEF NextStep
  <2> HIDE DEF k, u1
  <2> QED
    BY <1>1, <1>3, <2>1, <2>2, UpdatingType
<1>5. CASE i \in Step /\ Pipeline[i] # "approval"
  <2>1. at("RUNNING") \in Steps
    BY <1>1, <1>5, StepsType DEF StepStatus
  <2>2. k2 \in Proc /\ k2.i = i
    BY <1>1, <2>1 DEF Proc
  <2>3. u2 \in Updates
    BY <1>1, <2>1 DEF Updates
  <2>4. ProcStep(r, t, Updating(k2, u2, "exec"))
    BY <1>5, PipelineFacts DEF NextStep, Step
  <2>5. k2.i \in Step \ Gate
    BY <1>5, <2>2 DEF Gate
  <2> HIDE DEF k2, u2
  <2> QED
    BY <1>3, <2>2, <2>3, <2>4, <2>5, UpdatingType
<1>6. CASE i \in Step /\ Pipeline[i] = "approval" /\ Passes(k)
  <2>0. at("SUCCESS") \in Steps
    BY <1>1, <1>6, StepsType DEF StepStatus
  <2>1. at("SUCCESS") \in Steps /\ i + 1 \in Position
    BY <1>6, <2>0, NextPosition
  <2>2. k3 \in Proc
    BY <1>1, <2>1 DEF Proc
  <2>3. u3 \in Updates
    BY <2>1 DEF Updates
  <2>4. ProcStep(r, t, Updating(k3, u3, "step"))
    BY <1>6, PipelineFacts DEF NextStep, Step
  <2> HIDE DEF k3, u3
  <2> QED
    BY <1>3, <2>2, <2>3, <2>4, UpdatingType
<1>7. CASE i \in Step /\ Pipeline[i] = "approval" /\ ~Passes(k)
  <2>1. at("WAITING_APPROVAL") \in Steps /\ i \in Gate
    BY <1>1, <1>7, StepsType DEF StepStatus, Gate
  <2>2. u4 \in Updates
    BY <1>1, <2>1 DEF Updates, Stored
  <2>3. ProcStep(r, t, Updating(k, u4, "idle"))
    BY <1>7, PipelineFacts DEF NextStep, Step
  <2> HIDE DEF k, u4
  <2> QED
    BY <1>1, <1>3, <2>2, <2>3, UpdatingType
<1> QED
  BY <1>1, <1>4, <1>5, <1>6, <1>7, PipelineFacts DEF Position, Step

LEMMA TypeExecute ==
    ASSUME TypeInv, NEW r \in Run, NEW t \in Thread, _execute_step(r, t)
    PROVE  TypeInv'
<1> DEFINE k == proc[r][t]
           k1 == [k EXCEPT !.pc = IF Pipeline[k.i] = "shell" THEN "shell" ELSE "wait"]
           j == [kind |-> Pipeline[k.i], state |-> "queued", tool |-> "none"]
<1>1. k \in Proc /\ ProcOK(t, k) /\ k.i \in Step \ Gate
  BY DEF TypeInv, ProcOK, Executes, _execute_step
<1>2. ProcOK(t, k1)
  BY <1>1, PipelineAssumption DEF ProcOK, Proc, Executes
<1>3. Pipeline[k.i] # "shell" => j \in Job
  BY <1>1, PipelineFacts DEF Job
<1>4. /\ ProcStep(r, t, k1)
      /\ job' = job \/ (Pipeline[k.i] # "shell" /\ job' = [job EXCEPT ![r][t] = j])
      /\ plan' \in {plan, NoPlan}
      /\ UNCHANGED <<file, granted, rejected, givenUp, restarts>>
  BY DEF _execute_step
<1> HIDE DEF k, k1, j
<1>5. job' \in [Run -> [Thread -> Job]]
  <2>1. CASE job' = job
    BY <2>1 DEF TypeInv, TypeOK
  <2>2. CASE job' = [job EXCEPT ![r][t] = j] /\ j \in Job
    BY <2>2 DEF TypeInv, TypeOK
  <2> QED
    BY <1>3, <1>4, <2>1, <2>2
<1> QED
  BY <1>2, <1>4, <1>5, TypeStep DEF TypeInv, TypeOK

LEMMA StepDoneType ==
    ASSUME NEW t \in Thread, NEW k \in Proc, k.i \in Step, NEW s \in {"SUCCESS", "FAILED"}
    PROVE  ProcOK(t, StepDone(k, s))
<1> DEFINE steps == [k.steps EXCEPT ![k.i] = s]
           skipped == SkipAfter(steps, k.i)
           k1 == [k EXCEPT !.steps = steps, !.i = @ + 1]
           u1 == [steps |-> steps, current |-> k.i + 1]
           k2 == [k EXCEPT !.steps = skipped]
           u2 == [status |-> "FAILED", steps |-> skipped, current |-> k.i]
<1>0. k.steps \in Steps
  BY DEF Proc
<1>1. steps \in Steps /\ k.i + 1 \in Position /\ k.i \in Position
  BY <1>0, StepsType, NextPosition DEF StepStatus
<1> HIDE DEF steps
<1>2. skipped \in Steps
  BY <1>1, SkipType
<1> HIDE DEF skipped
<1>3. k1 \in Proc /\ k2 \in Proc
  BY <1>1, <1>2 DEF Proc
<1>4. u1 \in Updates /\ u2 \in Updates
  BY <1>1, <1>2 DEF Updates, Stored, TERMINAL
<1>5. StepDone(k, s) \in {Updating(k1, u1, "step"), Updating(k2, u2, "idle")}
  BY DEF StepDone, steps, skipped
<1> HIDE DEF k1, k2, u1, u2
<1> QED
  BY <1>3, <1>4, <1>5, UpdatingType

LEMMA TypeWait ==
    ASSUME TypeInv, NEW r \in Run, NEW t \in Thread,
           _wait_for_worker_execution(r, t) \/ ShellEnds(r, t)
    PROVE  TypeInv'
<1> DEFINE k == proc[r][t]
<1>1. k \in Proc /\ k.i \in Step
  BY DEF TypeInv, ProcOK, Executes, _wait_for_worker_execution, ShellEnds
<1>2. PICK s \in {"SUCCESS", "FAILED"} : ProcStep(r, t, StepDone(k, s))
  BY DEF _wait_for_worker_execution, ShellEnds
<1>3. /\ plan' \in {plan, NoPlan}
      /\ givenUp' \in {givenUp, givenUp \cup {r}}
      /\ UNCHANGED <<file, job, granted, rejected, restarts>>
  BY DEF _wait_for_worker_execution, ShellEnds, PlanAfter
<1>4. ProcOK(t, StepDone(k, s))
  BY <1>1, StepDoneType
<1> HIDE DEF k
<1> QED
  BY <1>2, <1>3, <1>4, TypeStep DEF TypeInv, TypeOK

LEMMA TypeTool ==
    ASSUME TypeInv, NEW r \in Run, NEW t \in Thread,
           StartTool(r, t) \/ EndTool(r, t) \/ ReportTool(r, t) \/ GiveUp(r, t)
    PROVE  TypeInv'
<1>1. job[r][t] \in Job
  BY DEF TypeInv, TypeOK
<1>2. job' \in [Run -> [Thread -> Job]]
  <2>1. PICK j \in Job : JobStep(r, t, j)
    BY <1>1 DEF StartTool, EndTool, ReportTool, GiveUp, Job
  <2> QED
    BY <2>1 DEF JobStep, TypeInv, TypeOK
<1>3. /\ plan' \in {plan, r}
      /\ givenUp' \in {givenUp, givenUp \cup {r}}
      /\ UNCHANGED <<file, proc, granted, rejected, restarts>>
  BY DEF StartTool, EndTool, ReportTool, GiveUp
<1> QED
  BY <1>2, <1>3 DEF TypeInv, TypeOK

LEMMA TypeRestart == TypeInv /\ ServerRestart => TypeInv'
<1> SUFFICES ASSUME TypeInv, ServerRestart
             PROVE  TypeInv'
  OBVIOUS
<1>1. NoProc \in Proc
  BY NoProcType DEF ProcOK
<1>2. restarts' \in 0 .. MaxRestarts
  BY PipelineAssumption DEF ServerRestart, TypeInv, TypeOK
<1>3. /\ NoProc.pc \in {"idle", "begin", "step", "exec", "wait", "shell", "merge", "store", "cleanup"}
      /\ NoProc.i \in 1 .. Len(Pipeline) + 1
      /\ NoProc.buf \in File
  BY <1>1 DEF Proc, Position
<1> QED
  BY <1>1, <1>2, <1>3, NoProcType DEF TypeInv, TypeOK, ServerRestart

LEMMA TypeNext == TypeInv /\ [Next]_vars => TypeInv'
<1> SUFFICES ASSUME TypeInv, [Next]_vars
             PROVE  TypeInv'
  OBVIOUS
<1>1. CASE UNCHANGED vars
  BY <1>1 DEF TypeInv, TypeOK, vars
<1> QED
  BY <1>1, TypeMerge, TypeStore, TypeRoutes, TypeBegin, TypeNextStep, TypeExecute, TypeWait,
     TypeTool, TypeRestart
     DEF Next, RequestStep, ThreadStep

\* Every variable keeps its type, for any pipeline and any number of requests.
THEOREM TypeCorrect == Spec => []TypeOK
<1>1. TypeInv => TypeOK
  BY DEF TypeInv
<1> QED
  BY <1>1, TypeInit, TypeNext, PTL DEF Spec

-----------------------------------------------------------------------------
(* The gate.  Until it has been granted, nothing of a run is behind it: not*)
(* the file, nor what a thread or a request remembers or is about to store.*)

FileNotPassed(f) ==
    /\ ~f.approved
    /\ \A g \in Gate : f.current <= g
    /\ f.status = "WAITING_APPROVAL" => f.gate # 0

UpdatesNotPassed(u) ==
    /\ "approved" \in DOMAIN u => ~u.approved
    /\ "current" \in DOMAIN u => \A g \in Gate : u.current <= g
    /\ "gate" \in DOMAIN u => u.gate # 0
    /\ "status" \in DOMAIN u => u.status # "WAITING_APPROVAL" \/ "gate" \in DOMAIN u

NotPassed(k) ==
    /\ ~k.approved
    /\ \A g \in Gate : k.i <= g
    /\ k.pc = "merge" => UpdatesNotPassed(k.upd)
    /\ k.pc = "store" => FileNotPassed(k.buf)

GateInv ==
    \A r \in Run :
        \/ Gate \subseteq granted[r]
        \/ FileNotPassed(file[r]) /\ \A p \in Thread \cup Request : NotPassed(proc[r][p])

LEMMA NewNotPassed ==
    /\ NotPassed(NoProc)
    /\ NotPassed([NoProc EXCEPT !.pc = "begin"])
    /\ \A s \in {"ABSENT", "DELETED", "QUEUED"} : FileNotPassed([NewFile EXCEPT !.status = s])
    /\ FileNotPassed(NewFile)
  BY PipelineFacts DEF NotPassed, FileNotPassed, NoProc, NewFile, Step

\* An update not behind the gate leaves the file so.
LEMMA UpdatedNotPassed ==
    ASSUME NEW u \in Updates, NEW f \in File, FileNotPassed(f), UpdatesNotPassed(u)
    PROVE  FileNotPassed(Updated(f, u))
<1>1. DOMAIN f = {"status", "steps", "current", "gate", "approved"}
  BY DEF File
<1>2. /\ \A x \in DOMAIN u : x \in DOMAIN f /\ Updated(f, u)[x] = u[x]
      /\ \A x \in DOMAIN f \ DOMAIN u : Updated(f, u)[x] = f[x]
  BY UpdatedFile
<1> QED
  BY <1>1, <1>2 DEF FileNotPassed, UpdatesNotPassed

LEMMA UpdatingNotPassed ==
    ASSUME NEW k \in Proc, NEW u, NEW n, UpdatesNotPassed(u), ~k.approved,
           \A g \in Gate : k.i <= g
    PROVE  NotPassed(Updating(k, u, n))
  BY DEF NotPassed, Updating, Proc

\* A step of one thread or request that leaves the file alone.
LEMMA GateStep ==
    ASSUME TypeInv, GateInv, NEW r \in Run, NEW p \in Thread \cup Request, NEW k,
           ProcOK(p, k), ProcStep(r, p, k), UNCHANGED <<file, granted>>,
           ~(Gate \subseteq granted[r]) => NotPassed(k)
    PROVE  GateInv'
<1>1. \A x \in Run, y \in Thread \cup Request :
          proc'[x][y] = IF x = r /\ y = p THEN k ELSE proc[x][y]
  BY ProcChange
<1> QED
  BY <1>1 DEF GateInv

LEMMA GateMerge ==
    ASSUME TypeInv, GateInv, NEW r \in Run, NEW p \in Thread \cup Request, Merge(r, p)
    PROVE  GateInv'
<1> DEFINE k == proc[r][p]
           k1 == [k EXCEPT !.pc = "store", !.upd = <<>>, !.buf = Updated(file[r], k.upd)]
           k2 == [k EXCEPT !.pc = k.next, !.upd = <<>>]
<1>1. k \in Proc /\ k.upd \in Updates /\ k.pc = "merge" /\ ProcOK(p, k) /\ file[r] \in File
  BY DEF TypeInv, TypeOK, ProcOK, Merge
<1>2. Updated(file[r], k.upd) \in File
  BY <1>1, UpdatedFile
<1>3. ProcOK(p, k1) /\ (p \in Thread => ProcOK(p, k2))
  BY <1>1, <1>2, PipelineAssumption DEF ProcOK, Proc, Executes
<1>4. ASSUME ~(Gate \subseteq granted[r])
      PROVE  NotPassed(k1) /\ (p \in Thread => NotPassed(k2))
  <2>1. NotPassed(k) /\ FileNotPassed(file[r])
    BY <1>4 DEF GateInv
  <2>2. FileNotPassed(Updated(file[r], k.upd))
    BY <1>1, <2>1, UpdatedNotPassed DEF NotPassed
  <2>3. /\ k1.pc = "store" /\ k1.buf = Updated(file[r], k.upd)
        /\ k1.approved = k.approved /\ k1.i = k.i
        /\ k2.pc = k.next /\ k2.approved = k.approved /\ k2.i = k.i
    BY <1>1 DEF Proc
  <2> HIDE DEF k1, k2
  <2> QED
    BY <1>1, <2>1, <2>2, <2>3 DEF NotPassed, ProcOK
<1>5. ProcStep(r, p, k1) \/ (p \in Thread /\ ProcStep(r, p, k2)) \/ ProcStep(r, p, NoProc)
  BY DEF Merge
<1>6. UNCHANGED <<file, granted>>
  BY DEF Merge
<1> HIDE DEF k, k1, k2
<1> QED
  BY <1>3, <1>4, <1>5, <1>6, NoProcType, NewNotPassed, GateStep

LEMMA GateStore ==
    ASSUME TypeInv, GateInv, NEW r \in Run, NEW p \in Thread \cup Request, Store(r, p)
    PROVE  GateInv'
<1> DEFINE k == proc[r][p]
           k1 == [k EXCEPT !.pc = k.next, !.buf = NewFile]
           begin == [NoProc EXCEPT !.pc = "begin"]
<1>1. k \in Proc /\ k.pc = "store" /\ ProcOK(p, k)
  BY DEF TypeInv, Store
<1>2. /\ \A x \in Run : file'[x] = IF x = r THEN k.buf ELSE file[x]
      /\ granted' = granted
  BY <1>1 DEF Store, TypeInv, TypeOK
<1>3. \A x \in Run, y \in Thread \cup Request :
          proc'[x][y] \in {proc[x][y]} \cup (IF x = r THEN {begin, NoProc, k1} ELSE {})
  <2>1. CASE k.next = "spawn"
    <3>1. PICK t \in Thread :
              /\ proc[r][t] = NoProc
              /\ proc' = [proc EXCEPT ![r] = [@ EXCEPT ![p] = NoProc, ![t].pc = "begin"]]
      BY <2>1 DEF Store, FreeThread
    <3>2. p # t
      BY <1>1, <3>1, NoProcType
    <3> HIDE DEF k1
    <3> QED
      BY <3>1, <3>2 DEF TypeInv
  <2>2. CASE k.next # "spawn"
    <3>1. ProcStep(r, p, k1) \/ ProcStep(r, p, NoProc)
      BY <2>2 DEF Store
    <3> HIDE DEF k1
    <3> QED
      BY <3>1 DEF ProcStep, TypeInv
  <2> QED
    BY <2>1, <2>2
<1>4. ASSUME ~(Gate \subseteq granted[r])
      PROVE  NotPassed(k1) /\ FileNotPassed(k.buf)
  <2>1. NotPassed(k)
    BY <1>4 DEF GateInv
  <2>2. k1.pc = k.next /\ k1.approved = k.approved /\ k1.i = k.i
    BY <1>1 DEF Proc
  <2> HIDE DEF k1
  <2> QED
    BY <1>1, <2>1, <2>2 DEF NotPassed, Proc
<1> HIDE DEF k, k1, begin
<1> QED
  BY <1>2, <1>3, <1>4, NewNotPassed DEF GateInv, begin

LEMMA GateRoutes ==
    ASSUME TypeInv, GateInv, \A g, h \in Gate : g = h, NEW r \in Run,
           \/ trigger_pipeline_run(r) \/ delete_pipeline_run(r)
           \/ \E q \in Request : approve_pipeline_run(r, q) \/ reject_pipeline_run(r, q)
                                     \/ RejectCleanup(r, q)
    PROVE  GateInv'
<1>0. NoProc \in Proc /\ file[r] \in File /\ ~NoProc.approved /\ \A g \in Gate : NoProc.i <= g
  BY NoProcType, NewNotPassed DEF ProcOK, TypeInv, TypeOK, NotPassed
<1>1. CASE trigger_pipeline_run(r)
  <2> DEFINE begin == [NoProc EXCEPT !.pc = "begin"]
  <2>1. PICK t \in Thread : ProcStep(r, t, begin)
    BY <1>1 DEF trigger_pipeline_run
  <2>2. ProcOK(t, begin)
    BY <1>0, SpawnType
  <2> HIDE DEF begin
  <2>3. \A x \in Run, y \in Thread \cup Request : proc'[x][y] \in {proc[x][y], begin}
    BY <2>1, <2>2, ProcChange
  <2>4. /\ \A x \in Run : file'[x] \in {file[x], NewFile}
        /\ granted' = granted
    BY <1>1 DEF trigger_pipeline_run, TypeInv, TypeOK
  <2>5. NotPassed(begin) /\ FileNotPassed(NewFile)
    BY NewNotPassed DEF begin
  <2> QED
    BY <2>3, <2>4, <2>5 DEF GateInv
<1>2. CASE delete_pipeline_run(r)
  <2> DEFINE new == [NewFile EXCEPT !.status = "DELETED"]
  <2>1. FileNotPassed(new)
    BY NewNotPassed
  <2> HIDE DEF new
  <2>2. /\ \A x \in Run : file'[x] \in {file[x], new}
        /\ granted' = granted /\ proc' = proc
    BY <1>2 DEF delete_pipeline_run, TypeInv, TypeOK, new
  <2> QED
    BY <2>1, <2>2 DEF GateInv
<1>3. ASSUME NEW q \in Request, approve_pipeline_run(r, q)
      PROVE  GateInv'
  <2> DEFINE u == [status |-> "QUEUED", approved |-> TRUE]
             k == Updating(NoProc, u, "spawn")
  <2>1. u \in Updates
    BY DEF Updates, Stored
  <2>2. /\ ProcStep(r, q, k)
        /\ file[r].status = "WAITING_APPROVAL"
        /\ granted' = [granted EXCEPT ![r] = @ \cup ({file[r].gate} \ {0})]
        /\ file' = file
    BY <1>3 DEF approve_pipeline_run, Waiting
  <2> HIDE DEF u
  <2>3. ProcOK(q, k)
    BY <1>0, <2>1, UpdatingType, PipelineAssumption
  <2> HIDE DEF k
  <2>4. \A x \in Run, y \in Thread \cup Request : x # r => proc'[x][y] = proc[x][y]
    BY <2>2, <2>3, ProcChange
  <2>5. \A x \in Run : granted[x] \subseteq granted'[x] /\ (x # r => granted'[x] = granted[x])
    BY <2>2 DEF TypeInv, TypeOK
  <2>6. Gate \subseteq granted'[r]
    <3>1. CASE Gate \subseteq granted[r]
      BY <2>5, <3>1
    <3>2. CASE FileNotPassed(file[r])
      <4>1. file[r].gate \in Gate
        BY <1>0, <2>2, <3>2 DEF FileNotPassed, File
      <4>2. file[r].gate # 0 /\ file[r].gate \in granted'[r]
        BY <2>2, <3>2 DEF FileNotPassed, TypeInv, TypeOK
      <4> QED
        BY <4>1, <4>2
    <3> QED
      BY <3>1, <3>2 DEF GateInv
  <2> QED
    BY <2>2, <2>4, <2>5, <2>6 DEF GateInv
<1>4. ASSUME NEW q \in Request, reject_pipeline_run(r, q)
      PROVE  GateInv'
  <2> DEFINE g == file[r].gate
             steps == file[r].steps
             new == IF g = 0 THEN steps ELSE SkipAfter([steps EXCEPT ![g] = "REJECTED"], g)
             u == [status |-> "REJECTED", approved |-> FALSE, steps |-> new]
             k == Updating(NoProc, u, "cleanup")
  <2>1. steps \in Steps /\ [steps EXCEPT ![g] = "REJECTED"] \in Steps
    BY <1>0 DEF File, Steps, StepStatus
  <2>2. new \in Steps
    BY <2>1, SkipType
  <2>3. ProcStep(r, q, k)
    BY <1>4 DEF reject_pipeline_run
  <2> HIDE DEF new
  <2>4. u \in Updates /\ UpdatesNotPassed(u)
    BY <2>2 DEF Updates, Stored, TERMINAL, UpdatesNotPassed
  <2> HIDE DEF u
  <2>5. ProcOK(q, k)
    BY <1>0, <2>4, UpdatingType, PipelineAssumption
  <2>6. NotPassed(k)
    BY <1>0, <2>4, UpdatingNotPassed
  <2>7. UNCHANGED <<file, granted>>
    BY <1>4 DEF reject_pipeline_run
  <2> HIDE DEF k
  <2> QED
    BY <2>3, <2>5, <2>6, <2>7, GateStep
<1>5. ASSUME NEW q \in Request, RejectCleanup(r, q)
      PROVE  GateInv'
  BY <1>5, NoProcType, NewNotPassed, GateStep DEF RejectCleanup
<1> QED
  BY <1>1, <1>2, <1>3, <1>4, <1>5

LEMMA GateBegin ==
    ASSUME TypeInv, GateInv, NEW r \in Run, NEW t \in Thread, Begin(r, t)
    PROVE  GateInv'
<1> DEFINE f == file[r]
           k == [NoProc EXCEPT !.i = f.current, !.steps = f.steps, !.gate = f.gate,
                               !.approved = f.approved]
           u == [status |-> "RUNNING"]
<1>1. f \in File /\ NoProc \in Proc
  BY NoProcType DEF TypeInv, TypeOK, ProcOK
<1>2. k \in Proc /\ k.i = f.current /\ k.approved = f.approved
  BY <1>1 DEF Proc, File, Position, Steps
<1>3. u \in Updates /\ UpdatesNotPassed(u)
  BY DEF Updates, Stored, UpdatesNotPassed
<1>4. ProcStep(r, t, Updating(k, u, "step")) \/ ProcStep(r, t, NoProc)
  BY DEF Begin
<1>5. UNCHANGED <<file, granted>>
  BY DEF Begin
<1>6. ~(Gate \subseteq granted[r]) => FileNotPassed(f)
  BY DEF GateInv
<1> HIDE DEF k, u
<1>7. ProcOK(t, Updating(k, u, "step"))
  BY <1>2, <1>3, UpdatingType
<1>8. ~(Gate \subseteq granted[r]) => NotPassed(Updating(k, u, "step"))
  BY <1>2, <1>3, <1>6, UpdatingNotPassed DEF FileNotPassed
<1> QED
  BY <1>4, <1>5, <1>7, <1>8, NoProcType, NewNotPassed, GateStep

LEMMA GateNextStep ==
    ASSUME TypeInv, GateInv, NEW r \in Run, NEW t \in Thread, NextStep(r, t)
    PROVE  GateInv'
<1> DEFINE k == proc[r][t]
           i == k.i
           at(s) == [k.steps EXCEPT ![i] = s]
           u1 == [status |-> "SUCCESS", steps |-> k.steps, current |-> i]
           k2 == [k EXCEPT !.steps = at("RUNNING")]
           u2 == [steps |-> at("RUNNING"), current |-> i]
           k3 == [k EXCEPT !.steps = at("SUCCESS"), !.i = i + 1, !.approved = FALSE, !.gate = 0]
           u3 == [steps |-> at("SUCCESS"), current |-> i + 1, approved |-> FALSE, gate |-> 0]
           u4 == [status |-> "WAITING_APPROVAL", steps |-> at("WAITING_APPROVAL"),
                  current |-> i, gate |-> i, approved |-> FALSE]
<1>1. k \in Proc /\ i \in Position /\ k.steps \in Steps
  <2>1. k \in Proc
    BY DEF TypeInv
  <2> QED
    BY <2>1 DEF Proc
<1>2. TypeInv' /\ UNCHANGED <<file, granted>>
  BY TypeNextStep DEF NextStep
<1>3. CASE Gate \subseteq granted[r]
  <2>1. \A x \in Run, y \in Thread \cup Request : x # r => proc'[x][y] = proc[x][y]
    BY DEF NextStep, ProcStep, TypeInv
  <2> QED
    BY <1>2, <1>3, <2>1 DEF GateInv
<1>4. CASE ~(Gate \subseteq granted[r])
  <2>1. ~k.approved /\ ~Passes(k) /\ \A g \in Gate : i <= g
    BY <1>4 DEF GateInv, NotPassed, Passes
  <2>2. CASE i > Len(Pipeline)
    <3>1. u1 \in Updates /\ UpdatesNotPassed(u1)
      BY <1>1, <2>1 DEF Updates, Stored, TERMINAL, UpdatesNotPassed
    <3>2. ProcStep(r, t, Updating(k, u1, "idle"))
      BY <2>2 DEF NextStep
    <3> HIDE DEF k, u1
    <3>3. ProcOK(t, Updating(k, u1, "idle")) /\ NotPassed(Updating(k, u1, "idle"))
      BY <1>1, <2>1, <3>1, UpdatingType, UpdatingNotPassed
    <3> QED
      BY <1>2, <3>2, <3>3, GateStep
  <2>3. CASE i \in Step /\ Pipeline[i] # "approval"
    <3>1. at("RUNNING") \in Steps
      BY <1>1, <2>3, StepsType DEF StepStatus
    <3>2. k2 \in Proc /\ k2.i = i /\ k2.approved = k.approved
      BY <1>1, <3>1 DEF Proc
    <3>3. u2 \in Updates /\ UpdatesNotPassed(u2)
      BY <1>1, <2>1, <3>1 DEF Updates, UpdatesNotPassed
    <3>4. ProcStep(r, t, Updating(k2, u2, "exec"))
      BY <2>3, PipelineFacts DEF NextStep, Step
    <3>5. k2.i \in Step \ Gate
      BY <2>3, <3>2 DEF Gate
    <3> HIDE DEF k2, u2
    <3>6. ProcOK(t, Updating(k2, u2, "exec")) /\ NotPassed(Updating(k2, u2, "exec"))
      BY <2>1, <3>2, <3>3, <3>5, UpdatingType, UpdatingNotPassed
    <3> QED
      BY <1>2, <3>4, <3>6, GateStep
  <2>4. CASE i \in Step /\ Pipeline[i] = "approval"
    <3>0. i \in Gate /\ i # 0
      BY <2>4, PipelineFacts DEF Gate, Step
    <3>1. at("WAITING_APPROVAL") \in Steps /\ i \in Gate /\ i # 0
      BY <1>1, <2>4, <3>0, StepsType DEF StepStatus
    <3>2. u4 \in Updates /\ UpdatesNotPassed(u4)
      BY <1>1, <2>1, <3>1 DEF Updates, Stored, UpdatesNotPassed
    <3>3. ProcStep(r, t, Updating(k, u4, "idle"))
      BY <2>1, <2>4, PipelineFacts DEF NextStep, Step
    <3> HIDE DEF k, u4
    <3>4. ProcOK(t, Updating(k, u4, "idle")) /\ NotPassed(Updating(k, u4, "idle"))
      BY <1>1, <2>1, <3>2, UpdatingType, UpdatingNotPassed
    <3> QED
      BY <1>2, <3>3, <3>4, GateStep
  <2> QED
    BY <1>1, <2>2, <2>3, <2>4, PipelineFacts DEF Position, Step
<1> QED
  BY <1>3, <1>4

LEMMA GateExecute ==
    ASSUME TypeInv, GateInv, NEW r \in Run, NEW t \in Thread, _execute_step(r, t)
    PROVE  GateInv'
<1> DEFINE k == proc[r][t]
           k1 == [k EXCEPT !.pc = IF Pipeline[k.i] = "shell" THEN "shell" ELSE "wait"]
<1>1. k \in Proc /\ ProcOK(t, k) /\ k.i \in Step \ Gate
  BY DEF TypeInv, ProcOK, Executes, _execute_step
<1>2. ProcOK(t, k1) /\ k1.pc \in {"wait", "shell"} /\ k1.i = k.i /\ k1.approved = k.approved
  BY <1>1, PipelineAssumption DEF ProcOK, Proc, Executes
<1>3. ProcStep(r, t, k1) /\ UNCHANGED <<file, granted>>
  BY DEF _execute_step
<1>4. ~(Gate \subseteq granted[r]) => NotPassed(k)
  BY DEF GateInv
<1> HIDE DEF k, k1
<1>5. ~(Gate \subseteq granted[r]) => NotPassed(k1)
  BY <1>2, <1>4 DEF NotPassed
<1> QED
  BY <1>2, <1>3, <1>5, GateStep

\* What follows a step that is no gate is not behind a gate the step is before.
LEMMA StepDoneNotPassed ==
    ASSUME NEW t \in Thread, NEW k \in Proc, k.i \in Step \ Gate,
           NEW s \in {"SUCCESS", "FAILED"}, NotPassed(k)
    PROVE  NotPassed(StepDone(k, s))
<1> DEFINE steps == [k.steps EXCEPT ![k.i] = s]
           skipped == SkipAfter(steps, k.i)
           k1 == [k EXCEPT !.steps = steps, !.i = @ + 1]
           u1 == [steps |-> steps, current |-> k.i + 1]
           k2 == [k EXCEPT !.steps = skipped]
           u2 == [status |-> "FAILED", steps |-> skipped, current |-> k.i]
<1>1. \A g \in Gate : k.i <= g /\ k.i + 1 <= g
  BY PipelineFacts DEF NotPassed, Step
<1>2. ~k.approved
  BY DEF NotPassed
<1>3. k.steps \in Steps
  BY DEF Proc
<1>4. steps \in Steps /\ k.i + 1 \in Position /\ k.i \in Position
  BY <1>3, StepsType, NextPosition DEF StepStatus
<1> HIDE DEF steps
<1>5. skipped \in Steps
  BY <1>4, SkipType
<1> HIDE DEF skipped
<1>6. /\ k1 \in Proc /\ k1.i = k.i + 1 /\ k1.approved = k.approved
      /\ k2 \in Proc /\ k2.i = k.i /\ k2.approved = k.approved
  BY <1>4, <1>5 DEF Proc
<1>7. UpdatesNotPassed(u1) /\ UpdatesNotPassed(u2)
  BY <1>1 DEF UpdatesNotPassed
<1>8. StepDone(k, s) \in {Updating(k1, u1, "step"), Updating(k2, u2, "idle")}
  BY DEF StepDone, steps, skipped
<1> HIDE DEF k1, k2, u1, u2
<1> QED
  BY <1>1, <1>2, <1>6, <1>7, <1>8, UpdatingNotPassed

LEMMA GateWait ==
    ASSUME TypeInv, GateInv, NEW r \in Run, NEW t \in Thread,
           _wait_for_worker_execution(r, t) \/ ShellEnds(r, t)
    PROVE  GateInv'
<1> DEFINE k == proc[r][t]
<1>1. k \in Proc /\ k.i \in Step \ Gate
  BY DEF TypeInv, ProcOK, Executes, _wait_for_worker_execution, ShellEnds
<1>2. PICK s \in {"SUCCESS", "FAILED"} : ProcStep(r, t, StepDone(k, s))
  BY DEF _wait_for_worker_execution, ShellEnds
<1>3. UNCHANGED <<file, granted>>
  BY DEF _wait_for_worker_execution, ShellEnds
<1>4. ~(Gate \subseteq granted[r]) => NotPassed(k)
  BY DEF GateInv
<1> HIDE DEF k
<1>5. ProcOK(t, StepDone(k, s))
  BY <1>1, StepDoneType
<1>6. ~(Gate \subseteq granted[r]) => NotPassed(StepDone(k, s))
  BY <1>1, <1>4, StepDoneNotPassed
<1> QED
  BY <1>2, <1>3, <1>5, <1>6, GateStep

LEMMA GateRestart == TypeInv /\ GateInv /\ ServerRestart => GateInv'
  BY NewNotPassed DEF GateInv, ServerRestart

LEMMA GateInit == Init => GateInv
<1> SUFFICES ASSUME Init
             PROVE  GateInv
  OBVIOUS
<1>1. FileNotPassed([NewFile EXCEPT !.status = "ABSENT"])
  BY NewNotPassed
<1> QED
  BY <1>1, NewNotPassed DEF Init, GateInv

LEMMA GateNext ==
    ASSUME TypeInv, GateInv, \A g, h \in Gate : g = h, [Next]_vars
    PROVE  GateInv'
<1>1. CASE UNCHANGED vars
  BY <1>1 DEF GateInv, vars
<1>2. ASSUME NEW r \in Run, NEW t \in Thread,
             StartTool(r, t) \/ EndTool(r, t) \/ ReportTool(r, t) \/ GiveUp(r, t)
      PROVE  GateInv'
  <2>1. UNCHANGED <<file, proc, granted>>
    BY <1>2 DEF StartTool, EndTool, ReportTool, GiveUp
  <2> QED
    BY <2>1 DEF GateInv
<1> QED
  BY <1>1, <1>2, GateMerge, GateStore, GateRoutes, GateBegin, GateNextStep, GateExecute,
     GateWait, GateRestart
     DEF Next, RequestStep, ThreadStep

\* In a pipeline with one approval step no step behind it runs before somebody
\* has approved the run while it waited there, however many approve and reject
\* requests, threads, deletions and restarts come in between.
THEOREM OneGateHolds ==
    ASSUME \A g, h \in Gate : g = h
    PROVE  Spec => []GateHolds
<1>1. Init => TypeInv /\ GateInv
  BY TypeInit, GateInit
<1>2. TypeInv /\ GateInv /\ [Next]_vars => (TypeInv /\ GateInv)'
  BY TypeNext, GateNext
<1>3. TypeInv /\ GateInv => GateHolds
  <2> SUFFICES ASSUME TypeInv, GateInv, NEW r \in Run, NEW t \in Thread,
                      proc[r][t].pc \in {"exec", "wait", "shell"},
                      NEW g \in Gate, g < proc[r][t].i
               PROVE  g \in granted[r]
    BY DEF GateHolds
  <2>1. proc[r][t].i \in Step /\ g \in Step
    BY PipelineFacts DEF TypeInv, ProcOK, Executes
  <2>2. ~NotPassed(proc[r][t])
    BY <2>1, PipelineFacts DEF NotPassed, Step
  <2> QED
    BY <2>2 DEF GateInv
<1> QED
  BY <1>1, <1>2, <1>3, PTL DEF Spec

-----------------------------------------------------------------------------
(* One thread at a time, if there is one request at a time.  A thread that *)
(* lets the run wait for an approval does nothing after the write that     *)
(* says so, and a request that has been admitted finds no thread.          *)

Idle(r, p) == proc[r][p].pc = "idle"

NoThread(r) == \A t \in Thread : Idle(r, t)

\* A thread that goes on does not let the run wait.
GoesOnRunning(k) ==
    /\ k.pc = "merge" /\ k.next # "idle" =>
          ("status" \in DOMAIN k.upd => k.upd.status # "WAITING_APPROVAL")
    /\ k.pc = "store" => /\ k.buf.status # "ABSENT"
                         /\ k.next # "idle" => k.buf.status # "WAITING_APPROVAL"

\* A request ends the waiting.
EndsWaiting(k) ==
    /\ k.pc = "merge" => "status" \in DOMAIN k.upd /\ k.upd.status # "WAITING_APPROVAL"
    /\ k.pc = "store" => k.buf.status \notin {"ABSENT", "WAITING_APPROVAL"}

SerialRun(r) ==
    /\ \A t, u \in Thread : Idle(r, t) \/ Idle(r, u) \/ t = u
    /\ file[r].status = "WAITING_APPROVAL" => NoThread(r)
    /\ file[r].status = "ABSENT" => \A p \in Thread \cup Request : Idle(r, p)
    /\ \A q \in Request : Idle(r, q) \/ (NoThread(r) /\ EndsWaiting(proc[r][q]))
    /\ \A t \in Thread : GoesOnRunning(proc[r][t])

SerialInv == \A r \in Run : SerialRun(r)

LEMMA NewSerial ==
    /\ NoProc.pc = "idle" /\ GoesOnRunning(NoProc)
    /\ [NoProc EXCEPT !.pc = "begin"].pc = "begin"
    /\ GoesOnRunning([NoProc EXCEPT !.pc = "begin"])
  BY DEF GoesOnRunning, NoProc

\* A step of a thread that is not idle, or that becomes idle, and leaves the
\* file alone.
LEMMA SerialThreadStep ==
    ASSUME TypeInv, SerialInv, NEW r \in Run, NEW t \in Thread, NEW k,
           ProcOK(t, k), ProcStep(r, t, k), ~Idle(r, t), file' = file, GoesOnRunning(k)
    PROVE  SerialInv'
<1>1. /\ \A x \in Run, y \in Thread \cup Request :
            proc'[x][y] = IF x = r /\ y = t THEN k ELSE proc[x][y]
      /\ \A q \in Request : q # t
  BY ProcChange, PipelineAssumption
<1>2. SerialRun(r)
  BY DEF SerialInv
<1>3. SerialRun(r)'
  BY <1>1, <1>2 DEF SerialRun, Idle, NoThread
<1>4. ASSUME NEW x \in Run, x # r
      PROVE  SerialRun(x)'
  BY <1>1, <1>4 DEF SerialInv, SerialRun, Idle, NoThread
<1> QED
  BY <1>3, <1>4 DEF SerialInv

\* The same for the one request.
LEMMA SerialRequestStep ==
    ASSUME TypeInv, SerialInv, NEW r \in Run, NEW q \in Request, NEW k,
           ProcOK(q, k), ProcStep(r, q, k), NoThread(r), file[r].status # "ABSENT",
           file' = file, EndsWaiting(k)
    PROVE  SerialInv'
<1>1. /\ \A x \in Run, y \in Thread \cup Request :
            proc'[x][y] = IF x = r /\ y = q THEN k ELSE proc[x][y]
      /\ \A t \in Thread : q # t
  BY ProcChange, PipelineAssumption
<1>2. SerialRun(r)
  BY DEF SerialInv
<1>3. SerialRun(r)'
  BY <1>1, <1>2 DEF SerialRun, Idle, NoThread
<1>4. ASSUME NEW x \in Run, x # r
      PROVE  SerialRun(x)'
  BY <1>1, <1>4 DEF SerialInv, SerialRun, Idle, NoThread
<1> QED
  BY <1>3, <1>4 DEF SerialInv

LEMMA SerialMerge ==
    ASSUME TypeInv, SerialInv, NEW r \in Run, NEW p \in Thread \cup Request, Merge(r, p)
    PROVE  SerialInv'
<1> DEFINE k == proc[r][p]
           k1 == [k EXCEPT !.pc = "store", !.upd = <<>>, !.buf = Updated(file[r], k.upd)]
           k2 == [k EXCEPT !.pc = k.next, !.upd = <<>>]
<1>1. k \in Proc /\ k.upd \in Updates /\ k.pc = "merge" /\ ProcOK(p, k) /\ file[r] \in File
  BY DEF TypeInv, TypeOK, ProcOK, Merge
<1>2. /\ Updated(file[r], k.upd) \in File
      /\ "status" \in DOMAIN k.upd => Updated(file[r], k.upd).status = k.upd.status
      /\ "status" \notin DOMAIN k.upd => Updated(file[r], k.upd).status = file[r].status
  <2>1. "status" \in DOMAIN file[r]
    BY <1>1 DEF File
  <2> QED
    BY <1>1, <2>1, UpdatedFile
<1>3. "status" \in DOMAIN k.upd => k.upd.status \in Stored
  BY <1>1 DEF Updates
<1>4. ProcOK(p, k1) /\ (p \in Thread => ProcOK(p, k2))
  BY <1>1, <1>2, PipelineAssumption DEF ProcOK, Proc, Executes
<1>5. /\ k1.pc = "store" /\ k1.buf = Updated(file[r], k.upd) /\ k1.next = k.next
      /\ k2.pc = k.next
  BY <1>1 DEF Proc
<1>6. SerialRun(r) /\ ~Idle(r, p) /\ file' = file
  BY <1>1 DEF SerialInv, Idle, Merge
<1>7. file[r].status # "ABSENT"
  BY <1>6 DEF SerialRun
<1>8. \/ ProcStep(r, p, k1) /\ Exists(r)
      \/ p \in Thread /\ ProcStep(r, p, k2)
      \/ ProcStep(r, p, NoProc)
  BY DEF Merge
<1> HIDE DEF k1, k2
<1>9. CASE p \in Thread
  <2>1. GoesOnRunning(k) /\ file[r].status # "WAITING_APPROVAL"
    BY <1>6, <1>9 DEF SerialRun, NoThread
  <2>2. GoesOnRunning(k1)
    BY <1>1, <1>2, <1>3, <1>5, <1>7, <2>1 DEF GoesOnRunning, Stored, TERMINAL
  <2>3. GoesOnRunning(k2)
    BY <1>1, <1>5, <1>9 DEF GoesOnRunning, ProcOK
  <2> QED
    BY <1>4, <1>6, <1>8, <1>9, <2>2, <2>3, NoProcType, NewSerial, SerialThreadStep
<1>10. CASE p \in Request
  <2>1. EndsWaiting(k) /\ NoThread(r) /\ p \notin Thread
    BY <1>6, <1>10, PipelineAssumption DEF SerialRun
  <2>2. EndsWaiting(k1)
    BY <1>1, <1>2, <1>3, <1>5, <2>1 DEF EndsWaiting, Stored, TERMINAL
  <2>3. EndsWaiting(NoProc)
    BY NewSerial DEF EndsWaiting
  <2> QED
    BY <1>4, <1>6, <1>7, <1>8, <1>10, <2>1, <2>2, <2>3, NoProcType, SerialRequestStep
<1> QED
  BY <1>9, <1>10

LEMMA SerialStore ==
    ASSUME TypeInv, SerialInv, \A p, q \in Request : p = q,
           NEW r \in Run, NEW p \in Thread \cup Request, Store(r, p)
    PROVE  SerialInv'
<1> DEFINE k == proc[r][p]
           k1 == [k EXCEPT !.pc = k.next, !.buf = NewFile]
           begin == [NoProc EXCEPT !.pc = "begin"]
<1>1. k \in Proc /\ k.pc = "store" /\ ProcOK(p, k) /\ ~Idle(r, p)
  BY DEF TypeInv, Store, Idle
<1>2. \A x \in Run : file'[x] = IF x = r THEN k.buf ELSE file[x]
  BY DEF Store, TypeInv, TypeOK
<1>3. k1.pc = k.next
  BY <1>1 DEF Proc
<1>4. SerialRun(r)
  BY DEF SerialInv
<1>5. CASE p \in Thread
  <2>1. /\ GoesOnRunning(k) /\ k.next \in {"idle", "step", "exec"}
        /\ \A q \in Request : q # p /\ Idle(r, q)
        /\ \A t \in Thread : t = p \/ Idle(r, t)
    BY <1>1, <1>4, <1>5, PipelineAssumption DEF SerialRun, ProcOK, NoThread
  <2>2. k.buf.status # "ABSENT" /\ (k.buf.status = "WAITING_APPROVAL" => k.next = "idle")
    BY <1>1, <2>1 DEF GoesOnRunning
  <2> DEFINE n == IF k.next = "idle" THEN NoProc ELSE k1
  <2>3. n.pc = k.next /\ GoesOnRunning(n)
    BY <1>3, <2>1, NewSerial DEF GoesOnRunning
  <2>4. ProcStep(r, p, n)
    BY <2>1 DEF Store
  <2> HIDE DEF n, k1
  <2>5. \A x \in Run, y \in Thread \cup Request :
            proc'[x][y] = IF x = r /\ y = p THEN n ELSE proc[x][y]
    BY <2>4 DEF ProcStep, TypeInv
  <2> HIDE DEF k
  <2>6. SerialRun(r)'
    BY <1>2, <1>4, <1>5, <2>1, <2>2, <2>3, <2>5 DEF SerialRun, Idle, NoThread
  <2>7. ASSUME NEW x \in Run, x # r
        PROVE  SerialRun(x)'
    BY <1>2, <2>5, <2>7 DEF SerialInv, SerialRun, Idle, NoThread
  <2> QED
    BY <2>6, <2>7 DEF SerialInv
<1>6. CASE p \in Request /\ k.next = "cleanup"
  <2>1. /\ NoThread(r) /\ p \notin Thread
        /\ k.buf.status \notin {"ABSENT", "WAITING_APPROVAL"}
    BY <1>1, <1>4, <1>6, PipelineAssumption DEF SerialRun, EndsWaiting
  <2>2. k1.pc = "cleanup" /\ EndsWaiting(k1)
    BY <1>3, <1>6 DEF EndsWaiting
  <2>3. ProcStep(r, p, k1)
    BY <1>6 DEF Store
  <2> HIDE DEF k1
  <2>4. \A x \in Run, y \in Thread \cup Request :
            proc'[x][y] = IF x = r /\ y = p THEN k1 ELSE proc[x][y]
    BY <2>3 DEF ProcStep, TypeInv
  <2> HIDE DEF k
  <2>5. SerialRun(r)'
    BY <1>2, <1>4, <2>1, <2>2, <2>4 DEF SerialRun, Idle, NoThread
  <2>6. ASSUME NEW x \in Run, x # r
        PROVE  SerialRun(x)'
    BY <1>2, <2>4, <2>6 DEF SerialInv, SerialRun, Idle, NoThread
  <2> QED
    BY <2>5, <2>6 DEF SerialInv
<1>7. CASE p \in Request /\ k.next = "spawn"
  <2>1. /\ NoThread(r) /\ p \notin Thread /\ \A q \in Request : q = p
        /\ k.buf.status \notin {"ABSENT", "WAITING_APPROVAL"}
    BY <1>1, <1>4, <1>7, PipelineAssumption DEF SerialRun, EndsWaiting
  <2>2. PICK t \in Thread :
            /\ proc[r][t] = NoProc
            /\ proc' = [proc EXCEPT ![r] = [@ EXCEPT ![p] = NoProc, ![t].pc = "begin"]]
    BY <1>7 DEF Store, FreeThread
  <2>3. /\ NoProc.pc = "idle"
        /\ begin.pc = "begin" /\ GoesOnRunning(begin)
    BY NewSerial
  <2>4. \A x \in Run, y \in Thread \cup Request :
            proc'[x][y] = IF x # r THEN proc[x][y]
                          ELSE IF y = t THEN begin ELSE IF y = p THEN NoProc ELSE proc[x][y]
    BY <2>1, <2>2 DEF TypeInv
  <2> HIDE DEF k, begin
  <2>5. SerialRun(r)'
    BY <1>2, <1>4, <2>1, <2>3, <2>4 DEF SerialRun, Idle, NoThread
  <2>6. ASSUME NEW x \in Run, x # r
        PROVE  SerialRun(x)'
    BY <1>2, <2>4, <2>6 DEF SerialInv, SerialRun, Idle, NoThread
  <2> QED
    BY <2>5, <2>6 DEF SerialInv
<1> QED
  BY <1>1, <1>5, <1>6, <1>7 DEF ProcOK

LEMMA SerialRoutes ==
    ASSUME TypeInv, SerialInv, NEW r \in Run,
           \/ trigger_pipeline_run(r) \/ delete_pipeline_run(r)
           \/ \E q \in Request : approve_pipeline_run(r, q) \/ reject_pipeline_run(r, q)
                                     \/ RejectCleanup(r, q)
    PROVE  SerialInv'
<1>0. SerialRun(r) /\ NoProc \in Proc /\ file[r] \in File
  BY NoProcType DEF SerialInv, ProcOK, TypeInv, TypeOK
<1>1. CASE trigger_pipeline_run(r)
  <2> DEFINE begin == [NoProc EXCEPT !.pc = "begin"]
  <2>1. PICK t \in Thread : ProcStep(r, t, begin)
    BY <1>1 DEF trigger_pipeline_run
  <2>2. ProcOK(t, begin)
    BY <1>0, SpawnType
  <2>3. begin.pc = "begin" /\ GoesOnRunning(begin)
    BY NewSerial
  <2> HIDE DEF begin
  <2>4. \A x \in Run, y \in Thread \cup Request :
            proc'[x][y] = IF x = r /\ y = t THEN begin ELSE proc[x][y]
    BY <2>1, <2>2, ProcChange
  <2>5. /\ file[r].status = "ABSENT"
        /\ \A x \in Run : file'[x] = IF x = r THEN NewFile ELSE file[x]
        /\ NewFile.status = "QUEUED"
    BY <1>1 DEF trigger_pipeline_run, TypeInv, TypeOK, NewFile
  <2>6. \A y \in Thread \cup Request : Idle(r, y)
    BY <1>0, <2>5 DEF SerialRun
  <2>7. \A q \in Request : q # t
    BY PipelineAssumption
  <2>8. SerialRun(r)'
    BY <1>0, <2>3, <2>4, <2>5, <2>6, <2>7 DEF SerialRun, Idle, NoThread
  <2>9. ASSUME NEW x \in Run, x # r
        PROVE  SerialRun(x)'
    BY <2>4, <2>5, <2>9 DEF SerialInv, SerialRun, Idle, NoThread
  <2> QED
    BY <2>8, <2>9 DEF SerialInv
<1>2. CASE delete_pipeline_run(r)
  <2> DEFINE new == [NewFile EXCEPT !.status = "DELETED"]
  <2>1. new.status = "DELETED"
    BY DEF NewFile
  <2> HIDE DEF new
  <2>2. /\ \A x \in Run : file'[x] = IF x = r THEN new ELSE file[x]
        /\ proc' = proc
    BY <1>2 DEF delete_pipeline_run, TypeInv, TypeOK, new
  <2> QED
    BY <2>1, <2>2 DEF SerialInv, SerialRun, Idle, NoThread
<1>3. ASSUME NEW q \in Request, NEW u \in Updates, NEW n \in {"spawn", "cleanup"},
             "status" \in DOMAIN u, u.status # "WAITING_APPROVAL",
             Waiting(r), file' = file, ProcStep(r, q, Updating(NoProc, u, n))
      PROVE  SerialInv'
  <2> DEFINE k == Updating(NoProc, u, n)
  <2>1. q \notin Thread
    BY PipelineAssumption
  <2>2. ProcOK(q, k) /\ k.pc = "merge" /\ k.upd = u
    BY <1>0, <1>3, <2>1, UpdatingType
  <2>3. EndsWaiting(k)
    BY <1>3, <2>2 DEF EndsWaiting
  <2>4. NoThread(r) /\ file[r].status # "ABSENT"
    BY <1>0, <1>3 DEF SerialRun, Waiting
  <2> HIDE DEF k
  <2> QED
    BY <1>3, <2>2, <2>3, <2>4, SerialRequestStep DEF k
<1>4. ASSUME NEW q \in Request, approve_pipeline_run(r, q)
      PROVE  SerialInv'
  <2> DEFINE u == [status |-> "QUEUED", approved |-> TRUE]
  <2>1. u \in Updates
    BY DEF Updates, Stored
  <2>2. "status" \in DOMAIN u /\ u.status # "WAITING_APPROVAL"
    OBVIOUS
  <2>3. Waiting(r) /\ file' = file /\ ProcStep(r, q, Updating(NoProc, u, "spawn"))
    BY <1>4 DEF approve_pipeline_run
  <2> HIDE DEF u
  <2> QED
    BY <1>3, <2>1, <2>2, <2>3
<1>5. ASSUME NEW q \in Request, reject_pipeline_run(r, q)
      PROVE  SerialInv'
  <2> DEFINE g == file[r].gate
             steps == file[r].steps
             new == IF g = 0 THEN steps ELSE SkipAfter([steps EXCEPT ![g] = "REJECTED"], g)
             u == [status |-> "REJECTED", approved |-> FALSE, steps |-> new]
  <2>1. steps \in Steps /\ [steps EXCEPT ![g] = "REJECTED"] \in Steps
    BY <1>0 DEF File, Steps, StepStatus
  <2>2. new \in Steps
    BY <2>1, SkipType
  <2>3. Waiting(r) /\ file' = file /\ ProcStep(r, q, Updating(NoProc, u, "cleanup"))
    BY <1>5 DEF reject_pipeline_run
  <2> HIDE DEF new
  <2>4. u \in Updates /\ "status" \in DOMAIN u /\ u.status # "WAITING_APPROVAL"
    BY <2>2 DEF Updates, Stored, TERMINAL
  <2> HIDE DEF u
  <2> QED
    BY <1>3, <2>3, <2>4
<1>6. ASSUME NEW q \in Request, RejectCleanup(r, q)
      PROVE  SerialInv'
  <2>1. ProcStep(r, q, NoProc) /\ file' = file /\ ~Idle(r, q)
    BY <1>6 DEF RejectCleanup, Idle
  <2>2. NoThread(r) /\ file[r].status # "ABSENT"
    BY <1>0, <2>1 DEF SerialRun
  <2>3. EndsWaiting(NoProc)
    BY NewSerial DEF EndsWaiting
  <2> QED
    BY <2>1, <2>2, <2>3, NoProcType, SerialRequestStep
<1> QED
  BY <1>1, <1>2, <1>4, <1>5, <1>6

\* What a thread is about to store lets the run wait only if it ends there.
LEMMA UpdatingSerial ==
    ASSUME NEW k \in Proc, NEW u \in Updates, NEW n,
           "status" \in DOMAIN u /\ u.status = "WAITING_APPROVAL" => n = "idle"
    PROVE  GoesOnRunning(Updating(k, u, n))
<1>1. /\ Updating(k, u, n).pc = "merge" /\ Updating(k, u, n).upd = u
      /\ Updating(k, u, n).next = n
  BY DEF Updating, Proc
<1> QED
  BY <1>1 DEF GoesOnRunning

LEMMA SerialBegin ==
    ASSUME TypeInv, SerialInv, NEW r \in Run, NEW t \in Thread, Begin(r, t)
    PROVE  SerialInv'
<1> DEFINE f == file[r]
           k == [NoProc EXCEPT !.i = f.current, !.steps = f.steps, !.gate = f.gate,
                               !.approved = f.approved]
           u == [status |-> "RUNNING"]
<1>1. f \in File /\ NoProc \in Proc
  BY NoProcType DEF TypeInv, TypeOK, ProcOK
<1>2. k \in Proc
  BY <1>1 DEF Proc, File, Position, Steps
<1>3. u \in Updates /\ u.status # "WAITING_APPROVAL"
  BY DEF Updates, Stored
<1>4. ProcStep(r, t, Updating(k, u, "step")) \/ ProcStep(r, t, NoProc)
  BY DEF Begin
<1>5. file' = file /\ ~Idle(r, t)
  BY DEF Begin, Idle
<1> HIDE DEF k, u
<1>6. ProcOK(t, Updating(k, u, "step")) /\ GoesOnRunning(Updating(k, u, "step"))
  BY <1>2, <1>3, UpdatingType, UpdatingSerial
<1> QED
  BY <1>4, <1>5, <1>6, NoProcType, NewSerial, SerialThreadStep

LEMMA SerialNextStep ==
    ASSUME TypeInv, SerialInv, NEW r \in Run, NEW t \in Thread, NextStep(r, t)
    PROVE  SerialInv'
<1> DEFINE k == proc[r][t]
           i == k.i
           at(s) == [k.steps EXCEPT ![i] = s]
           u1 == [status |-> "SUCCESS", steps |-> k.steps, current |-> i]
           k2 == [k EXCEPT !.steps = at("RUNNING")]
           u2 == [steps |-> at("RUNNING"), current |-> i]
           k3 == [k EXCEPT !.steps = at("SUCCESS"), !.i = i + 1, !.approved = FALSE, !.gate = 0]
           u3 == [steps |-> at("SUCCESS"), current |-> i + 1, approved |-> FALSE, gate |-> 0]
           u4 == [status |-> "WAITING_APPROVAL", steps |-> at("WAITING_APPROVAL"),
                  current |-> i, gate |-> i, approved |-> FALSE]
<1>1. \/ ProcStep(r, t, Updating(k, u1, "idle"))
      \/ ProcStep(r, t, Updating(k2, u2, "exec"))
      \/ ProcStep(r, t, Updating(k3, u3, "step"))
      \/ ProcStep(r, t, Updating(k, u4, "idle"))
  BY DEF NextStep
<1>2. TypeInv' /\ file' = file /\ ~Idle(r, t) /\ k \in Proc
  BY TypeNextStep DEF NextStep, Idle, TypeInv
<1>3. ASSUME NEW l, NEW u, NEW n, ProcStep(r, t, Updating(l, u, n)),
             l \in {k, k2, k3},
             "status" \in DOMAIN u /\ u.status = "WAITING_APPROVAL" => n = "idle"
      PROVE  SerialInv'
  <2>1. proc'[r][t] = Updating(l, u, n)
    BY <1>3 DEF ProcStep, TypeInv
  <2>2. ProcOK(t, Updating(l, u, n))
    BY <1>2, <2>1 DEF TypeInv
  <2>3. /\ Updating(l, u, n).pc = "merge" /\ Updating(l, u, n).upd = u
        /\ Updating(l, u, n).next = n
    BY <1>2, <1>3 DEF Updating, Proc
  <2>4. GoesOnRunning(Updating(l, u, n))
    BY <1>3, <2>3 DEF GoesOnRunning
  <2> HIDE DEF k
  <2> QED
    BY <1>2, <1>3, <2>2, <2>4, SerialThreadStep
<1>4. /\ u1.status # "WAITING_APPROVAL"
      /\ "status" \notin DOMAIN u2 /\ "status" \notin DOMAIN u3
  OBVIOUS
<1> HIDE DEF k, k2, k3, u1, u2, u3, u4
<1> QED
  BY <1>1, <1>3, <1>4

LEMMA SerialExecute ==
    ASSUME TypeInv, SerialInv, NEW r \in Run, NEW t \in Thread, _execute_step(r, t)
    PROVE  SerialInv'
<1> DEFINE k == proc[r][t]
           k1 == [k EXCEPT !.pc = IF Pipeline[k.i] = "shell" THEN "shell" ELSE "wait"]
<1>1. k \in Proc /\ ProcOK(t, k) /\ ~Idle(r, t)
  BY DEF TypeInv, _execute_step, Idle
<1>2. ProcOK(t, k1) /\ k1.pc \in {"wait", "shell"}
  BY <1>1, PipelineAssumption DEF ProcOK, Proc, Executes, _execute_step
<1>3. ProcStep(r, t, k1) /\ file' = file
  BY DEF _execute_step
<1> HIDE DEF k, k1
<1>4. GoesOnRunning(k1)
  BY <1>2 DEF GoesOnRunning
<1> QED
  BY <1>1, <1>2, <1>3, <1>4, SerialThreadStep

LEMMA SerialWait ==
    ASSUME TypeInv, SerialInv, NEW r \in Run, NEW t \in Thread,
           _wait_for_worker_execution(r, t) \/ ShellEnds(r, t)
    PROVE  SerialInv'
<1> DEFINE k == proc[r][t]
<1>1. k \in Proc /\ k.i \in Step /\ ~Idle(r, t)
  BY DEF TypeInv, ProcOK, Executes, _wait_for_worker_execution, ShellEnds, Idle
<1>2. PICK s \in {"SUCCESS", "FAILED"} : ProcStep(r, t, StepDone(k, s))
  BY DEF _wait_for_worker_execution, ShellEnds
<1>3. file' = file
  BY DEF _wait_for_worker_execution, ShellEnds
<1>4. GoesOnRunning(StepDone(k, s))
  <2>1. /\ StepDone(k, s).pc = "merge"
        /\ \/ StepDone(k, s).next = "idle"
           \/ "status" \notin DOMAIN StepDone(k, s).upd
    BY <1>1 DEF StepDone, Updating, Proc
  <2> QED
    BY <2>1 DEF GoesOnRunning
<1> HIDE DEF k
<1>5. ProcOK(t, StepDone(k, s))
  BY <1>1, StepDoneType
<1> QED
  BY <1>1, <1>2, <1>3, <1>4, <1>5, SerialThreadStep

LEMMA SerialRestart == TypeInv /\ SerialInv /\ ServerRestart => SerialInv'
<1> SUFFICES ASSUME TypeInv, SerialInv, ServerRestart, NEW r \in Run
             PROVE  SerialRun(r)'
  BY DEF SerialInv
<1>1. \A p \in Thread \cup Request : proc'[r][p] = NoProc
  BY DEF ServerRestart
<1> QED
  BY <1>1, NewSerial DEF SerialRun, Idle, NoThread

LEMMA SerialInit == Init => SerialInv
<1> SUFFICES ASSUME Init, NEW r \in Run
             PROVE  SerialRun(r)
  BY DEF SerialInv
<1>1. \A p \in Thread \cup Request : proc[r][p] = NoProc
  BY DEF Init
<1>2. file[r].status = "ABSENT"
  BY DEF Init, NewFile
<1> QED
  BY <1>1, <1>2, NewSerial DEF SerialRun, Idle, NoThread

LEMMA SerialNext ==
    ASSUME TypeInv, SerialInv, \A p, q \in Request : p = q, [Next]_vars
    PROVE  SerialInv'
<1>1. CASE UNCHANGED vars
  BY <1>1 DEF SerialInv, SerialRun, Idle, NoThread, vars
<1>2. ASSUME NEW r \in Run, NEW t \in Thread,
             StartTool(r, t) \/ EndTool(r, t) \/ ReportTool(r, t) \/ GiveUp(r, t)
      PROVE  SerialInv'
  <2>1. UNCHANGED <<file, proc>>
    BY <1>2 DEF StartTool, EndTool, ReportTool, GiveUp
  <2> QED
    BY <2>1 DEF SerialInv, SerialRun, Idle, NoThread
<1> QED
  BY <1>1, <1>2, SerialMerge, SerialStore, SerialRoutes, SerialBegin, SerialNextStep,
     SerialExecute, SerialWait, SerialRestart
     DEF Next, RequestStep, ThreadStep

\* If approvals and rejections of a run come one after the other, at most one
\* thread works on the run, whatever deletions and restarts come in between.
THEOREM OneThreadHolds ==
    ASSUME \A p, q \in Request : p = q
    PROVE  Spec => []OneThread
<1>1. Init => TypeInv /\ SerialInv
  BY TypeInit, SerialInit
<1>2. TypeInv /\ SerialInv /\ [Next]_vars => (TypeInv /\ SerialInv)'
  BY TypeNext, SerialNext
<1>3. TypeInv /\ SerialInv => OneThread
  <2> SUFFICES ASSUME SerialInv, NEW r \in Run
               PROVE  Cardinality({t \in Thread : proc[r][t].pc # "idle"}) <= 1
    BY DEF OneThread
  <2> DEFINE S == {t \in Thread : proc[r][t].pc # "idle"}
  <2>1. \A t, u \in S : t = u
    BY DEF SerialInv, SerialRun, Idle
  <2>2. CASE S = {}
    BY <2>2, FS_EmptySet
  <2>3. ASSUME NEW t \in S
        PROVE  Cardinality(S) <= 1
    <3>1. S = {t}
      BY <2>1, <2>3
    <3> HIDE DEF S
    <3> QED
      BY <3>1, FS_Singleton
  <2> QED
    BY <2>2, <2>3
<1> QED
  BY <1>1, <1>2, <1>3, PTL DEF Spec

-----------------------------------------------------------------------------
(* The steps fit the status, if there is one request at a time.  Whoever   *)
(* works on a run is then alone, so what it is about to store still fits   *)
(* the file when it is stored.                                             *)

DoneTo(steps, i) == \A j \in Step : j < i => steps[j] = "SUCCESS"

Progress(steps, i) == DoneTo(steps, i) /\ \A j \in Step : j > i => steps[j] = "PENDING"

CutAt(steps, i, s) ==
    DoneTo(steps, i) /\ steps[i] = s /\ \A j \in Step : j > i => steps[j] = "SKIPPED"

FileFits(f) ==
    /\ f.status = "QUEUED" => Progress(f.steps, f.current)
    /\ f.status = "WAITING_APPROVAL" =>
          /\ f.gate \in Gate /\ f.current = f.gate
          /\ Progress(f.steps, f.gate)
          /\ f.steps[f.gate] = "WAITING_APPROVAL"
    /\ f.status = "SUCCESS" => DoneTo(f.steps, Len(Pipeline) + 1)
    /\ f.status = "FAILED" => \E i \in Step : CutAt(f.steps, i, "FAILED")
    /\ f.status = "REJECTED" => \E i \in Gate : CutAt(f.steps, i, "REJECTED")

\* A file that is left for what comes next.
Leaves(f, next) ==
    /\ FileFits(f)
    /\ next \in {"step", "exec"} => f.status = "RUNNING"
    /\ next = "spawn" => f.status = "QUEUED"

GoesOn(k) ==
    \/ k.pc \in {"step", "exec", "wait", "shell"}
    \/ k.pc \in {"merge", "store"} /\ k.next \in {"step", "exec"}

ProcFits(f, k) ==
    /\ k.pc = "begin" => f.status \in {"QUEUED", "DELETED"}
    /\ k.pc \in {"step", "exec", "wait", "shell"} => f.status \in {"RUNNING", "DELETED"}
    /\ GoesOn(k) => Progress(k.steps, k.i)
    /\ k.pc = "merge" /\ f.status \notin {"ABSENT", "DELETED"} =>
          Leaves(Updated(f, k.upd), k.next)
    /\ k.pc = "store" => Leaves(k.buf, k.next)

FitsInv ==
    \A r \in Run :
        FileFits(file[r]) /\ \A p \in Thread \cup Request : ProcFits(file[r], proc[r][p])

LEMMA NewFits ==
    /\ \A f : ProcFits(f, NoProc)
    /\ FileFits(NewFile) /\ NewFile.status = "QUEUED"
    /\ \A s \in {"ABSENT", "DELETED"} : FileFits([NewFile EXCEPT !.status = s])
    /\ \A f : f.status = "QUEUED" => ProcFits(f, [NoProc EXCEPT !.pc = "begin"])
  BY PipelineFacts
     DEF ProcFits, GoesOn, FileFits, Progress, DoneTo, NoProc, NewFile, Step

\* Who is at work on a run works alone.
LEMMA Alone ==
    ASSUME SerialInv, \A p, q \in Request : p = q, NEW r \in Run,
           NEW p \in Thread \cup Request, ~Idle(r, p),
           NEW y \in Thread \cup Request, y # p
    PROVE  Idle(r, y) /\ \A f : ProcFits(f, proc[r][y])
<1>1. Idle(r, y)
  BY DEF SerialInv, SerialRun, NoThread
<1> QED
  BY <1>1 DEF Idle, ProcFits, GoesOn

LEMMA UpdatedFields ==
    ASSUME NEW u \in Updates, NEW f \in File,
           NEW x \in {"status", "steps", "current", "gate", "approved"}
    PROVE  Updated(f, u)[x] = IF x \in DOMAIN u THEN u[x] ELSE f[x]
<1>1. x \in DOMAIN f
  BY DEF File
<1> QED
  BY <1>1, UpdatedFile

\* A step that leaves the file alone.
LEMMA FitsStep ==
    ASSUME TypeInv, FitsInv, NEW r \in Run, NEW p \in Thread \cup Request, NEW k,
           ProcOK(p, k), ProcStep(r, p, k), file' = file, ProcFits(file[r], k)
    PROVE  FitsInv'
<1>1. \A x \in Run, y \in Thread \cup Request :
          proc'[x][y] = IF x = r /\ y = p THEN k ELSE proc[x][y]
  BY ProcChange
<1> QED
  BY <1>1 DEF FitsInv

\* A call of update_pipeline_run that leaves a file that fits.
LEMMA UpdatingFits ==
    ASSUME NEW k \in Proc, NEW u, NEW n, NEW f,
           n \in {"step", "exec"} => Progress(k.steps, k.i),
           f.status \notin {"ABSENT", "DELETED"} => Leaves(Updated(f, u), n)
    PROVE  ProcFits(f, Updating(k, u, n))
<1>1. /\ Updating(k, u, n).pc = "merge" /\ Updating(k, u, n).upd = u
      /\ Updating(k, u, n).next = n /\ Updating(k, u, n).steps = k.steps
      /\ Updating(k, u, n).i = k.i
  BY DEF Updating, Proc
<1> QED
  BY <1>1 DEF ProcFits, GoesOn

LEMMA FitsMerge ==
    ASSUME TypeInv, SerialInv, FitsInv, NEW r \in Run, NEW p \in Thread \cup Request,
           Merge(r, p)
    PROVE  FitsInv'
<1> DEFINE k == proc[r][p]
           k1 == [k EXCEPT !.pc = "store", !.upd = <<>>, !.buf = Updated(file[r], k.upd)]
           k2 == [k EXCEPT !.pc = k.next, !.upd = <<>>]
<1>1. k \in Proc /\ k.upd \in Updates /\ k.pc = "merge" /\ ProcOK(p, k) /\ file[r] \in File
  BY DEF TypeInv, TypeOK, ProcOK, Merge
<1>2. ProcOK(p, k1) /\ (p \in Thread => ProcOK(p, k2))
  <2>1. Updated(file[r], k.upd) \in File
    BY <1>1, UpdatedFile
  <2> QED
    BY <1>1, <2>1, PipelineAssumption DEF ProcOK, Proc, Executes
<1>3. /\ k1.pc = "store" /\ k1.buf = Updated(file[r], k.upd) /\ k1.next = k.next
      /\ k1.steps = k.steps /\ k1.i = k.i
      /\ k2.pc = k.next /\ k2.steps = k.steps /\ k2.i = k.i
  BY <1>1 DEF Proc
<1>4. ProcFits(file[r], k) /\ file' = file
  BY DEF FitsInv, Merge
<1>5. file[r].status # "ABSENT"
  BY <1>1 DEF SerialInv, SerialRun, Idle
<1>6. \/ ProcStep(r, p, k1) /\ Exists(r)
      \/ ProcStep(r, p, k2) /\ ~Exists(r) /\ p \in Thread /\ k.next # "idle"
      \/ ProcStep(r, p, NoProc)
  BY DEF Merge
<1> HIDE DEF k1, k2
<1>7. Exists(r) => ProcFits(file[r], k1)
  BY <1>1, <1>3, <1>4 DEF ProcFits, GoesOn, Exists
<1>8. ~Exists(r) /\ p \in Thread /\ k.next # "idle" => ProcFits(file[r], k2)
  BY <1>1, <1>3, <1>4, <1>5 DEF ProcFits, GoesOn, Exists, ProcOK
<1> HIDE DEF k
<1> QED
  BY <1>2, <1>4, <1>6, <1>7, <1>8, NoProcType, NewFits, FitsStep

LEMMA FitsStore ==
    ASSUME TypeInv, SerialInv, FitsInv, \A p, q \in Request : p = q,
           NEW r \in Run, NEW p \in Thread \cup Request, Store(r, p)
    PROVE  FitsInv'
<1> DEFINE k == proc[r][p]
           k1 == [k EXCEPT !.pc = k.next, !.buf = NewFile]
           begin == [NoProc EXCEPT !.pc = "begin"]
<1>1. k \in Proc /\ k.pc = "store" /\ ProcOK(p, k) /\ ~Idle(r, p)
  BY DEF TypeInv, Store, Idle
<1>2. \A x \in Run : file'[x] = IF x = r THEN k.buf ELSE file[x]
  BY DEF Store, TypeInv, TypeOK
<1>3. ProcFits(file[r], k) /\ Leaves(k.buf, k.next)
  BY <1>1 DEF FitsInv, ProcFits
<1>4. k1.pc = k.next /\ k1.steps = k.steps /\ k1.i = k.i /\ k1.next = k.next
  BY <1>1 DEF Proc
<1>5. k.next \notin {"idle", "spawn"} => ProcFits(k.buf, k1)
  BY <1>1, <1>3, <1>4 DEF ProcFits, Leaves, GoesOn, ProcOK, Proc
<1>6. k.next = "spawn" => ProcFits(k.buf, begin)
  BY <1>3, NewFits DEF Leaves
<1>7. \A y \in Thread \cup Request :
          y # p => \A f : ProcFits(f, proc[r][y])
  BY <1>1, Alone
<1>8. CASE k.next # "spawn"
  <2>1. PICK n \in {k1, NoProc} :
            ProcStep(r, p, n) /\ ProcFits(k.buf, n)
    BY <1>5, <1>8, NewFits DEF Store
  <2> HIDE DEF k1
  <2>2. \A x \in Run, y \in Thread \cup Request :
            proc'[x][y] = IF x = r /\ y = p THEN n ELSE proc[x][y]
    BY <2>1 DEF ProcStep, TypeInv
  <2> HIDE DEF k
  <2> QED
    BY <1>2, <1>3, <1>7, <2>1, <2>2 DEF FitsInv, Leaves
<1>9. CASE k.next = "spawn"
  <2>1. PICK t \in Thread :
            /\ proc[r][t] = NoProc
            /\ proc' = [proc EXCEPT ![r] = [@ EXCEPT ![p] = NoProc, ![t].pc = "begin"]]
    BY <1>9 DEF Store, FreeThread
  <2>2. p # t
    BY <1>1, <2>1, NoProcType
  <2>3. \A x \in Run, y \in Thread \cup Request :
            proc'[x][y] = IF x # r THEN proc[x][y]
                          ELSE IF y = t THEN begin ELSE IF y = p THEN NoProc ELSE proc[x][y]
    BY <2>1, <2>2 DEF TypeInv
  <2> HIDE DEF k, begin
  <2> QED
    BY <1>2, <1>3, <1>6, <1>7, <1>9, <2>3, NewFits DEF FitsInv, Leaves
<1> QED
  BY <1>8, <1>9

LEMMA FitsRoutes ==
    ASSUME TypeInv, SerialInv, FitsInv, NEW r \in Run,
           \/ trigger_pipeline_run(r) \/ delete_pipeline_run(r)
           \/ \E q \in Request : approve_pipeline_run(r, q) \/ reject_pipeline_run(r, q)
                                     \/ RejectCleanup(r, q)
    PROVE  FitsInv'
<1>0. NoProc \in Proc /\ file[r] \in File /\ FileFits(file[r]) /\ SerialRun(r)
  BY NoProcType DEF SerialInv, FitsInv, ProcOK, TypeInv, TypeOK
<1>1. CASE trigger_pipeline_run(r)
  <2> DEFINE begin == [NoProc EXCEPT !.pc = "begin"]
  <2>1. PICK t \in Thread : ProcStep(r, t, begin)
    BY <1>1 DEF trigger_pipeline_run
  <2>2. ProcOK(t, begin)
    BY <1>0, SpawnType
  <2>3. ProcFits(NewFile, begin) /\ FileFits(NewFile)
    BY NewFits
  <2> HIDE DEF begin
  <2>4. \A x \in Run, y \in Thread \cup Request :
            proc'[x][y] = IF x = r /\ y = t THEN begin ELSE proc[x][y]
    BY <2>1, <2>2, ProcChange
  <2>5. /\ file[r].status = "ABSENT"
        /\ \A x \in Run : file'[x] = IF x = r THEN NewFile ELSE file[x]
    BY <1>1 DEF trigger_pipeline_run, TypeInv, TypeOK
  <2>6. \A y \in Thread \cup Request : ProcFits(NewFile, proc[r][y])
    BY <1>0, <2>5 DEF SerialRun, Idle, ProcFits, GoesOn
  <2> QED
    BY <2>3, <2>4, <2>5, <2>6 DEF FitsInv
<1>2. CASE delete_pipeline_run(r)
  <2> DEFINE new == [NewFile EXCEPT !.status = "DELETED"]
  <2>1. new.status = "DELETED" /\ FileFits(new)
    BY NewFits DEF NewFile
  <2> HIDE DEF new
  <2>2. /\ \A x \in Run : file'[x] = IF x = r THEN new ELSE file[x]
        /\ proc' = proc
    BY <1>2 DEF delete_pipeline_run, TypeInv, TypeOK, new
  <2>3. \A y \in Thread \cup Request : ProcFits(new, proc[r][y])
    BY <2>1 DEF FitsInv, ProcFits
  <2> QED
    BY <2>1, <2>2, <2>3 DEF FitsInv
<1>3. ASSUME NEW q \in Request, NEW u \in Updates, NEW n \in {"spawn", "cleanup"},
             Leaves(Updated(file[r], u), n), file' = file,
             ProcStep(r, q, Updating(NoProc, u, n))
      PROVE  FitsInv'
  <2> DEFINE k == Updating(NoProc, u, n)
  <2>1. q \notin Thread
    BY PipelineAssumption
  <2>2. ProcOK(q, k)
    BY <1>0, <1>3, <2>1, UpdatingType
  <2>3. ProcFits(file[r], k)
    BY <1>0, <1>3, UpdatingFits
  <2> HIDE DEF k
  <2> QED
    BY <1>3, <2>2, <2>3, FitsStep DEF k
<1>4. ASSUME NEW q \in Request, approve_pipeline_run(r, q)
      PROVE  FitsInv'
  <2> DEFINE u == [status |-> "QUEUED", approved |-> TRUE]
             f == Updated(file[r], u)
  <2>1. u \in Updates
    BY DEF Updates, Stored
  <2>2. /\ file[r].status = "WAITING_APPROVAL"
        /\ file' = file /\ ProcStep(r, q, Updating(NoProc, u, "spawn"))
    BY <1>4 DEF approve_pipeline_run, Waiting
  <2>3. /\ f["status"] = "QUEUED" /\ f["steps"] = file[r].steps
        /\ f["current"] = file[r].current
    BY <1>0, <2>1, UpdatedFields
  <2> HIDE DEF u, f
  <2>4. Leaves(f, "spawn")
    BY <1>0, <2>2, <2>3 DEF Leaves, FileFits
  <2> QED
    BY <1>3, <2>1, <2>2, <2>4 DEF f
<1>5. ASSUME NEW q \in Request, reject_pipeline_run(r, q)
      PROVE  FitsInv'
  <2> DEFINE g == file[r].gate
             steps == file[r].steps
             cut == [steps EXCEPT ![g] = "REJECTED"]
             new == IF g = 0 THEN steps ELSE SkipAfter(cut, g)
             u == [status |-> "REJECTED", approved |-> FALSE, steps |-> new]
             f == Updated(file[r], u)
  <2>1. steps \in Steps /\ cut \in Steps
    BY <1>0 DEF File, Steps, StepStatus
  <2>2. new \in Steps
    BY <2>1, SkipType
  <2>3. /\ file[r].status = "WAITING_APPROVAL"
        /\ file' = file /\ ProcStep(r, q, Updating(NoProc, u, "cleanup"))
    BY <1>5 DEF reject_pipeline_run, Waiting
  <2>4. g \in Gate /\ g # 0 /\ Progress(steps, g)
    BY <1>0, <2>3, PipelineFacts DEF FileFits, Step
  <2>5. CutAt(new, g, "REJECTED")
    <3>1. new = SkipAfter(cut, g) /\ g \in Step
      BY <2>4, PipelineFacts
    <3>2. \A j \in Step : cut[j] = IF j = g THEN "REJECTED" ELSE steps[j]
      BY <2>1 DEF Steps
    <3> HIDE DEF new, cut, g
    <3>3. \A j \in Step : new[j] = IF j > g /\ cut[j] = "PENDING" THEN "SKIPPED" ELSE cut[j]
      BY <3>1 DEF SkipAfter
    <3> QED
      BY <2>4, <3>1, <3>2, <3>3, PipelineFacts DEF CutAt, Progress, DoneTo, Step
  <2> HIDE DEF new
  <2>6. u \in Updates
    BY <2>2 DEF Updates, Stored, TERMINAL
  <2>7. f["status"] = "REJECTED" /\ f["steps"] = new
    BY <1>0, <2>6, UpdatedFields
  <2> HIDE DEF u, f, g
  <2>8. Leaves(f, "cleanup")
    BY <2>4, <2>5, <2>7 DEF Leaves, FileFits
  <2> QED
    BY <1>3, <2>3, <2>6, <2>8 DEF f
<1>6. ASSUME NEW q \in Request, RejectCleanup(r, q)
      PROVE  FitsInv'
  <2>1. ProcStep(r, q, NoProc) /\ file' = file
    BY <1>6 DEF RejectCleanup
  <2> QED
    BY <2>1, NoProcType, NewFits, FitsStep
<1> QED
  BY <1>1, <1>2, <1>4, <1>5, <1>6

LEMMA FitsBegin ==
    ASSUME TypeInv, FitsInv, NEW r \in Run, NEW t \in Thread, Begin(r, t)
    PROVE  FitsInv'
<1> DEFINE f == file[r]
           k == [NoProc EXCEPT !.i = f.current, !.steps = f.steps, !.gate = f.gate,
                               !.approved = f.approved]
           u == [status |-> "RUNNING"]
<1>1. f \in File /\ NoProc \in Proc
  BY NoProcType DEF TypeInv, TypeOK, ProcOK
<1>2. k \in Proc /\ k.i = f.current /\ k.steps = f.steps
  BY <1>1 DEF Proc, File, Position, Steps
<1>3. u \in Updates
  BY DEF Updates, Stored
<1>4. \/ ProcStep(r, t, Updating(k, u, "step")) /\ Exists(r)
      \/ ProcStep(r, t, NoProc)
  BY DEF Begin
<1>5. file' = file /\ FileFits(f) /\ f.status \in {"QUEUED", "DELETED"}
  BY DEF Begin, FitsInv, ProcFits
<1>6. Updated(f, u)["status"] = "RUNNING"
  BY <1>1, <1>3, UpdatedFields
<1> HIDE DEF k, u
<1>7. ProcOK(t, Updating(k, u, "step"))
  BY <1>2, <1>3, UpdatingType
<1>8. Exists(r) => ProcFits(f, Updating(k, u, "step"))
  <2>1. Leaves(Updated(f, u), "step")
    BY <1>6 DEF Leaves, FileFits
  <2>2. Exists(r) => Progress(k.steps, k.i)
    BY <1>2, <1>5 DEF FileFits, Exists
  <2> HIDE DEF f
  <2> QED
    BY <1>2, <2>1, <2>2, UpdatingFits
<1> QED
  BY <1>4, <1>5, <1>7, <1>8, NoProcType, NewFits, FitsStep

\* An update without a status leaves a run that runs.
LEMMA StaysRunning ==
    ASSUME NEW u \in Updates, NEW f \in File, f.status = "RUNNING", "status" \notin DOMAIN u,
           NEW n \in {"step", "exec"}
    PROVE  Leaves(Updated(f, u), n)
<1>1. Updated(f, u)["status"] = "RUNNING"
  BY UpdatedFields
<1> QED
  BY <1>1 DEF Leaves, FileFits

LEMMA FitsNextStep ==
    ASSUME TypeInv, FitsInv, NEW r \in Run, NEW t \in Thread, NextStep(r, t)
    PROVE  FitsInv'
<1> DEFINE f == file[r]
           k == proc[r][t]
           i == k.i
           at(s) == [k.steps EXCEPT ![i] = s]
           u1 == [status |-> "SUCCESS", steps |-> k.steps, current |-> i]
           k2 == [k EXCEPT !.steps = at("RUNNING")]
           u2 == [steps |-> at("RUNNING"), current |-> i]
           k3 == [k EXCEPT !.steps = at("SUCCESS"), !.i = i + 1, !.approved = FALSE, !.gate = 0]
           u3 == [steps |-> at("SUCCESS"), current |-> i + 1, approved |-> FALSE, gate |-> 0]
           u4 == [status |-> "WAITING_APPROVAL", steps |-> at("WAITING_APPROVAL"),
                  current |-> i, gate |-> i, approved |-> FALSE]
<1>1. k \in Proc /\ i \in Position /\ k.steps \in Steps /\ f \in File
  <2>1. k \in Proc /\ f \in File
    BY DEF TypeInv, TypeOK
  <2> QED
    BY <2>1 DEF Proc
<1>2. TypeInv' /\ file' = file
  BY TypeNextStep DEF NextStep
<1>3. Progress(k.steps, i) /\ f.status \in {"RUNNING", "DELETED"}
  BY DEF NextStep, FitsInv, ProcFits, GoesOn
<1>4. ASSUME NEW l \in Proc, NEW u, NEW n, ProcStep(r, t, Updating(l, u, n)),
             n \in {"step", "exec"} => Progress(l.steps, l.i),
             f.status # "DELETED" => Leaves(Updated(f, u), n)
      PROVE  FitsInv'
  <2>1. proc'[r][t] = Updating(l, u, n)
    BY <1>4 DEF ProcStep, TypeInv
  <2>2. ProcOK(t, Updating(l, u, n))
    BY <1>2, <2>1 DEF TypeInv
  <2>3. ProcFits(f, Updating(l, u, n))
    BY <1>4, UpdatingFits
  <2> QED
    BY <1>2, <1>4, <2>2, <2>3, FitsStep
<1>5. CASE i > Len(Pipeline)
  <2>1. u1 \in Updates
    BY <1>1 DEF Updates, Stored, TERMINAL
  <2>2. ProcStep(r, t, Updating(k, u1, "idle"))
    BY <1>5 DEF NextStep
  <2>3. Updated(f, u1)["status"] = "SUCCESS" /\ Updated(f, u1)["steps"] = k.steps
    BY <1>1, <2>1, UpdatedFields
  <2>4. DoneTo(k.steps, Len(Pipeline) + 1)
    BY <1>1, <1>3, <1>5, PipelineFacts DEF Progress, DoneTo, Step, Position
  <2> HIDE DEF k, f, u1
  <2>5. Leaves(Updated(f, u1), "idle")
    BY <2>3, <2>4 DEF Leaves, FileFits
  <2> QED
    BY <1>1, <1>4, <2>2, <2>5
<1>6. CASE i \in Step /\ Pipeline[i] # "approval"
  <2>1. at("RUNNING") \in Steps /\ Progress(at("RUNNING"), i)
    BY <1>1, <1>3, <1>6, StepsType, PipelineFacts DEF StepStatus, Progress, DoneTo, Step, Steps
  <2>2. k2 \in Proc /\ k2.i = i /\ k2.steps = at("RUNNING")
    BY <1>1, <2>1 DEF Proc
  <2>3. u2 \in Updates /\ "status" \notin DOMAIN u2
    BY <1>1, <2>1 DEF Updates
  <2>4. ProcStep(r, t, Updating(k2, u2, "exec"))
    BY <1>6, PipelineFacts DEF NextStep, Step
  <2> HIDE DEF k2, u2, f, k
  <2>5. f.status # "DELETED" => Leaves(Updated(f, u2), "exec")
    BY <1>1, <1>3, <2>3, StaysRunning
  <2> QED
    BY <1>4, <2>1, <2>2, <2>4, <2>5
<1>7. CASE i \in Step /\ Pipeline[i] = "approval" /\ Passes(k)
  <2>0. at("SUCCESS") \in Steps
    BY <1>1, <1>7, StepsType DEF StepStatus
  <2>1. Progress(at("SUCCESS"), i + 1) /\ i + 1 \in Position
    BY <1>1, <1>3, <1>7, NextPosition, PipelineFacts DEF Progress, DoneTo, Step, Steps
  <2>2. k3 \in Proc /\ k3.i = i + 1 /\ k3.steps = at("SUCCESS")
    BY <1>1, <2>0, <2>1 DEF Proc
  <2>3. u3 \in Updates /\ "status" \notin DOMAIN u3
    BY <2>0, <2>1 DEF Updates
  <2>4. ProcStep(r, t, Updating(k3, u3, "step"))
    BY <1>7, PipelineFacts DEF NextStep, Step
  <2> HIDE DEF k3, u3, f, k
  <2>5. f.status # "DELETED" => Leaves(Updated(f, u3), "step")
    BY <1>1, <1>3, <2>3, StaysRunning
  <2> QED
    BY <1>4, <2>1, <2>2, <2>4, <2>5
<1>8. CASE i \in Step /\ Pipeline[i] = "approval" /\ ~Passes(k)
  <2> DEFINE new == at("WAITING_APPROVAL")
  <2>1. i \in Gate /\ new \in Steps
    BY <1>1, <1>8, StepsType DEF StepStatus, Gate
  <2>2. \A j \in Step : new[j] = IF j = i THEN "WAITING_APPROVAL" ELSE k.steps[j]
    BY <1>1 DEF Steps
  <2> HIDE DEF new
  <2>3. Progress(new, i) /\ new[i] = "WAITING_APPROVAL"
    BY <1>3, <1>8, <2>2, PipelineFacts DEF Progress, DoneTo, Step
  <2> HIDE DEF k
  <2>4. u4 \in Updates
    BY <1>1, <2>1 DEF Updates, Stored, new
  <2>5. /\ Updated(f, u4)["status"] = "WAITING_APPROVAL" /\ Updated(f, u4)["steps"] = new
        /\ Updated(f, u4)["current"] = i /\ Updated(f, u4)["gate"] = i
    BY <1>1, <2>4, UpdatedFields DEF new
  <2>6. ProcStep(r, t, Updating(k, u4, "idle"))
    BY <1>8, PipelineFacts DEF NextStep, Step, k
  <2> HIDE DEF u4, f
  <2>7. Leaves(Updated(f, u4), "idle")
    BY <2>1, <2>3, <2>5 DEF Leaves, FileFits
  <2> QED
    BY <1>1, <1>4, <2>6, <2>7
<1> QED
  BY <1>1, <1>5, <1>6, <1>7, <1>8, PipelineFacts DEF Position, Step

LEMMA FitsExecute ==
    ASSUME TypeInv, FitsInv, NEW r \in Run, NEW t \in Thread, _execute_step(r, t)
    PROVE  FitsInv'
<1> DEFINE k == proc[r][t]
           k1 == [k EXCEPT !.pc = IF Pipeline[k.i] = "shell" THEN "shell" ELSE "wait"]
<1>1. k \in Proc /\ ProcOK(t, k) /\ ProcFits(file[r], k) /\ k.pc = "exec"
  BY DEF TypeInv, FitsInv, _execute_step
<1>2. ProcOK(t, k1)
  BY <1>1, PipelineAssumption DEF ProcOK, Proc, Executes
<1>3. k1.pc \in {"wait", "shell"} /\ k1.i = k.i /\ k1.steps = k.steps
  BY <1>1 DEF Proc
<1>4. ProcStep(r, t, k1) /\ file' = file
  BY DEF _execute_step
<1> HIDE DEF k, k1
<1>5. ProcFits(file[r], k1)
  BY <1>1, <1>3 DEF ProcFits, GoesOn
<1> QED
  BY <1>2, <1>4, <1>5, FitsStep

LEMMA StepDoneFits ==
    ASSUME NEW k \in Proc, k.i \in Step, NEW s \in {"SUCCESS", "FAILED"}, Progress(k.steps, k.i),
           NEW f \in File, f.status \in {"RUNNING", "DELETED"}
    PROVE  ProcFits(f, StepDone(k, s))
<1> DEFINE steps == [k.steps EXCEPT ![k.i] = s]
           skipped == SkipAfter(steps, k.i)
           k1 == [k EXCEPT !.steps = steps, !.i = @ + 1]
           u1 == [steps |-> steps, current |-> k.i + 1]
           k2 == [k EXCEPT !.steps = skipped]
           u2 == [status |-> "FAILED", steps |-> skipped, current |-> k.i]
<1>0. k.steps \in Steps
  BY DEF Proc
<1>1. /\ steps \in Steps /\ k.i + 1 \in Position /\ k.i \in Position
      /\ \A j \in Step : steps[j] = IF j = k.i THEN s ELSE k.steps[j]
  BY <1>0, StepsType, NextPosition DEF StepStatus, Steps
<1> HIDE DEF steps
<1>2. /\ skipped \in Steps
      /\ \A j \in Step : skipped[j] = IF j > k.i /\ steps[j] = "PENDING" THEN "SKIPPED" ELSE steps[j]
  BY <1>1, SkipType DEF SkipAfter
<1> HIDE DEF skipped
<1>3. s = "SUCCESS" => Progress(steps, k.i + 1)
  BY <1>1, PipelineFacts DEF Progress, DoneTo, Step
<1>4. s = "FAILED" => CutAt(skipped, k.i, "FAILED")
  BY <1>1, <1>2, PipelineFacts DEF Progress, DoneTo, CutAt, Step
<1>5. k1 \in Proc /\ k1.steps = steps /\ k1.i = k.i + 1 /\ k2 \in Proc
  BY <1>1, <1>2 DEF Proc
<1>6. u1 \in Updates /\ "status" \notin DOMAIN u1 /\ u2 \in Updates
  BY <1>1, <1>2 DEF Updates, Stored, TERMINAL
<1>7. Updated(f, u2)["status"] = "FAILED" /\ Updated(f, u2)["steps"] = skipped
  BY <1>6, UpdatedFields
<1>8. StepDone(k, s) = IF s = "SUCCESS" THEN Updating(k1, u1, "step") ELSE Updating(k2, u2, "idle")
  BY DEF StepDone, steps, skipped
<1> HIDE DEF k1, k2, u1, u2
<1>9. CASE s = "SUCCESS"
  <2>1. f.status # "DELETED" => Leaves(Updated(f, u1), "step")
    BY <1>6, StaysRunning
  <2> QED
    BY <1>3, <1>5, <1>8, <1>9, <2>1, UpdatingFits
<1>10. CASE s = "FAILED"
  <2>1. Leaves(Updated(f, u2), "idle")
    BY <1>4, <1>7, <1>10 DEF Leaves, FileFits
  <2> QED
    BY <1>5, <1>8, <1>10, <2>1, UpdatingFits
<1> QED
  BY <1>9, <1>10

LEMMA FitsWait ==
    ASSUME TypeInv, FitsInv, NEW r \in Run, NEW t \in Thread,
           _wait_for_worker_execution(r, t) \/ ShellEnds(r, t)
    PROVE  FitsInv'
<1> DEFINE k == proc[r][t]
<1>1. /\ k \in Proc /\ k.i \in Step /\ file[r] \in File
      /\ Progress(k.steps, k.i) /\ file[r].status \in {"RUNNING", "DELETED"}
  BY DEF TypeInv, TypeOK, ProcOK, Executes, _wait_for_worker_execution, ShellEnds,
         FitsInv, ProcFits, GoesOn
<1>2. PICK s \in {"SUCCESS", "FAILED"} : ProcStep(r, t, StepDone(k, s))
  BY DEF _wait_for_worker_execution, ShellEnds
<1>3. file' = file
  BY DEF _wait_for_worker_execution, ShellEnds
<1> HIDE DEF k
<1>4. ProcOK(t, StepDone(k, s)) /\ ProcFits(file[r], StepDone(k, s))
  BY <1>1, StepDoneType, StepDoneFits
<1> QED
  BY <1>2, <1>3, <1>4, FitsStep

LEMMA FitsNext ==
    ASSUME TypeInv, SerialInv, FitsInv, \A p, q \in Request : p = q, [Next]_vars
    PROVE  FitsInv'
<1>1. CASE UNCHANGED vars
  BY <1>1 DEF FitsInv, vars
<1>2. ASSUME NEW r \in Run, NEW t \in Thread,
             StartTool(r, t) \/ EndTool(r, t) \/ ReportTool(r, t) \/ GiveUp(r, t)
      PROVE  FitsInv'
  <2>1. UNCHANGED <<file, proc>>
    BY <1>2 DEF StartTool, EndTool, ReportTool, GiveUp
  <2> QED
    BY <2>1 DEF FitsInv
<1>3. CASE ServerRestart
  BY <1>3, NewFits DEF FitsInv, ServerRestart
<1> QED
  BY <1>1, <1>2, <1>3, FitsMerge, FitsStore, FitsRoutes, FitsBegin, FitsNextStep,
     FitsExecute, FitsWait
     DEF Next, RequestStep, ThreadStep

\* If approvals and rejections of a run come one after the other, the status of
\* a run agrees with those of its steps, whatever deletions and restarts come in
\* between (update_pipeline_run lays updates over what it has read).
THEOREM StatusFitsStepsHolds ==
    ASSUME \A p, q \in Request : p = q
    PROVE  Spec => []StatusFitsSteps
<1>1. Init => TypeInv /\ SerialInv /\ FitsInv
  <2>1. Init => FitsInv
    BY NewFits DEF Init, FitsInv
  <2> QED
    BY <2>1, TypeInit, SerialInit
<1>2. TypeInv /\ SerialInv /\ FitsInv /\ [Next]_vars => (TypeInv /\ SerialInv /\ FitsInv)'
  BY TypeNext, SerialNext, FitsNext
<1>3. FitsInv => StatusFitsSteps
  <2> SUFFICES ASSUME FitsInv, NEW r \in Run
               PROVE  /\ file[r].status = "WAITING_APPROVAL" =>
                            /\ DoneTo(file[r].steps, file[r].gate)
                            /\ file[r].steps[file[r].gate] = "WAITING_APPROVAL"
                      /\ file[r].status = "FAILED" =>
                            \E i \in Step : CutAt(file[r].steps, i, "FAILED")
                      /\ file[r].status = "REJECTED" =>
                            \E i \in Gate : CutAt(file[r].steps, i, "REJECTED")
                      /\ file[r].status = "SUCCESS" => DoneTo(file[r].steps, Len(Pipeline) + 1)
    BY DEF StatusFitsSteps, DoneTo, CutAt
  <2> QED
    BY DEF FitsInv, FileFits, Progress
<1> QED
  BY <1>1, <1>2, <1>3, PTL DEF Spec
-----------------------------------------------------------------------------
(* After a reject, if there is one request at a time: the run has a final  *)
(* status, and nobody works on it but the clean-up.                        *)

\* A reject stores nothing but the rejection.
Rejects(k) ==
    /\ k.pc = "merge" /\ k.next = "cleanup" => "status" \in DOMAIN k.upd /\ k.upd.status = "REJECTED"
    /\ k.pc = "store" /\ k.next = "cleanup" => k.buf.status = "REJECTED"

RejectInv ==
    \A r \in Run :
        /\ \A p \in Thread \cup Request : Rejects(proc[r][p])
        /\ r \in rejected =>
              /\ file[r].status \in {"REJECTED", "DELETED"}
              /\ \A p \in Thread \cup Request : proc[r][p].pc \in {"idle", "cleanup"}

\* A step of one thread or request that leaves the file alone.
LEMMA RejectStep ==
    ASSUME TypeInv, RejectInv, NEW r \in Run, NEW p \in Thread \cup Request, NEW k,
           ProcStep(r, p, k), Rejects(k), r \in rejected => k.pc \in {"idle", "cleanup"},
           UNCHANGED <<file, rejected>>
    PROVE  RejectInv'
<1>1. \A x \in Run, y \in Thread \cup Request :
         proc'[x][y] = IF x = r /\ y = p THEN k ELSE proc[x][y]
  BY DEF ProcStep, TypeInv
<1>2. \A x \in Run, y \in Thread \cup Request : Rejects(proc'[x][y])
  BY <1>1 DEF RejectInv
<1>3. ASSUME NEW x \in Run, x \in rejected
      PROVE  /\ file[x].status \in {"REJECTED", "DELETED"}
             /\ \A y \in Thread \cup Request : proc'[x][y].pc \in {"idle", "cleanup"}
  BY <1>1, <1>3 DEF RejectInv
<1> QED
  BY <1>2, <1>3 DEF RejectInv, Rejects

LEMMA RejectMerge ==
    ASSUME TypeInv, RejectInv, NEW r \in Run, NEW p \in Thread \cup Request, Merge(r, p)
    PROVE  RejectInv'
<1> DEFINE k == proc[r][p]
           k1 == [k EXCEPT !.pc = "store", !.upd = <<>>, !.buf = Updated(file[r], k.upd)]
           k2 == [k EXCEPT !.pc = k.next, !.upd = <<>>]
<1>1. /\ k \in Proc /\ ProcOK(p, k) /\ k.pc = "merge" /\ file[r] \in File
      /\ Rejects(k) /\ r \notin rejected
  BY DEF TypeInv, TypeOK, Merge, RejectInv
<1>2. /\ Updated(file[r], k.upd) \in File
      /\ "status" \in DOMAIN k.upd => Updated(file[r], k.upd)["status"] = k.upd["status"]
  BY <1>1, UpdatedFile DEF ProcOK
<1>3. /\ k1.pc = "store" /\ k1.buf = Updated(file[r], k.upd) /\ k1.next = k.next
      /\ k2.pc = k.next
  BY <1>1, <1>2 DEF Proc
<1>4. \/ ProcStep(r, p, k1)
      \/ ProcStep(r, p, k2) /\ p \in Thread
      \/ ProcStep(r, p, NoProc)
  BY DEF Merge
<1>5. Rejects(k1) /\ (p \in Thread => Rejects(k2)) /\ Rejects(NoProc)
  BY <1>1, <1>2, <1>3, NoProcType DEF Rejects, ProcOK
<1>6. UNCHANGED <<file, rejected>>
  BY DEF Merge
<1> HIDE DEF k, k1, k2
<1> QED
  BY <1>1, <1>4, <1>5, <1>6, RejectStep

LEMMA RejectStore ==
    ASSUME TypeInv, SerialInv, RejectInv, \A p, q \in Request : p = q,
           NEW r \in Run, NEW p \in Thread \cup Request, Store(r, p)
    PROVE  RejectInv'
<1> DEFINE k == proc[r][p]
           k1 == [k EXCEPT !.pc = k.next, !.buf = NewFile]
           begin == [NoProc EXCEPT !.pc = "begin"]
<1>1. k \in Proc /\ k.pc = "store" /\ ~Idle(r, p) /\ Rejects(k) /\ r \notin rejected
  BY DEF TypeInv, Store, Idle, RejectInv
<1>2. /\ \A x \in Run : file'[x] = IF x = r THEN k.buf ELSE file[x]
      /\ rejected' = IF k.next = "cleanup" THEN rejected \cup {r} ELSE rejected
  BY DEF Store, TypeInv, TypeOK
<1>3. k1.pc = k.next /\ k.next \in {"idle", "step", "exec", "spawn", "cleanup"}
      /\ NoProc.pc = "idle" /\ begin.pc = "begin"
  BY <1>1, NoProcType DEF Proc, ProcOK
<1>4. \A y \in Thread \cup Request : y # p => Idle(r, y)
  BY <1>1, Alone
<1>5. CASE k.next # "spawn"
  <2>1. PICK n \in {k1, NoProc} : ProcStep(r, p, n)
    BY <1>5 DEF Store
  <2>2. n.pc \in {"idle", "step", "exec", "cleanup"}
    BY <1>3, <1>5
  <2> HIDE DEF k1
  <2>3. \A x \in Run, y \in Thread \cup Request :
            proc'[x][y] = IF x = r /\ y = p THEN n ELSE proc[x][y]
    BY <2>1 DEF ProcStep, TypeInv
  <2>4. \A x \in Run, y \in Thread \cup Request : Rejects(proc'[x][y])
    BY <2>2, <2>3 DEF RejectInv, Rejects
  <2>5. n = NoProc \/ n.pc = k.next
    BY <1>3, <2>1
  <2>6. ASSUME NEW x \in Run, x \in rejected'
        PROVE  /\ file'[x].status \in {"REJECTED", "DELETED"}
               /\ \A y \in Thread \cup Request : proc'[x][y].pc \in {"idle", "cleanup"}
    <3>1. CASE x = r
      <4>1. k.next = "cleanup" /\ k.buf.status = "REJECTED"
        BY <1>1, <1>2, <2>6, <3>1 DEF Rejects
      <4>2. n.pc \in {"idle", "cleanup"}
        BY <1>3, <2>5, <4>1
      <4> QED
        BY <1>2, <1>4, <2>3, <3>1, <4>1, <4>2 DEF Idle
    <3>2. CASE x # r
      BY <1>2, <2>3, <2>6, <3>2 DEF RejectInv
    <3> QED
      BY <3>1, <3>2
  <2> QED
    BY <2>4, <2>6 DEF RejectInv, Rejects
<1>6. CASE k.next = "spawn"
  <2>1. PICK t \in Thread :
            /\ proc[r][t] = NoProc
            /\ proc' = [proc EXCEPT ![r] = [@ EXCEPT ![p] = NoProc, ![t].pc = "begin"]]
    BY <1>6 DEF Store, FreeThread
  <2>2. p # t
    BY <1>1, <1>3, <2>1
  <2>3. \A x \in Run, y \in Thread \cup Request :
            proc'[x][y] = IF x # r THEN proc[x][y]
                          ELSE IF y = t THEN begin ELSE IF y = p THEN NoProc ELSE proc[x][y]
    BY <2>1, <2>2 DEF TypeInv
  <2> HIDE DEF k, begin
  <2>4. \A x \in Run, y \in Thread \cup Request : Rejects(proc'[x][y])
    BY <1>3, <2>3 DEF RejectInv, Rejects
  <2>5. ASSUME NEW x \in Run, x \in rejected'
        PROVE  /\ file'[x].status \in {"REJECTED", "DELETED"}
               /\ \A y \in Thread \cup Request : proc'[x][y].pc \in {"idle", "cleanup"}
    BY <1>1, <1>2, <1>6, <2>3, <2>5 DEF RejectInv
  <2> QED
    BY <2>4, <2>5 DEF RejectInv, Rejects
<1> QED
  BY <1>5, <1>6

LEMMA RejectRoutes ==
    ASSUME TypeInv, SerialInv, RejectInv, NEW r \in Run,
           \/ trigger_pipeline_run(r) \/ delete_pipeline_run(r)
           \/ \E q \in Request : approve_pipeline_run(r, q) \/ reject_pipeline_run(r, q)
                                     \/ RejectCleanup(r, q)
    PROVE  RejectInv'
<1>0. NoProc \in Proc /\ NoProc.pc = "idle" /\ \A k : k.pc \notin {"merge", "store"} => Rejects(k)
  BY NoProcType DEF ProcOK, Rejects
<1>1. CASE trigger_pipeline_run(r)
  <2> DEFINE begin == [NoProc EXCEPT !.pc = "begin"]
  <2>1. PICK t \in Thread : ProcStep(r, t, begin)
    BY <1>1 DEF trigger_pipeline_run
  <2>2. begin.pc = "begin"
    BY <1>0 DEF Proc
  <2> HIDE DEF begin
  <2>3. \A x \in Run, y \in Thread \cup Request :
            proc'[x][y] = IF x = r /\ y = t THEN begin ELSE proc[x][y]
    BY <2>1 DEF ProcStep, TypeInv
  <2>4. /\ file[r].status = "ABSENT" /\ rejected' = rejected
        /\ \A x \in Run : x # r => file'[x] = file[x]
    BY <1>1 DEF trigger_pipeline_run, TypeInv, TypeOK
  <2>5. r \notin rejected
    BY <2>4 DEF RejectInv
  <2>6. Rejects(begin)
    BY <1>0, <2>2
  <2>7. \A x \in Run, y \in Thread \cup Request : Rejects(proc'[x][y])
    BY <2>3, <2>6 DEF RejectInv
  <2>8. \A x \in rejected' : x \in Run =>
            /\ file'[x].status \in {"REJECTED", "DELETED"}
            /\ \A y \in Thread \cup Request : proc'[x][y].pc \in {"idle", "cleanup"}
    BY <2>3, <2>4, <2>5 DEF RejectInv
  <2> QED
    BY <2>7, <2>8 DEF RejectInv, Rejects
<1>2. CASE delete_pipeline_run(r)
  <2>1. /\ UNCHANGED <<proc, rejected>>
        /\ \A x \in Run : file'[x].status = IF x = r THEN "DELETED" ELSE file[x].status
    BY <1>2 DEF delete_pipeline_run, TypeInv, TypeOK, NewFile
  <2> QED
    BY <2>1 DEF RejectInv, Rejects
<1>3. ASSUME NEW q \in Request, approve_pipeline_run(r, q)
      PROVE  RejectInv'
  <2> DEFINE u == [status |-> "QUEUED", approved |-> TRUE]
             k == Updating(NoProc, u, "spawn")
  <2>1. k.pc = "merge" /\ k.next = "spawn"
    BY <1>0 DEF Updating, Proc
  <2>2. ProcStep(r, q, k) /\ file[r].status = "WAITING_APPROVAL" /\ UNCHANGED <<file, rejected>>
    BY <1>3 DEF approve_pipeline_run, Waiting
  <2> HIDE DEF k
  <2>3. Rejects(k) /\ r \notin rejected
    BY <2>1, <2>2 DEF Rejects, RejectInv
  <2> QED
    BY <2>2, <2>3, RejectStep
<1>4. ASSUME NEW q \in Request, reject_pipeline_run(r, q)
      PROVE  RejectInv'
  <2> DEFINE new == IF file[r].gate = 0 THEN file[r].steps
                    ELSE SkipAfter([file[r].steps EXCEPT ![file[r].gate] = "REJECTED"], file[r].gate)
             u == [status |-> "REJECTED", approved |-> FALSE, steps |-> new]
             k == Updating(NoProc, u, "cleanup")
  <2>1. k.pc = "merge" /\ k.next = "cleanup" /\ k.upd = u
    BY <1>0 DEF Updating, Proc
  <2>2. ProcStep(r, q, k) /\ file[r].status = "WAITING_APPROVAL" /\ UNCHANGED <<file, rejected>>
    BY <1>4 DEF reject_pipeline_run, Waiting
  <2>3. "status" \in DOMAIN u /\ u.status = "REJECTED"
    OBVIOUS
  <2> HIDE DEF k, u
  <2>4. Rejects(k) /\ r \notin rejected
    BY <2>1, <2>2, <2>3 DEF Rejects, RejectInv
  <2> QED
    BY <2>2, <2>4, RejectStep
<1>5. ASSUME NEW q \in Request, RejectCleanup(r, q)
      PROVE  RejectInv'
  <2>1. ProcStep(r, q, NoProc) /\ UNCHANGED <<file, rejected>>
    BY <1>5 DEF RejectCleanup
  <2> QED
    BY <1>0, <2>1, RejectStep
<1> QED
  BY <1>1, <1>2, <1>3, <1>4, <1>5

\* Threads make no rejections, and none works on a rejected run.
LEMMA RejectThread ==
    ASSUME TypeInv, RejectInv, NEW r \in Run, NEW t \in Thread,
           \/ Begin(r, t) \/ NextStep(r, t) \/ _execute_step(r, t)
           \/ _wait_for_worker_execution(r, t) \/ ShellEnds(r, t)
    PROVE  RejectInv'
<1>1. UNCHANGED <<file, rejected>> /\ r \notin rejected
      /\ \A x \in Run, y \in Thread \cup Request : ~(x = r /\ y = t) => proc'[x][y] = proc[x][y]
  <2>1. UNCHANGED <<file, rejected>> /\ proc[r][t].pc \notin {"idle", "cleanup"}
    BY DEF Begin, NextStep, _execute_step, _wait_for_worker_execution, ShellEnds
  <2>2. \E k : ProcStep(r, t, k)
    BY DEF Begin, NextStep, _execute_step, _wait_for_worker_execution, ShellEnds
  <2> QED
    BY <2>1, <2>2 DEF RejectInv, ProcStep, TypeInv
<1>2. TypeInv'
  BY TypeBegin, TypeNextStep, TypeExecute, TypeWait
<1>3. Rejects(proc'[r][t])
  <2>1. ProcOK(t, proc'[r][t])
    BY <1>2 DEF TypeInv
  <2> QED
    BY <2>1 DEF ProcOK, Rejects
<1>4. \A x \in Run, y \in Thread \cup Request : Rejects(proc'[x][y])
  BY <1>1, <1>3 DEF RejectInv
<1>5. \A x \in Run : x \in rejected' =>
          /\ file'[x].status \in {"REJECTED", "DELETED"}
          /\ \A y \in Thread \cup Request : proc'[x][y].pc \in {"idle", "cleanup"}
  BY <1>1 DEF RejectInv
<1> QED
  BY <1>4, <1>5 DEF RejectInv, Rejects

LEMMA RejectNext ==
    ASSUME TypeInv, SerialInv, RejectInv, \A p, q \in Request : p = q, [Next]_vars
    PROVE  RejectInv'
<1>1. CASE UNCHANGED vars
  BY <1>1 DEF RejectInv, vars, Rejects
<1>2. ASSUME NEW r \in Run, NEW t \in Thread,
             StartTool(r, t) \/ EndTool(r, t) \/ ReportTool(r, t) \/ GiveUp(r, t)
      PROVE  RejectInv'
  <2>1. UNCHANGED <<file, proc, rejected>>
    BY <1>2 DEF StartTool, EndTool, ReportTool, GiveUp
  <2> QED
    BY <2>1 DEF RejectInv, Rejects
<1>3. CASE ServerRestart
  <2>1. UNCHANGED <<file, rejected>> /\ \A x \in Run, y \in Thread \cup Request : proc'[x][y] = NoProc
    BY <1>3 DEF ServerRestart
  <2> QED
    BY <2>1, NoProcType DEF RejectInv, Rejects
<1> QED
  BY <1>1, <1>2, <1>3, RejectMerge, RejectStore, RejectRoutes, RejectThread
     DEF Next, RequestStep, ThreadStep

\* Only a thread that has come to a step queues an execution.
LEMMA RejectQueues ==
    ASSUME TypeInv, RejectInv, [Next]_vars, NEW r \in Run, r \in rejected, NEW t \in Thread,
           job'[r][t].state = "queued"
    PROVE  job[r][t].state = "queued"
<1>1. \A x \in Thread : ~_execute_step(r, x)
  BY DEF RejectInv, _execute_step
<1>2. ASSUME NEW x \in Run, NEW y \in Thread, NEW j, JobStep(x, y, j), j.state # "queued"
      PROVE  job[r][t].state = "queued"
  BY <1>2 DEF JobStep, TypeInv, TypeOK
<1>3. ASSUME NEW x \in Run, NEW y \in Thread,
             StartTool(x, y) \/ EndTool(x, y) \/ ReportTool(x, y) \/ GiveUp(x, y)
      PROVE  job[r][t].state = "queued"
  <2>1. job[x][y] \in Job
    BY DEF TypeInv, TypeOK
  <2>2. CASE StartTool(x, y)
    <3>1. /\ [job[x][y] EXCEPT !.state = "FAILED"].state = "FAILED"
          /\ [job[x][y] EXCEPT !.state = "running", !.tool = "running"].state = "running"
      BY <2>1 DEF Job
    <3> QED
      BY <1>2, <2>2, <3>1 DEF StartTool
  <2>3. CASE EndTool(x, y)
    <3>1. PICK result \in {"SUCCESS", "FAILED"} : JobStep(x, y, [job[x][y] EXCEPT !.tool = result])
      BY <2>3 DEF EndTool
    <3>2. [job[x][y] EXCEPT !.tool = result].state = job[x][y].state
      BY <2>1 DEF Job
    <3> QED
      BY <3>1, <3>2 DEF JobStep, TypeInv, TypeOK
  <2>4. CASE ReportTool(x, y)
    <3> DEFINE state == IF job[x][y].state = "running" THEN job[x][y].tool ELSE job[x][y].state
    <3>1. JobStep(x, y, [job[x][y] EXCEPT !.tool = "none", !.state = state])
          /\ (state = "queued" => job[x][y].state = "queued")
      BY <2>1, <2>4 DEF ReportTool, Job
    <3> HIDE DEF state
    <3>2. [job[x][y] EXCEPT !.tool = "none", !.state = state].state = state
      BY <2>1 DEF Job
    <3> QED
      BY <3>1, <3>2 DEF JobStep, TypeInv, TypeOK
  <2>5. CASE GiveUp(x, y)
    <3>1. [job[x][y] EXCEPT !.state = "FAILED"].state = "FAILED"
      BY <2>1 DEF Job
    <3> QED
      BY <1>2, <2>5, <3>1 DEF GiveUp
  <2> QED
    BY <1>3, <2>2, <2>3, <2>4, <2>5
<1>4. ASSUME NEW x \in Run, NEW y \in Thread, _execute_step(x, y)
      PROVE  job[r][t].state = "queued"
  BY <1>1, <1>4 DEF _execute_step, TypeInv, TypeOK
<1>5. ASSUME NEW x \in Run, NEW y \in Thread,
             Begin(x, y) \/ NextStep(x, y) \/ _wait_for_worker_execution(x, y) \/ ShellEnds(x, y)
      PROVE  job' = job
  <2>1. CASE Begin(x, y)
    BY <2>1 DEF Begin
  <2>2. CASE NextStep(x, y)
    BY <2>2 DEF NextStep
  <2>3. CASE _wait_for_worker_execution(x, y) \/ ShellEnds(x, y)
    BY <2>3 DEF _wait_for_worker_execution, ShellEnds
  <2> QED
    BY <1>5, <2>1, <2>2, <2>3
<1>6. ASSUME NEW x \in Run, NEW p \in Thread \cup Request, Merge(x, p) \/ Store(x, p)
      PROVE  job' = job
  BY <1>6 DEF Merge, Store
<1>7. ASSUME NEW x \in Run, NEW q \in Request,
             approve_pipeline_run(x, q) \/ reject_pipeline_run(x, q) \/ RejectCleanup(x, q)
      PROVE  job' = job
  BY <1>7 DEF approve_pipeline_run, reject_pipeline_run, RejectCleanup
<1>8. ASSUME NEW x \in Run, trigger_pipeline_run(x) \/ delete_pipeline_run(x)
      PROVE  job' = job
  BY <1>8 DEF trigger_pipeline_run, delete_pipeline_run
<1>9. ServerRestart \/ UNCHANGED vars => job' = job
  BY DEF ServerRestart, vars
<1>10. \/ job' = job
       \/ \E x \in Run, y \in Thread :
             \/ StartTool(x, y) \/ EndTool(x, y) \/ ReportTool(x, y) \/ GiveUp(x, y)
             \/ _execute_step(x, y)
  BY <1>5, <1>6, <1>7, <1>8, <1>9 DEF Next, RequestStep, ThreadStep
<1> QED
  BY <1>3, <1>4, <1>10

LEMMA RejectedStay ==
    ASSUME [Next]_vars
    PROVE  rejected \subseteq rejected'
<1>1. ASSUME NEW r \in Run, NEW t \in Thread,
             \/ Begin(r, t) \/ NextStep(r, t) \/ _execute_step(r, t)
             \/ _wait_for_worker_execution(r, t) \/ ShellEnds(r, t)
             \/ StartTool(r, t) \/ EndTool(r, t) \/ ReportTool(r, t) \/ GiveUp(r, t)
      PROVE  rejected \subseteq rejected'
  BY <1>1 DEF Begin, NextStep, _execute_step, _wait_for_worker_execution, ShellEnds, StartTool,
              EndTool, ReportTool, GiveUp
<1>2. ASSUME NEW r \in Run, NEW p \in Thread \cup Request, Merge(r, p) \/ Store(r, p)
      PROVE  rejected \subseteq rejected'
  BY <1>2 DEF Merge, Store
<1>3. ASSUME NEW r \in Run, NEW q \in Request,
             approve_pipeline_run(r, q) \/ reject_pipeline_run(r, q) \/ RejectCleanup(r, q)
      PROVE  rejected \subseteq rejected'
  BY <1>3 DEF approve_pipeline_run, reject_pipeline_run, RejectCleanup
<1>4. ASSUME NEW r \in Run, trigger_pipeline_run(r) \/ delete_pipeline_run(r)
      PROVE  rejected \subseteq rejected'
  BY <1>4 DEF trigger_pipeline_run, delete_pipeline_run
<1>5. CASE ServerRestart \/ UNCHANGED vars
  BY <1>5 DEF ServerRestart, vars
<1> QED
  BY <1>1, <1>2, <1>3, <1>4, <1>5 DEF Next, RequestStep, ThreadStep

\* If approvals and rejections of a run come one after the other, no step of a
\* run starts after its rejection has been reported, whatever deletions and
\* restarts come in between: only an approve that was admitted before the reject
\* can bring a rejected run back (approve_pipeline_run, reject_pipeline_run).
THEOREM SerialRejectHolds ==
    ASSUME \A p, q \in Request : p = q
    PROVE  Spec => RejectedRunsNoStep
<1>1. Init => TypeInv /\ SerialInv /\ RejectInv
  <2>1. Init => RejectInv
    BY NoProcType DEF Init, RejectInv, Rejects
  <2> QED
    BY <2>1, TypeInit, SerialInit
<1>2. TypeInv /\ SerialInv /\ RejectInv /\ [Next]_vars => (TypeInv /\ SerialInv /\ RejectInv)'
  BY TypeNext, SerialNext, RejectNext
<1>3. TypeInv /\ SerialInv /\ RejectInv /\ [Next]_vars
      => [\A r \in rejected, t \in Thread :
             /\ job'[r][t].state = "queued" => job[r][t].state = "queued"
             /\ proc'[r][t].pc = "shell" => proc[r][t].pc = "shell"]_vars
  <2> SUFFICES ASSUME TypeInv, SerialInv, RejectInv, [Next]_vars,
                      NEW r \in rejected, NEW t \in Thread
               PROVE  /\ job'[r][t].state = "queued" => job[r][t].state = "queued"
                      /\ proc'[r][t].pc # "shell"
    OBVIOUS
  <2>1. r \in Run /\ r \in rejected'
    BY RejectedStay DEF TypeInv, TypeOK
  <2>2. proc'[r][t].pc \in {"idle", "cleanup"}
    BY <2>1, RejectNext DEF RejectInv
  <2> QED
    BY <2>1, <2>2, RejectQueues
<1> QED
  BY <1>1, <1>2, <1>3, PTL DEF Spec, RejectedRunsNoStep

-----------------------------------------------------------------------------
(* Any number of gates, if there is one request at a time: a gate that the *)
(* steps say was passed has been granted, and so has the one at which      *)
(* "approved" is set, in the file and in every copy of it.                 *)

\* f: a file, or what a thread or a request remembers of it.
Granted(G, f) ==
    /\ \A g \in Gate : f.steps[g] = "SUCCESS" => g \in G
    /\ f.approved => f.gate \in G \cup {0}

ProcGranted(G, f, k) ==
    /\ Granted(G, k)
    /\ k.pc = "merge" /\ f.status \notin {"ABSENT", "DELETED"} => Granted(G, Updated(f, k.upd))
    /\ k.pc = "store" => Granted(G, k.buf)

GrantInv ==
    \A r \in Run :
        /\ Granted(granted[r], file[r])
        /\ \A p \in Thread \cup Request : ProcGranted(granted[r], file[r], proc[r][p])

LEMMA NewGranted ==
    /\ \A G : Granted(G, NewFile) /\ \A s : Granted(G, [NewFile EXCEPT !.status = s])
    /\ \A G, f : ProcGranted(G, f, NoProc)
    /\ \A G, f : ProcGranted(G, f, [NoProc EXCEPT !.pc = "begin"])
  BY PipelineFacts DEF Granted, ProcGranted, NewFile, NoProc

\* An update that does not approve.
LEMMA UpdatedGranted ==
    ASSUME NEW u \in Updates, NEW f \in File, NEW G, Granted(G, f),
           "steps" \in DOMAIN u => \A g \in Gate : u.steps[g] = "SUCCESS" => g \in G,
           "approved" \in DOMAIN u => ~u.approved
    PROVE  Granted(G, Updated(f, u))
<1>1. /\ Updated(f, u)["steps"] = IF "steps" \in DOMAIN u THEN u.steps ELSE f.steps
      /\ Updated(f, u)["approved"] = IF "approved" \in DOMAIN u THEN u.approved ELSE f.approved
      /\ Updated(f, u)["gate"] = IF "gate" \in DOMAIN u THEN u.gate ELSE f.gate
  BY UpdatedFields
<1>2. "gate" \in DOMAIN u => "approved" \in DOMAIN u
  BY DEF Updates
<1> QED
  BY <1>1, <1>2 DEF Granted

LEMMA UpdatingGranted ==
    ASSUME NEW k \in Proc, NEW u, NEW n, NEW f, NEW G, Granted(G, k),
           f.status \notin {"ABSENT", "DELETED"} => Granted(G, Updated(f, u))
    PROVE  ProcGranted(G, f, Updating(k, u, n))
<1>1. /\ Updating(k, u, n).pc = "merge" /\ Updating(k, u, n).upd = u
      /\ Updating(k, u, n).steps = k.steps /\ Updating(k, u, n).gate = k.gate
      /\ Updating(k, u, n).approved = k.approved
  BY DEF Updating, Proc
<1> QED
  BY <1>1 DEF ProcGranted, Granted

\* A step that leaves the file and the grants alone.
LEMMA GrantStep ==
    ASSUME TypeInv, GrantInv, NEW r \in Run, NEW p \in Thread \cup Request, NEW k,
           ProcOK(p, k), ProcStep(r, p, k), UNCHANGED <<file, granted>>,
           ProcGranted(granted[r], file[r], k)
    PROVE  GrantInv'
<1>1. \A x \in Run, y \in Thread \cup Request :
          proc'[x][y] = IF x = r /\ y = p THEN k ELSE proc[x][y]
  BY ProcChange
<1> QED
  BY <1>1 DEF GrantInv

LEMMA GrantMerge ==
    ASSUME TypeInv, GrantInv, NEW r \in Run, NEW p \in Thread \cup Request, Merge(r, p)
    PROVE  GrantInv'
<1> DEFINE k == proc[r][p]
           k1 == [k EXCEPT !.pc = "store", !.upd = <<>>, !.buf = Updated(file[r], k.upd)]
           k2 == [k EXCEPT !.pc = k.next, !.upd = <<>>]
<1>1. k \in Proc /\ k.upd \in Updates /\ k.pc = "merge" /\ ProcOK(p, k) /\ file[r] \in File
  BY DEF TypeInv, TypeOK, ProcOK, Merge
<1>2. ProcOK(p, k1) /\ (p \in Thread => ProcOK(p, k2))
  <2>1. Updated(file[r], k.upd) \in File
    BY <1>1, UpdatedFile
  <2> QED
    BY <1>1, <2>1, PipelineAssumption DEF ProcOK, Proc, Executes
<1>3. /\ k1.pc = "store" /\ k1.buf = Updated(file[r], k.upd)
      /\ k1.steps = k.steps /\ k1.gate = k.gate /\ k1.approved = k.approved
      /\ k2.pc = k.next /\ k.next \notin {"merge", "store"}
      /\ k2.steps = k.steps /\ k2.gate = k.gate /\ k2.approved = k.approved
  BY <1>1 DEF Proc
<1>4. ProcGranted(granted[r], file[r], k) /\ UNCHANGED <<file, granted>>
  BY DEF GrantInv, Merge
<1>5. \/ ProcStep(r, p, k1) /\ Exists(r)
      \/ ProcStep(r, p, k2) /\ p \in Thread
      \/ ProcStep(r, p, NoProc)
  BY DEF Merge
<1> HIDE DEF k1, k2
<1>6. Exists(r) => ProcGranted(granted[r], file[r], k1)
  BY <1>1, <1>3, <1>4 DEF ProcGranted, Granted, Exists
<1>7. ProcGranted(granted[r], file[r], k2)
  BY <1>1, <1>3, <1>4 DEF ProcGranted, Granted
<1> HIDE DEF k
<1> QED
  BY <1>2, <1>4, <1>5, <1>6, <1>7, NoProcType, NewGranted, GrantStep

LEMMA GrantStore ==
    ASSUME TypeInv, SerialInv, GrantInv, \A p, q \in Request : p = q,
           NEW r \in Run, NEW p \in Thread \cup Request, Store(r, p)
    PROVE  GrantInv'
<1> DEFINE k == proc[r][p]
           k1 == [k EXCEPT !.pc = k.next, !.buf = NewFile]
           begin == [NoProc EXCEPT !.pc = "begin"]
<1>1. k \in Proc /\ k.pc = "store" /\ ~Idle(r, p)
  BY DEF TypeInv, Store, Idle
<1>2. granted' = granted /\ \A x \in Run : file'[x] = IF x = r THEN k.buf ELSE file[x]
  BY DEF Store, TypeInv, TypeOK
<1>3. Granted(granted[r], k) /\ Granted(granted[r], k.buf)
  BY <1>1 DEF GrantInv, ProcGranted
<1>4. /\ k1.pc = k.next /\ k.next \notin {"merge", "store"}
      /\ k1.steps = k.steps /\ k1.gate = k.gate /\ k1.approved = k.approved
  BY <1>1 DEF Proc
<1>5. ProcGranted(granted[r], k.buf, k1)
  BY <1>3, <1>4 DEF ProcGranted, Granted
<1>6. \A y \in Thread \cup Request :
          y # p => ProcGranted(granted[r], k.buf, proc[r][y])
  BY <1>1, Alone DEF Idle, GrantInv, ProcGranted
<1>7. CASE k.next # "spawn"
  <2>1. PICK n \in {k1, NoProc} : ProcStep(r, p, n) /\ ProcGranted(granted[r], k.buf, n)
    BY <1>5, <1>7, NewGranted DEF Store
  <2> HIDE DEF k1
  <2>2. \A x \in Run, y \in Thread \cup Request :
            proc'[x][y] = IF x = r /\ y = p THEN n ELSE proc[x][y]
    BY <2>1 DEF ProcStep, TypeInv
  <2> HIDE DEF k
  <2> QED
    BY <1>2, <1>3, <1>6, <2>1, <2>2 DEF GrantInv
<1>8. CASE k.next = "spawn"
  <2>1. PICK t \in Thread :
            /\ proc[r][t] = NoProc
            /\ proc' = [proc EXCEPT ![r] = [@ EXCEPT ![p] = NoProc, ![t].pc = "begin"]]
    BY <1>8 DEF Store, FreeThread
  <2>2. p # t
    BY <1>1, <2>1, NoProcType
  <2>3. \A x \in Run, y \in Thread \cup Request :
            proc'[x][y] = IF x # r THEN proc[x][y]
                          ELSE IF y = t THEN begin ELSE IF y = p THEN NoProc ELSE proc[x][y]
    BY <2>1, <2>2 DEF TypeInv
  <2>4. ProcGranted(granted[r], k.buf, begin) /\ ProcGranted(granted[r], k.buf, NoProc)
    BY NewGranted
  <2> HIDE DEF k, begin
  <2> QED
    BY <1>2, <1>3, <1>6, <2>3, <2>4 DEF GrantInv
<1> QED
  BY <1>7, <1>8

LEMMA GrantRoutes ==
    ASSUME TypeInv, SerialInv, GrantInv, NEW r \in Run,
           \/ trigger_pipeline_run(r) \/ delete_pipeline_run(r)
           \/ \E q \in Request : reject_pipeline_run(r, q) \/ RejectCleanup(r, q)
    PROVE  GrantInv'
<1>0. NoProc \in Proc /\ file[r] \in File /\ Granted(granted[r], file[r]) /\ SerialRun(r)
  BY NoProcType DEF SerialInv, GrantInv, ProcOK, TypeInv, TypeOK
<1>1. CASE trigger_pipeline_run(r)
  <2> DEFINE begin == [NoProc EXCEPT !.pc = "begin"]
  <2>1. PICK t \in Thread : ProcStep(r, t, begin)
    BY <1>1 DEF trigger_pipeline_run
  <2>2. ProcOK(t, begin)
    BY <1>0, SpawnType
  <2>3. ProcGranted(granted[r], NewFile, begin) /\ Granted(granted[r], NewFile)
    BY NewGranted
  <2> HIDE DEF begin
  <2>4. \A x \in Run, y \in Thread \cup Request :
            proc'[x][y] = IF x = r /\ y = t THEN begin ELSE proc[x][y]
    BY <2>1, <2>2, ProcChange
  <2>5. /\ file[r].status = "ABSENT" /\ granted' = granted
        /\ \A x \in Run : file'[x] = IF x = r THEN NewFile ELSE file[x]
    BY <1>1 DEF trigger_pipeline_run, TypeInv, TypeOK
  <2>6. \A y \in Thread \cup Request : ProcGranted(granted[r], NewFile, proc[r][y])
    BY <1>0, <2>5 DEF SerialRun, Idle, GrantInv, ProcGranted
  <2> QED
    BY <2>3, <2>4, <2>5, <2>6 DEF GrantInv
<1>2. CASE delete_pipeline_run(r)
  <2> DEFINE new == [NewFile EXCEPT !.status = "DELETED"]
  <2>1. new.status = "DELETED" /\ Granted(granted[r], new)
    BY NewGranted DEF NewFile
  <2> HIDE DEF new
  <2>2. /\ \A x \in Run : file'[x] = IF x = r THEN new ELSE file[x]
        /\ proc' = proc /\ granted' = granted
    BY <1>2 DEF delete_pipeline_run, TypeInv, TypeOK, new
  <2>3. \A y \in Thread \cup Request : ProcGranted(granted[r], new, proc[r][y])
    BY <2>1 DEF GrantInv, ProcGranted
  <2> QED
    BY <2>1, <2>2, <2>3 DEF GrantInv
<1>3. ASSUME NEW q \in Request, reject_pipeline_run(r, q)
      PROVE  GrantInv'
  <2> DEFINE g == file[r].gate
             steps == file[r].steps
             cut == [steps EXCEPT ![g] = "REJECTED"]
             new == IF g = 0 THEN steps ELSE SkipAfter(cut, g)
             u == [status |-> "REJECTED", approved |-> FALSE, steps |-> new]
             k == Updating(NoProc, u, "cleanup")
  <2>1. steps \in Steps /\ cut \in Steps
    BY <1>0 DEF File, Steps, StepStatus
  <2>2. new \in Steps /\ \A h \in Gate : new[h] = "SUCCESS" => steps[h] = "SUCCESS"
    <3>1. SkipAfter(cut, g) \in Steps
      BY <2>1, SkipType
    <3>2. \A j \in Step : cut[j] \in {"REJECTED", steps[j]}
      BY <2>1 DEF Steps
    <3> HIDE DEF cut
    <3>3. \A j \in Step : SkipAfter(cut, g)[j] \in {"SKIPPED", cut[j]}
      BY DEF SkipAfter
    <3> HIDE DEF g, steps
    <3> QED
      BY <2>1, <3>1, <3>2, <3>3, PipelineFacts
  <2> HIDE DEF new
  <2>3. u \in Updates
    BY <2>2 DEF Updates, Stored, TERMINAL
  <2>4. UNCHANGED <<file, granted>> /\ ProcStep(r, q, k)
    BY <1>3 DEF reject_pipeline_run, new
  <2>5. Granted(granted[r], Updated(file[r], u))
    <3>1. \A h \in Gate : u.steps[h] = "SUCCESS" => h \in granted[r]
      BY <1>0, <2>2 DEF Granted
    <3>2. ~u.approved
      OBVIOUS
    <3> HIDE DEF u
    <3> QED
      BY <1>0, <2>3, <3>1, <3>2, UpdatedGranted
  <2>6. Granted(granted[r], NoProc)
    BY NewGranted DEF ProcGranted
  <2>7. ProcOK(q, k)
    BY <1>0, <2>3, UpdatingType, PipelineAssumption
  <2>8. ProcGranted(granted[r], file[r], k)
    BY <1>0, <2>5, <2>6, UpdatingGranted
  <2> HIDE DEF k
  <2> QED
    BY <2>4, <2>7, <2>8, GrantStep
<1>4. ASSUME NEW q \in Request, RejectCleanup(r, q)
      PROVE  GrantInv'
  <2>1. ProcStep(r, q, NoProc) /\ UNCHANGED <<file, granted>>
    BY <1>4 DEF RejectCleanup
  <2> QED
    BY <2>1, NoProcType, NewGranted, GrantStep
<1> QED
  BY <1>1, <1>2, <1>3, <1>4

LEMMA GrantApprove ==
    ASSUME TypeInv, GrantInv, NEW r \in Run, NEW q \in Request, approve_pipeline_run(r, q)
    PROVE  GrantInv'
<1> DEFINE f == file[r]
           u == [status |-> "QUEUED", approved |-> TRUE]
           k == Updating(NoProc, u, "spawn")
<1>1. NoProc \in Proc /\ f \in File /\ u \in Updates
  BY NoProcType DEF ProcOK, TypeInv, TypeOK, Updates, Stored
<1>2. /\ ProcStep(r, q, k) /\ file' = file
      /\ \A x \in Run : granted'[x] = IF x = r THEN granted[r] \cup ({f.gate} \ {0}) ELSE granted[x]
  BY DEF approve_pipeline_run, TypeInv, TypeOK
<1>3. /\ Updated(f, u)["steps"] = f.steps /\ Updated(f, u)["gate"] = f.gate
  BY <1>1, UpdatedFields
<1>4. ProcOK(q, k)
  BY <1>1, UpdatingType, PipelineAssumption
<1> HIDE DEF u
<1>5. Granted(granted'[r], Updated(f, u))
  BY <1>2, <1>3 DEF GrantInv, Granted
<1>6. Granted(granted'[r], NoProc)
  BY NewGranted DEF ProcGranted
<1>7. ProcGranted(granted'[r], f, k)
  BY <1>1, <1>5, <1>6, UpdatingGranted
<1> HIDE DEF k
<1>8. \A x \in Run, y \in Thread \cup Request :
          proc'[x][y] = IF x = r /\ y = q THEN k ELSE proc[x][y]
  BY <1>2, <1>4, ProcChange
<1>9. \A x \in Run : granted[x] \subseteq granted'[x]
  BY <1>2
<1>10. \A G, H, h, l : G \subseteq H =>
           /\ Granted(G, h) => Granted(H, h)
           /\ ProcGranted(G, h, l) => ProcGranted(H, h, l)
  BY DEF Granted, ProcGranted
<1> HIDE DEF f
<1> QED
  BY <1>2, <1>7, <1>8, <1>9, <1>10 DEF GrantInv, f

LEMMA GrantBegin ==
    ASSUME TypeInv, GrantInv, NEW r \in Run, NEW t \in Thread, Begin(r, t)
    PROVE  GrantInv'
<1> DEFINE f == file[r]
           k == [NoProc EXCEPT !.i = f.current, !.steps = f.steps, !.gate = f.gate,
                               !.approved = f.approved]
           u == [status |-> "RUNNING"]
<1>1. f \in File /\ NoProc \in Proc
  BY NoProcType DEF TypeInv, TypeOK, ProcOK
<1>2. k \in Proc /\ k.steps = f.steps /\ k.gate = f.gate /\ k.approved = f.approved
  BY <1>1 DEF Proc, File, Position, Steps
<1>3. u \in Updates
  BY DEF Updates, Stored
<1>4. \/ ProcStep(r, t, Updating(k, u, "step"))
      \/ ProcStep(r, t, NoProc)
  BY DEF Begin
<1>5. UNCHANGED <<file, granted>> /\ Granted(granted[r], f)
  BY DEF Begin, GrantInv
<1>6. Granted(granted[r], Updated(f, u))
  BY <1>1, <1>3, <1>5, UpdatedGranted
<1> HIDE DEF k, u
<1>7. ProcOK(t, Updating(k, u, "step"))
  BY <1>2, <1>3, UpdatingType
<1>8. Granted(granted[r], k)
  BY <1>2, <1>5 DEF Granted
<1>9. ProcGranted(granted[r], f, Updating(k, u, "step"))
  BY <1>2, <1>6, <1>8, UpdatingGranted
<1> QED
  BY <1>4, <1>5, <1>7, <1>9, NoProcType, NewGranted, GrantStep

\* A thread passes a gate only if "approved" is set there.
LEMMA GrantNextStep ==
    ASSUME TypeInv, GrantInv, NEW r \in Run, NEW t \in Thread, NextStep(r, t)
    PROVE  GrantInv'
<1> DEFINE f == file[r]
           k == proc[r][t]
           i == k.i
           G == granted[r]
           at(s) == [k.steps EXCEPT ![i] = s]
           u1 == [status |-> "SUCCESS", steps |-> k.steps, current |-> i]
           k2 == [k EXCEPT !.steps = at("RUNNING")]
           u2 == [steps |-> at("RUNNING"), current |-> i]
           k3 == [k EXCEPT !.steps = at("SUCCESS"), !.i = i + 1, !.approved = FALSE, !.gate = 0]
           u3 == [steps |-> at("SUCCESS"), current |-> i + 1, approved |-> FALSE, gate |-> 0]
           u4 == [status |-> "WAITING_APPROVAL", steps |-> at("WAITING_APPROVAL"),
                  current |-> i, gate |-> i, approved |-> FALSE]
<1>1. k \in Proc /\ i \in Position /\ k.steps \in Steps /\ f \in File
  <2>1. k \in Proc /\ f \in File
    BY DEF TypeInv, TypeOK
  <2> QED
    BY <2>1 DEF Proc
<1>2. TypeInv' /\ UNCHANGED <<file, granted>>
  BY TypeNextStep DEF NextStep
<1>3. Granted(G, k) /\ Granted(G, f)
  BY DEF GrantInv, ProcGranted
<1>4. ASSUME NEW l \in Proc, NEW u \in Updates, NEW n, ProcStep(r, t, Updating(l, u, n)),
             Granted(G, l), "approved" \in DOMAIN u => ~u.approved,
             u.steps = l.steps \/ u.steps = at("WAITING_APPROVAL"),
             i \in Position
      PROVE  GrantInv'
  <2>1. proc'[r][t] = Updating(l, u, n)
    BY <1>4 DEF ProcStep, TypeInv
  <2>2. ProcOK(t, Updating(l, u, n))
    BY <1>2, <2>1 DEF TypeInv
  <2>3. \A g \in Gate : u.steps[g] = "SUCCESS" => g \in G
    <3>1. \A g \in Gate : at("WAITING_APPROVAL")[g] \in {"WAITING_APPROVAL", k.steps[g]}
      BY <1>1, PipelineFacts DEF Steps
    <3> HIDE DEF k
    <3> QED
      BY <1>3, <1>4, <3>1 DEF Granted
  <2>4. Granted(G, Updated(f, u))
    BY <1>1, <1>3, <1>4, <2>3, UpdatedGranted
  <2>5. ProcGranted(G, f, Updating(l, u, n))
    BY <1>4, <2>4, UpdatingGranted
  <2> QED
    BY <1>2, <1>4, <2>2, <2>5, GrantStep
<1>5. CASE i > Len(Pipeline)
  <2>1. u1 \in Updates /\ u1.steps = k.steps /\ "approved" \notin DOMAIN u1
    BY <1>1 DEF Updates, Stored, TERMINAL
  <2>2. ProcStep(r, t, Updating(k, u1, "idle"))
    BY <1>5 DEF NextStep
  <2> HIDE DEF k, u1
  <2> QED
    BY <1>1, <1>3, <1>4, <2>1, <2>2
<1>6. CASE i \in Step /\ Pipeline[i] # "approval"
  <2>1. /\ at("RUNNING") \in Steps
        /\ \A j \in Step : at("RUNNING")[j] \in {"RUNNING", k.steps[j]}
    BY <1>1, <1>6, StepsType DEF StepStatus, Steps
  <2>2. /\ k2 \in Proc /\ k2.steps = at("RUNNING")
        /\ k2.gate = k.gate /\ k2.approved = k.approved
    BY <1>1, <2>1 DEF Proc
  <2>3. u2 \in Updates /\ u2.steps = at("RUNNING") /\ "approved" \notin DOMAIN u2
    BY <1>1, <2>1 DEF Updates
  <2>4. ProcStep(r, t, Updating(k2, u2, "exec"))
    BY <1>6, PipelineFacts DEF NextStep, Step
  <2> HIDE DEF k2, u2, k
  <2>5. Granted(G, k2)
    BY <1>3, <2>1, <2>2, PipelineFacts DEF Granted
  <2> QED
    BY <1>1, <1>4, <2>2, <2>3, <2>4, <2>5
<1>7. CASE i \in Step /\ Pipeline[i] = "approval" /\ Passes(k)
  <2>0. /\ at("SUCCESS") \in Steps /\ i + 1 \in Position
        /\ \A j \in Step : at("SUCCESS")[j] = IF j = i THEN "SUCCESS" ELSE k.steps[j]
    BY <1>1, <1>7, StepsType, NextPosition DEF StepStatus, Steps
  <2>1. i \in G
    BY <1>3, <1>7, PipelineFacts DEF Passes, Granted, Step
  <2>2. k3 \in Proc /\ k3.steps = at("SUCCESS") /\ k3.approved = FALSE
    BY <1>1, <2>0 DEF Proc
  <2>3. u3 \in Updates /\ u3.steps = at("SUCCESS") /\ u3.approved = FALSE
    BY <2>0 DEF Updates
  <2>4. ProcStep(r, t, Updating(k3, u3, "step"))
    BY <1>7, PipelineFacts DEF NextStep, Step
  <2> HIDE DEF k3, u3, k
  <2>5. Granted(G, k3)
    BY <1>3, <2>0, <2>1, <2>2, PipelineFacts DEF Granted
  <2> QED
    BY <1>1, <1>4, <2>2, <2>3, <2>4, <2>5
<1>8. CASE i \in Step /\ Pipeline[i] = "approval" /\ ~Passes(k)
  <2>1. i \in Gate /\ at("WAITING_APPROVAL") \in Steps
    BY <1>1, <1>8, StepsType DEF StepStatus, Gate
  <2>2. u4 \in Updates /\ u4.steps = at("WAITING_APPROVAL") /\ u4.approved = FALSE
    BY <1>1, <2>1 DEF Updates, Stored
  <2>3. ProcStep(r, t, Updating(k, u4, "idle"))
    BY <1>8, PipelineFacts DEF NextStep, Step
  <2> HIDE DEF k, u4
  <2> QED
    BY <1>1, <1>3, <1>4, <2>2, <2>3
<1> QED
  BY <1>1, <1>5, <1>6, <1>7, <1>8, PipelineFacts DEF Position, Step

LEMMA GrantExecute ==
    ASSUME TypeInv, GrantInv, NEW r \in Run, NEW t \in Thread, _execute_step(r, t)
    PROVE  GrantInv'
<1> DEFINE k == proc[r][t]
           k1 == [k EXCEPT !.pc = IF Pipeline[k.i] = "shell" THEN "shell" ELSE "wait"]
<1>1. k \in Proc /\ ProcOK(t, k) /\ ProcGranted(granted[r], file[r], k) /\ k.pc = "exec"
  BY DEF TypeInv, GrantInv, _execute_step
<1>2. ProcOK(t, k1)
  BY <1>1, PipelineAssumption DEF ProcOK, Proc, Executes
<1>3. /\ k1.pc \in {"wait", "shell"} /\ k1.steps = k.steps /\ k1.gate = k.gate
      /\ k1.approved = k.approved
  BY <1>1 DEF Proc
<1>4. ProcStep(r, t, k1) /\ UNCHANGED <<file, granted>>
  BY DEF _execute_step
<1> HIDE DEF k, k1
<1>5. ProcGranted(granted[r], file[r], k1)
  BY <1>1, <1>3 DEF ProcGranted, Granted
<1> QED
  BY <1>2, <1>4, <1>5, GrantStep

\* The step that ends is not a gate.
LEMMA StepDoneGranted ==
    ASSUME NEW k \in Proc, k.i \in Step \ Gate, NEW s \in {"SUCCESS", "FAILED"}, NEW G,
           Granted(G, k), NEW f \in File, Granted(G, f)
    PROVE  ProcGranted(G, f, StepDone(k, s))
<1> DEFINE steps == [k.steps EXCEPT ![k.i] = s]
           skipped == SkipAfter(steps, k.i)
           k1 == [k EXCEPT !.steps = steps, !.i = @ + 1]
           u1 == [steps |-> steps, current |-> k.i + 1]
           k2 == [k EXCEPT !.steps = skipped]
           u2 == [status |-> "FAILED", steps |-> skipped, current |-> k.i]
<1>1. /\ steps \in Steps /\ k.i + 1 \in Position /\ k.i \in Position
      /\ \A g \in Gate : steps[g] = k.steps[g]
  BY StepsType, NextPosition, PipelineFacts DEF StepStatus, Steps, Proc
<1> HIDE DEF steps
<1>2. /\ skipped \in Steps
      /\ \A g \in Gate : skipped[g] \in {"SKIPPED", k.steps[g]}
  BY <1>1, SkipType, PipelineFacts DEF SkipAfter
<1> HIDE DEF skipped
<1>3. /\ k1 \in Proc /\ k1.steps = steps /\ k1.gate = k.gate /\ k1.approved = k.approved
      /\ k2 \in Proc /\ k2.steps = skipped /\ k2.gate = k.gate /\ k2.approved = k.approved
  BY <1>1, <1>2 DEF Proc
<1>4. /\ u1 \in Updates /\ u1.steps = steps /\ "approved" \notin DOMAIN u1
      /\ u2 \in Updates /\ u2.steps = skipped /\ "approved" \notin DOMAIN u2
  BY <1>1, <1>2 DEF Updates, Stored, TERMINAL
<1>5. StepDone(k, s) = IF s = "SUCCESS" THEN Updating(k1, u1, "step") ELSE Updating(k2, u2, "idle")
  BY DEF StepDone, steps, skipped
<1> HIDE DEF k1, k2, u1, u2
<1>6. Granted(G, k1) /\ Granted(G, k2)
  BY <1>1, <1>2, <1>3 DEF Granted
<1>7. \A g \in Gate : (steps[g] = "SUCCESS" => g \in G) /\ (skipped[g] = "SUCCESS" => g \in G)
  BY <1>3, <1>6 DEF Granted
<1>8. Granted(G, Updated(f, u1)) /\ Granted(G, Updated(f, u2))
  BY <1>4, <1>7, UpdatedGranted
<1> QED
  BY <1>3, <1>5, <1>6, <1>8, UpdatingGranted

LEMMA GrantWait ==
    ASSUME TypeInv, GrantInv, NEW r \in Run, NEW t \in Thread,
           _wait_for_worker_execution(r, t) \/ ShellEnds(r, t)
    PROVE  GrantInv'
<1> DEFINE k == proc[r][t]
<1>1. k \in Proc /\ k.i \in Step \ Gate /\ file[r] \in File
  BY DEF TypeInv, TypeOK, ProcOK, Executes, _wait_for_worker_execution, ShellEnds
<1>2. PICK s \in {"SUCCESS", "FAILED"} : ProcStep(r, t, StepDone(k, s))
  BY DEF _wait_for_worker_execution, ShellEnds
<1>3. UNCHANGED <<file, granted>> /\ Granted(granted[r], k) /\ Granted(granted[r], file[r])
  BY DEF _wait_for_worker_execution, ShellEnds, GrantInv, ProcGranted
<1> HIDE DEF k
<1>4. ProcOK(t, StepDone(k, s))
  BY <1>1, StepDoneType
<1>5. ProcGranted(granted[r], file[r], StepDone(k, s))
  BY <1>1, <1>3, StepDoneGranted
<1> QED
  BY <1>2, <1>3, <1>4, <1>5, GrantStep

LEMMA GrantNext ==
    ASSUME TypeInv, SerialInv, GrantInv, \A p, q \in Request : p = q, [Next]_vars
    PROVE  GrantInv'
<1>1. CASE UNCHANGED vars
  BY <1>1 DEF GrantInv, vars
<1>2. ASSUME NEW r \in Run, NEW t \in Thread,
             StartTool(r, t) \/ EndTool(r, t) \/ ReportTool(r, t) \/ GiveUp(r, t)
      PROVE  GrantInv'
  <2>1. UNCHANGED <<file, proc, granted>>
    BY <1>2 DEF StartTool, EndTool, ReportTool, GiveUp
  <2> QED
    BY <2>1 DEF GrantInv
<1>3. CASE ServerRestart
  BY <1>3, NewGranted DEF GrantInv, ServerRestart
<1> QED
  BY <1>1, <1>2, <1>3, GrantMerge, GrantStore, GrantRoutes, GrantApprove, GrantBegin,
     GrantNextStep, GrantExecute, GrantWait
     DEF Next, RequestStep, ThreadStep

\* If approvals and rejections of a run come one after the other, no step behind
\* any of its gates runs before the run was approved at that gate: what one gate's
\* approval leaves in the file does not open the next (_run_pipeline_thread).
THEOREM SerialGatesHold ==
    ASSUME \A p, q \in Request : p = q
    PROVE  Spec => []GateHolds
<1>1. Init => TypeInv /\ SerialInv /\ FitsInv /\ GrantInv
  <2>1. Init => FitsInv
    BY NewFits DEF Init, FitsInv
  <2>2. Init => GrantInv
    <3> SUFFICES ASSUME Init, NEW r \in Run
                 PROVE  /\ Granted(granted[r], file[r])
                        /\ \A p \in Thread \cup Request : ProcGranted(granted[r], file[r], proc[r][p])
      BY DEF GrantInv
    <3>1. /\ file[r] = [NewFile EXCEPT !.status = "ABSENT"]
          /\ \A p \in Thread \cup Request : proc[r][p] = NoProc
      BY DEF Init
    <3> QED
      BY <3>1, NewGranted
  <2> QED
    BY <2>1, <2>2, TypeInit, SerialInit
<1>2. TypeInv /\ SerialInv /\ FitsInv /\ GrantInv /\ [Next]_vars
      => (TypeInv /\ SerialInv /\ FitsInv /\ GrantInv)'
  BY TypeNext, SerialNext, FitsNext, GrantNext
<1>3. FitsInv /\ GrantInv => GateHolds
  <2> SUFFICES ASSUME FitsInv, GrantInv, NEW r \in Run, NEW t \in Thread,
                      proc[r][t].pc \in {"exec", "wait", "shell"},
                      NEW g \in Gate, g < proc[r][t].i
               PROVE  g \in granted[r]
    BY DEF GateHolds
  <2>1. DoneTo(proc[r][t].steps, proc[r][t].i)
    BY DEF FitsInv, ProcFits, GoesOn, Progress
  <2>2. proc[r][t].steps[g] = "SUCCESS"
    BY <2>1, PipelineFacts DEF DoneTo
  <2> QED
    BY <2>2 DEF GrantInv, ProcGranted, Granted
<1> QED
  BY <1>1, <1>2, <1>3, PTL DEF Spec

=============================================================================
