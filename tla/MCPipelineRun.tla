--------------------------- MODULE MCPipelineRun ---------------------------
(* Instances of PipelineRun for TLC: pipelines.                            *)
EXTENDS PipelineRun

CONSTANTS r1, r2, t1, t2, q1, q2

\* The pipeline of the module documentation of the engine, without the steps
\* before plan.
Deploy == <<"plan", "approval", "apply", "task">>

\* The shortest pipeline that applies an approved plan.
PlanApply == <<"plan", "approval", "apply">>

\* The same with a step of either other kind before plan.
TestPlanApply == <<"task", "shell", "plan", "approval", "apply">>

\* Two gates.
TwoGates == <<"approval", "task", "approval", "apply">>

=============================================================================
