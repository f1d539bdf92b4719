CONSTANTS
  r1 = r1
  r2 = r2
  t1 = t1
  t2 = t2
  q1 = q1
  q2 = q2
  NoPlan = NoPlan
  Run = {r1, r2}
  Pipeline <- PlanApply
  Thread = {t1, t2}
  Request = {q1}
  Deleted = {}
  MaxRestarts = 0
SPECIFICATION Spec
CHECK_DEADLOCK FALSE
PROPERTIES AppliesOwnPlan
