CONSTANTS
  r1 = r1
  r2 = r2
  t1 = t1
  t2 = t2
  q1 = q1
  q2 = q2
  NoPlan = NoPlan
  Run = {r1}
  Pipeline <- Deploy
  Thread = {t1, t2}
  Request = {q1, q2}
  Deleted = {r1}
  MaxRestarts = 1
SPECIFICATION Spec
CHECK_DEADLOCK FALSE
INVARIANTS TypeOK GateHolds
