CONSTANTS
  w1 = w1
  w2 = w2
  c1 = c1
  c2 = c2
  NoWorker = NoWorker
  NoExec = NoExec
  Free = Free
  Exec = {1, 2, 3}
  Worker = {w1}
  Born <- LastRunning
  MaxConcurrency = 1
  ClaimCall = {c1}
  ListLimit = 1
  Patched = {}
  Deleted = {1}
  Stopped = {}
  Tofu = {}
  MaxFaults = 1
SPECIFICATION Spec
INVARIANTS RunningIsIndexed AtMostMaxRunning
PROPERTIES StartedOnce LiveRunNotFailed
