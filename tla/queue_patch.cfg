CONSTANTS
  w1 = w1
  w2 = w2
  c1 = c1
  c2 = c2
  NoWorker = NoWorker
  NoExec = NoExec
  Free = Free
  Exec = {1}
  Worker = {w1}
  Born <- Pinned
  MaxConcurrency = 1
  ClaimCall = {c1}
  ListLimit = 1
  Patched = {1}
  Deleted = {}
  Stopped = {1}
  Tofu = {1}
  MaxFaults = 0
SPECIFICATION Spec
INVARIANTS TypeOK
PROPERTIES SettledIsFinal
