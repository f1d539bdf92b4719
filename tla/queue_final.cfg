CONSTANTS
  w1 = w1
  w2 = w2
  c1 = c1
  c2 = c2
  NoWorker = NoWorker
  NoExec = NoExec
  Free = Free
  Exec = {1}
  Worker = {w1}
  Born <- Open
  MaxConcurrency = 1
  ClaimCall = {c1}
  ListLimit = 1
  Patched = {}
  Deleted = {}
  Stopped = {1}
  Tofu = {}
  MaxFaults = 0
SPECIFICATION Spec
PROPERTIES FinalIsFinal
