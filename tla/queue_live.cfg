CONSTANTS
  w1 = w1
  w2 = w2
  c1 = c1
  c2 = c2
  NoWorker = NoWorker
  NoExec = NoExec
  Free = Free
  Exec = {1, 2}
  Worker = {w1}
  Born <- FirstInTheWay
  MaxConcurrency = 1
  ClaimCall = {c1}
  ListLimit = 1
  Patched = {}
  Deleted = {}
  Stopped = {2}
  Tofu = {2}
  MaxFaults = 1
SPECIFICATION FairSpec
PROPERTIES NoStarvation StopTakesEffect
