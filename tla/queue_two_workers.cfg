CONSTANTS
  w1 = w1
  w2 = w2
  c1 = c1
  c2 = c2
  NoWorker = NoWorker
  NoExec = NoExec
  Free = Free
  Exec = {1}
  Worker = {w1, w2}
  Born <- FirstPosted
  MaxConcurrency = 1
  ClaimCall = {c1, c2}
  ListLimit = 1
  Patched = {}
  Deleted = {}
  Stopped = {1}
  Tofu = {}
  MaxFaults = 1
SPECIFICATION Spec
INVARIANTS OwnershipInv RunsOwnExecution
PROPERTIES StartedOnce CanceledInQueueIsFinal KeptLifecycle
