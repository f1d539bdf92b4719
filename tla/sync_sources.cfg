CONSTANTS
  repo = repo
  t1 = t1
  t2 = t2
  Torn = Torn
  None = None
  Home = Home
  Source = {repo}
  Modes = {"local", "git"}
  Directions <- PushOrBoth
  Direct = {repo}
  Thread = {t1, t2}
  MaxSyncs = 2
  MaxEdits = 2
  MaxGitEdits = 1
  MaxRestarts = 1
SPECIFICATION Spec
CHECK_DEADLOCK FALSE
INVARIANTS TypeOK OneSyncThread SettledUnlessDisturbed
PROPERTIES ConflictSeen PushDelivers
