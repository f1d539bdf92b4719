CONSTANTS
  p1 = p1
  p2 = p2
  s1 = s1
  s2 = s2
  NoSchedule = NoSchedule
  Scheduler = {p1, p2}
  Schedule = {s1}
  Period = 20
  Fires <- EveryTenMinutes
  CHECK_INTERVAL = 2
  STARTUP_GRACE_PERIOD = 2
  Slack = 1
  MaxAge = 15
  MaxCrashes = 1
SPECIFICATION Spec
SYMMETRY Symmetry
INVARIANTS TypeOK OneHolder Spacing OncePerFire FireServed
