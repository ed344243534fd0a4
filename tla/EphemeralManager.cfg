SPECIFICATION Spec
CONSTANTS
  p1 = p1
  t1 = t1
  t2 = t2
  t3 = t3
  Peers = {p1}
  Timers = {t1, t2, t3}
  NoTimer = NoTimer
  LifeTime = 3
  CleanupWindow = 1
  Slack = 1
  MaxRestarts = 1
INVARIANTS ActiveStays ActiveNotListed CleanupScheduled
PROPERTIES InactiveDeleted
