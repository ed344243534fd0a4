SPECIFICATION Spec
CONSTANTS
  s1 = s1
  s2 = s2
  s3 = s3
  u1 = u1
  Streams = {s1, s2, s3}
  NoStream = NoStream
  Updates = {}
  ChanCap = 1
  SyncLim = 2
  MaxClock = 2
  MaxTicks = 2
  StoreMayFail = FALSE
  MayRestart = TRUE
INVARIANTS NeverClosed WholeSession NothingLeftBehind SemBalanced
CHECK_DEADLOCK FALSE
SYMMETRY AnyOrder
