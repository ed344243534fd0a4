SPECIFICATION Spec
CONSTANTS
  s1 = s1
  s2 = s2
  s3 = s3
  u1 = u1
  Streams = {s1, s2}
  NoStream = NoStream
  Updates = {u1}
  ChanCap = 2
  SyncLim = 2
  MaxClock = 1
  MaxTicks = 0
  StoreMayFail = TRUE
  MayRestart = FALSE
CHECK_DEADLOCK FALSE
INVARIANTS UpdatesReachStream
PROPERTIES StreamsLeave
