SPECIFICATION Spec
CONSTANTS
  s1 = s1
  s2 = s2
  s3 = s3
  u1 = u1
  Streams = {s1, s2}
  NoStream = NoStream
  Updates = {}
  ChanCap = 1
  SyncLim = 2
  MaxClock = 2
  MaxTicks = 0
  StoreMayFail = FALSE
  MayRestart = FALSE
CHECK_DEADLOCK FALSE
PROPERTIES ReplacedIsIgnored
