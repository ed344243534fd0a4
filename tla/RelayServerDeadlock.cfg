SPECIFICATION Spec
CONSTANTS
  x = x
  p = p
  x1 = x1
  p1 = p1
  p2 = p2
  PeerIDs = {x, p}
  Conns = {x1, p1, p2}
  ID <- XAndReconnectingP
  Subscribers = {x1}
  NoConn = NoConn
  ChanCap = 1
  MaxReads = 2
  OverlapDials = FALSE
CHECK_DEADLOCK FALSE
INVARIANTS SubscribeCannotDeadlock
