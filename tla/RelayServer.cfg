SPECIFICATION Spec
CONSTANTS
  x = x
  p = p
  x1 = x1
  p1 = p1
  p2 = p2
  PeerIDs = {x, p}
  Conns = {x1, p1, p2}
  ID <- XAndReconnectingP
  Subscribers = {x1}
  NoConn = NoConn
  ChanCap = 2
  MaxReads = 2
  OverlapDials = FALSE
ACTION_CONSTRAINT SubscribesThenWithdraws
INVARIANTS NeverMissed NoPhantomOnline SupersededIsClosed ShutdownClosesAll
CHECK_DEADLOCK FALSE
PROPERTIES TeardownCompletes DepartureReported
