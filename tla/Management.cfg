SPECIFICATION PartSpec
CONSTANTS
  c1 = c1
  c2 = c2
  Callers = {c1, c2}
  MaxWrites = 2
  s1 = s1
  s2 = s2
  Streams = {s1, s2}
  NoStream = NoStream
  j1 = j1
  j2 = j2
  Jobs = {j1, j2}
  ChanCap = 1
  NetworkMap = NetworkMap
  ControlConfig = ControlConfig
  MaxUpdates = 6
INVARIANTS FreshData OneBatch PendingHasCarrier
PROPERTIES CallersReturn FinishedStays SendersReturn PendingIsSent ImplementsDelivery
CHECK_DEADLOCK FALSE
