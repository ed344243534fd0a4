SPECIFICATION Spec
CONSTANTS
  a = a
  s1 = s1
  s2 = s2
  m1 = m1
  Ids = {a}
  Streams = {s1, s2}
  IdOf <- ReconnectingA
  NoStream = NoStream
  Messages = {m1}
  Dest <- ToA
  MaxClock = 2
INVARIANTS SupersededIsCancelled ActiveCount ConnectedOnly
PROPERTIES ReplacedByNewer RegisterReturns SupersededLeaves ForwardReturns StuckStreamLeaves
CHECK_DEADLOCK FALSE
