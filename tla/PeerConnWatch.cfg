SPECIFICATION Spec
CONSTANTS
  Sessions = {1}
  NoSession = 0
  MaxOpens = 1
  MaxAgents = 1
  MaxRelayed = 1
  MaxEvents = 3
CONSTRAINT Bounded
INVARIANTS RelayIsWatched
CHECK_DEADLOCK FALSE
