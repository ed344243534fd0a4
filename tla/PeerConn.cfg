SPECIFICATION Spec
CONSTANTS
  Sessions = {1}
  NoSession = 0
  MaxOpens = 2
  MaxAgents = 2
  MaxRelayed = 2
  MaxEvents = 3
CONSTRAINT Bounded
INVARIANTS ConnectingIsReal ClosedIsClean ActiveHasPath NoRelayLeak
PROPERTIES
    CloseReturns
