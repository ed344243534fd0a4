SPECIFICATION Spec
CONSTANTS
  Peers = {p1}
  Callers = {c1, c2}
  MaxJobs = 2
  MaxAge = 2
INVARIANTS EntryIsTheJob InactivePeersHaveJob
PROPERTIES FreshStays
