SPECIFICATION Spec
CONSTANTS
  Peers = {p1}
  Callers = {c1}
  MaxJobs = 2
  MaxAge = 1
INVARIANTS ExtendGuaranteesJob
