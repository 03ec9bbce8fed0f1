CONSTANTS
  None = None
  Consumers = {c1, c2}
  Children = {k1, k2}
  MaxLen = 2
  Count = 1
  FailedReports = {{1, 2}}
  FailFast = TRUE
  Mortal = {}
  MaxFaults = 0
  Dlq = TRUE
  Late = FALSE
  SchedulerAt = {"setnx"}
SPECIFICATION Spec
CHECK_DEADLOCK FALSE
INVARIANTS
  SingleFinalizer
