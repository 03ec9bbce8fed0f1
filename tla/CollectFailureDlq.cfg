CONSTANTS
  None = None
  Consumers = {c1, c2}
  Children = {k1, k2}
  MaxLen = 2
  Count = 1
  FailedReports = {{1}}
  FailFast = TRUE
  Mortal = {}
  MaxFaults = 1
  Dlq = TRUE
  Late = FALSE
  SchedulerAt = {"done"}
SPECIFICATION Spec
CHECK_DEADLOCK FALSE
INVARIANTS
  FailFastFinalizes
