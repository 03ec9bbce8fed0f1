CONSTANTS
  None = None
  Consumers = {c1, c2}
  Children = {k1, k2}
  MaxLen = 3
  Count = 1
  FailedReports = {{2}}
  FailFast = TRUE
  Mortal = {}
  MaxFaults = 0
  Dlq = TRUE
  Late = FALSE
  SchedulerAt = {"done"}
SPECIFICATION Spec
CHECK_DEADLOCK FALSE
INVARIANTS
  AggregateShowsFailure
