CONSTANTS
  None = None
  Consumers = {c1, c2}
  Children = {k1, k2}
  MaxLen = 3
  Count = 1
  FailedReports = {{2}}
  FailFast = FALSE
  Mortal = {c1}
  MaxFaults = 1
  Dlq = FALSE
  Late = FALSE
  SchedulerAt = {"done"}
SPECIFICATION FairSpec
CHECK_DEADLOCK FALSE
PROPERTIES
  EventuallyFinalized
