CONSTANTS
  None = None
  Consumers = {c1, c2}
  Children = {k1, k2}
  MaxLen = 2
  Count = 1
  FailedReports = {{}}
  FailFast = FALSE
  Mortal = {}
  MaxFaults = 0
  Dlq = TRUE
  Late = TRUE
  SchedulerAt = {"setnx"}
SPECIFICATION Spec
CHECK_DEADLOCK FALSE
SYMMETRY Interchangeable
INVARIANTS
  ReportsKept
