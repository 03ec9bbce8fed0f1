CONSTANTS
  None = None
  Consumers = {c1, c2}
  Children = {k1, k2}
  MaxLen = 3
  Count = 1
  FailedReports = {{2}}
  FailFast = FALSE
  Mortal = {}
  MaxFaults = 1
  Dlq = TRUE
  Late = TRUE
  SchedulerAt = {"done"}
SPECIFICATION Spec
CHECK_DEADLOCK FALSE
SYMMETRY Interchangeable
INVARIANTS
  CollectTypeOK
  SingleFinalizer
  AggregateComplete
  TerminalAfterHandoff
  ReportsKept
PROPERTIES
  StageNeverRegresses
