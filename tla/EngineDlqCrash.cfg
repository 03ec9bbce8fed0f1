CONSTANTS
  None = None
  Consumers = {c1, c2}
  MaxLen = 1
  Count = 1
  MaxRetries = 1
  RoleActs = {"handoff", "err"}
  Mortal = {c1}
  StoreErrors = FALSE
  TimelyHeartbeats = TRUE
SPECIFICATION FairSpec
PROPERTIES
  DlqRunReportedFailed
