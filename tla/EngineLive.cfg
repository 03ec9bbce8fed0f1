CONSTANTS
  None = None
  Consumers = {c1, c2}
  MaxLen = 2
  Count = 2
  MaxRetries = 2
  RoleActs = {"handoff", "ok", "err"}
  Mortal = {c1}
  StoreErrors = FALSE
  TimelyHeartbeats = TRUE
SPECIFICATION FairSpec
INVARIANTS
  SingleHandler
PROPERTIES
  EventuallySettled
