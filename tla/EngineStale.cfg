CONSTANTS
  None = None
  Consumers = {c1, c2}
  MaxLen = 1
  Count = 1
  MaxRetries = 2
  RoleActs = {"handoff", "guarded", "ok", "err", "deferred"}
  Mortal = {c1}
  StoreErrors = TRUE
  TimelyHeartbeats = FALSE
SPECIFICATION Spec
INVARIANTS
  TypeOK
  SettledOneWay
  AckedOnlyAfterSuccess
  DlqOnlyAfterRetries
  FailedImpliesDlq
  OwnCommitIsNotLoss
