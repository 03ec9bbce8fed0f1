CONSTANTS
  None = None
  Consumers = {c1, c2}
  MaxLen = 4
  Count = 2
SPECIFICATION GroupSpec
INVARIANTS
  GroupTypeOK
  ExactlyOnceHandoff
  NothingLost
PROPERTIES
  SettlementIsFinal
  StageContractHolds
