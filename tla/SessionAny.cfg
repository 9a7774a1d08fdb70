SPECIFICATION FairSpec
CONSTANTS
  Apps = {"gateway", "custom"}
  Envs <- MCEnvs
  MaxSyncs = 4
INVARIANTS
  TypeOK
  ScanOrConnection
  ScratchReclaimed
  NothingLeft
  ParamsOwned
  OwnNode
  TwoSyncs
  MemorySafe
PROPERTIES
  StartsOnLiveLink
  SessionEnds
CHECK_DEADLOCK FALSE
