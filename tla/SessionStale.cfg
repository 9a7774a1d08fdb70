SPECIFICATION FairSpec
CONSTANTS
  Apps = {"custom"}
  Envs <- MCDrops
  MaxSyncs = 2
PROPERTY SecondSyncConnected
CHECK_DEADLOCK FALSE
