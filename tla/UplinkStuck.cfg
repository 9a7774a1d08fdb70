SPECIFICATION FairSpec
CONSTANTS
  Size = 2
  Lens <- MCLens
  MaxBytes = 4
  Transports = {"indicate"}
  Preempts = TRUE
  CloudFails = FALSE
  LocalFails = FALSE
  MallocFails = FALSE
  GattFails = FALSE
  LinkDrops = FALSE
  NoBlock = NoBlock
PROPERTY ClosedEnds
CHECK_DEADLOCK FALSE
