SPECIFICATION FairSpec
CONSTANTS
  Size = 2
  Lens <- MCLens
  MaxBytes = 7
  Transports = {"indicate"}
  Preempts = FALSE
  CloudFails = TRUE
  LocalFails = FALSE
  MallocFails = FALSE
  GattFails = TRUE
  LinkDrops = TRUE
  NoBlock = NoBlock
INVARIANTS
  CallbackFindsUplink
  NoLeak
  MemorySafe
PROPERTIES
  IsUpload
  ClosedDataEnds
CHECK_DEADLOCK FALSE
