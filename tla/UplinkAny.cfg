SPECIFICATION Spec
CONSTANTS
  Size = 2
  Lens <- MCLens
  MaxBytes = 7
  Transports = {"indicate", "read"}
  Preempts = TRUE
  CloudFails = TRUE
  LocalFails = TRUE
  MallocFails = TRUE
  GattFails = TRUE
  LinkDrops = TRUE
  NoBlock = NoBlock
INVARIANTS
  TypeOK
  OneSender
  NodeNeverDangles
PROPERTY UploadInOrder
CHECK_DEADLOCK FALSE
