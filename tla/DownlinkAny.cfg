SPECIFICATION FairSpec
CONSTANTS
  NumBlocks = 2
  Lens <- MCLens
  Room = 2
  MaxBlocks = 4
  MaxLag = 3
  CloudFails = TRUE
  GattFails = TRUE
  LinkDrops = TRUE
  SlowNode = TRUE
  NoBlock = NoBlock
INVARIANTS
  TypeOK
  PoolAccounted
  CloseStrandsNothing
  StreamIntact
  SingleConsumer
  NoLostWakeup
PROPERTIES
  IsStream
  QuietAfterFinish
  FlushIsAlone
  Finishes
CHECK_DEADLOCK FALSE
