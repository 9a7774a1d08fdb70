SPECIFICATION FairSpec
CONSTANTS
  NumBlocks = 2
  Lens <- MCLens
  Room = 2
  MaxBlocks = 4
  MaxLag = 1
  CloudFails = FALSE
  GattFails = FALSE
  LinkDrops = FALSE
  SlowNode = FALSE
  NoBlock = NoBlock
INVARIANTS
  MemorySafe
  KickHasData
PROPERTY Delivered
CHECK_DEADLOCK FALSE
