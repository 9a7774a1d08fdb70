SPECIFICATION FairSpec
CONSTANTS
  NumBlocks = 2
  Lens <- MCLens
  Room = 2
  MaxBlocks = 4
  MaxLag = 0
  CloudFails = FALSE
  GattFails = TRUE
  LinkDrops = FALSE
  SlowNode = FALSE
  NoBlock = NoBlock
PROPERTY AbortReclaims
CHECK_DEADLOCK FALSE
