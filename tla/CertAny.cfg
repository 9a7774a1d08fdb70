SPECIFICATION FairSpec
CONSTANTS
  CertLen <- MCCertLen
  Bad <- MCBad
  MaxLen = 3
  Mtu = 2
  DeviceMax = 2
  Payloads <- MCPayloads
  MaxPackets = 2
  MaxUpdates = 2
  MaxSessions = 2
  BootFails = TRUE
  CloudFails = TRUE
  WriteFails = TRUE
  ReadFails = TRUE
  LinkDrops = TRUE
  NoCtx = NoCtx
INVARIANTS
  TypeOK
  ContextsFreedOnce
  DeviceCertWhole
PROPERTIES
  AcceptedIsCurrent
  TransferEnds
CHECK_DEADLOCK FALSE
