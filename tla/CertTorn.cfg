SPECIFICATION FairSpec
CONSTANTS
  CertLen <- MCCertLen
  Bad <- MCBad
  MaxLen = 3
  Mtu = 2
  DeviceMax = 2
  Payloads <- MCPayloads
  MaxPackets = 2
  MaxUpdates = 2
  MaxSessions = 2
  BootFails = FALSE
  CloudFails = FALSE
  WriteFails = FALSE
  ReadFails = FALSE
  LinkDrops = FALSE
  NoCtx = NoCtx
PROPERTY AcceptedIsIntact
CHECK_DEADLOCK FALSE
