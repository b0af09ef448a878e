CONSTANTS
  d1 = d1
  d2 = d2
  Devices = {d1}
  NoDevice = NoDevice
  StaleLimit = 1
  IdleLimit = 2
  StallLimit = 2
  MaxFaults = 3
SPECIFICATION FairSpec
INVARIANT GapsAnnounced
PROPERTIES
  Recovers
  IdleDisconnects
  StallNoticed
  BridgeEnds
