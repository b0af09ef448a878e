SPECIFICATION FairSpec
CONSTANTS
  MaxStarts = 5
  MaxClients = 3
  MaxFaults = 3
INVARIANTS
  MicOnlyForClient
  NothingLeft
PROPERTIES
  DestroyReturns
  ClientServed
CHECK_DEADLOCK FALSE
