SPECIFICATION FairSpec
CONSTANTS
  QueueLimit = 1
  BlockSamples = 2
  MaxOutputSamples = 3
  FifoCapacity = 5
  Silence = Silence
  MaxEpoch = 2
  MaxSessions = 2
INVARIANTS
  NoStaleOutput
  WorkerHasSession
PROPERTIES
  ImplementsSession
  DropOnlySuperseded
  UiReturns
  WorkerStops
