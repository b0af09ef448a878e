CONSTANTS
  Sessions = {s1}
  Grace = 2
  MaxChanges = 3
  MaxCalls = 1
SPECIFICATION FairSpec
INVARIANTS
  ActiveKeepsOpen
  PendingReleased
PROPERTIES
  GraceRespected
  SessionsFound
  PulseOpensGate
  RecordingIsHeard
  GateCloses
