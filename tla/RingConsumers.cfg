SPECIFICATION FairSpec
CONSTANTS
  Slots = 5
  HighMark = 3
  LowMark = 2
  ResetEvery = 2
  MaxBlocks = 6
INVARIANTS
  RingShort
  OldAudioDropped
PROPERTIES
  RingIsFifo
  Drains
  ProgramEnds
CHECK_DEADLOCK FALSE
