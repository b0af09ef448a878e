SPECIFICATION Spec
CONSTANTS
  Slots = 6
  HighMark = 3
  LowMark = 2
  ResetEvery = 2
  MaxBlocks = 7
INVARIANT PlayedOnce
CHECK_DEADLOCK FALSE
