SPECIFICATION Spec
CONSTANTS
  Scales = {96, 101, 120, 144, 173, 192, 240, 336}
  Frames = {29, 35}
  TabInsets = {20, 24}
  WorkAreas <- MCWorkAreas
  MaxMoves = 2
INVARIANTS
  ControlsApart
  PageFits
CHECK_DEADLOCK FALSE
