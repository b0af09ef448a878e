SPECIFICATION Spec
CONSTANTS
  Phones <- MCPhones
  Missing = Missing
  MaxOps = 4
  MaxFaults = 2
INVARIANTS
  SavedIsConfig
  PreviewGone
  TrayTruthful
  CleanMeansSaved
PROPERTY CrashKeepsOldOrNew
CHECK_DEADLOCK FALSE
