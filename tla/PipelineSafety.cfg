SPECIFICATION FairSpec
CONSTANTS
  Threads = {"ui", "bridge"}
  WarmupBlocks = 2
  SteadyBlocks = 1
  MaxJobs = 2
INVARIANTS
  SilenceBounded
  StatusIsTrue
  RnnoiseUserPaysNothing
PROPERTY ChangeTakesEffect
