\* MopThreshold is 2 in the code.
SPECIFICATION Spec
CONSTANTS
  Functions <- MCFunctions
  MopThreshold = 2
INVARIANTS
  MayRaceIsExact
  MissedAcrossBlocks
CHECK_DEADLOCK FALSE
