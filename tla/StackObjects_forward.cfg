\* As in stack; the one property that the forward search breaks.
SPECIFICATION Spec
CONSTANTS
  Functions <- MCFunctions
  MopThreshold = 2
INVARIANT
  NoRaceMissed
CHECK_DEADLOCK FALSE
