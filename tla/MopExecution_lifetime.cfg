SPECIFICATION Spec
CONSTANTS
  m1 = m1
  m2 = m2
  m3 = m3
  Mops <- MCMops
  Functions <- MCFunctions
CHECK_DEADLOCK FALSE
INVARIANTS
  NotRecurringPastCalls
