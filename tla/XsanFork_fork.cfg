\* Three threads; a purge, and a libc that frees under the mutex of
\* ThreadArgRetval, are left out: with either, TLC finds a circle.
SPECIFICATION Spec
CONSTANTS
  Threads = {t1, t2, t3}
  NoOne = NoOne
  ContainsTsan = TRUE
  LibcFrees = FALSE
  Operations = {"malloc", "free", "late free", "create", "begin", "end", "join", "detach", "race", "error", "leaks", "atexit", "reset", "fork", "clone"}
INVARIANTS
  ForkInNoCircle
  ChildInheritsNoMutex
  HeldUntilReleased
CHECK_DEADLOCK FALSE
