SPECIFICATION Spec
CONSTANTS
  Main = Main
  Threads = {t1, t2, t3}
  None = None
  tsan_ignore_single_thread = TRUE
  tsan_ignore_runtime = FALSE
  HandlerCallsPthread = FALSE
  MainCallsPthreadExit = TRUE
  ProgramLongjmps = TRUE
  LongjmpRestoresStale = FALSE
  MaxUserIgnores = 1
  MaxAnnotators = 1
  MaxSigDepth = 2
SYMMETRY Symmetry
INVARIANTS
  DisabledImpliesAlone
  DisabledKnowsHistory
  AllJoinedDisables
  UnjoinedCounterIsExact
  IgnoresBalance
  DeactivationIsNotFatal
  NoCheckFailure
PROPERTIES
  CreationHandsOverClock
