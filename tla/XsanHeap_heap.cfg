\* Three threads and two blocks of one size class; a chunk is freed at most twice.
SPECIFICATION Spec
CONSTANTS
  Threads = {t1, t2, t3}
  Blocks = {b1, b2}
  Granules = 2
  MaxFrees = 2
SYMMETRY Symmetry
INVARIANTS
  LiveChunkReady
  InOnePlace
  QuarantinedIsGuarded
  DoubleFreesReported
  NoCheckFailure
CHECK_DEADLOCK FALSE
