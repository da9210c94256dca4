SPECIFICATION Spec
CONSTANTS
  Pids = {p1, p2}
  InitPid = InitPid
  NoPid = NoPid
  Fds = {fd1}
  Files = {f1, f2}
  Closed = Closed
  VforkMayFail = FALSE
SYMMETRY Symmetry
INVARIANTS
  InterceptorsRecovered
