SPECIFICATION Spec
CONSTANTS
  Pids = {p1, p2, p3}
  InitPid = InitPid
  NoPid = NoPid
  Fds = {fd1, fd2}
  Files = {f1}
  Closed = Closed
  VforkMayFail = TRUE
SYMMETRY Symmetry
INVARIANTS
  HookRecovered
  ParentStackClean
  ChildIsIsolated
  CountersRecovered
PROPERTIES
  FdTableKeptDuringVfork
