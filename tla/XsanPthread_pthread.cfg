SPECIFICATION Spec
CONSTANTS
  Main = Main
  Handles = {h1, h2}
  NoHandle = NoHandle
  Nobody = Nobody
  max_threads_ = 10
  thread_quarantine_size_ = 0
  max_reuse_ = 2
  kInvalidGen = 4
  MaxCreates = 4
  Cancellable = {2}
  MayFork = FALSE
  RetriesJoin = FALSE
SYMMETRY Symmetry
INVARIANTS
  NoCheckFails
  LiveIsExact
  JoinsTheRightThread
  ArgsKeptAlive
  ParamOutlivesUse
  NoStaleArgs
PROPERTIES
  ImplementsKeptArgs
