SPECIFICATION FairSpec
CONSTANTS
  Main = Main
  Handles = {h1, h2}
  NoHandle = NoHandle
  Nobody = Nobody
  max_threads_ = 10
  thread_quarantine_size_ = 10
  max_reuse_ = 0
  kInvalidGen = 2
  MaxCreates = 2
  Cancellable = {}
  MayFork = TRUE
  RetriesJoin = FALSE
INVARIANTS
  TypeOK
  NoCheckFails
  LiveIsExact
PROPERTIES
  OperationsReturn
