SPECIFICATION Spec
CONSTANTS
  j1 = j1
  j2 = j2
  j3 = j3
  c1 = c1
  c2 = c2
  d1 = d1
  rebuild = rebuild
  import = import
  copy = copy
  Worker = Worker
  Closer = Closer
  Free = Free
  Jobs = {j1}
  Clients = {c1, c2}
  Databases = {d1}
  DatabaseOf <- OneDatabaseOf
  KindOf <- OneKindOf
  Resumable = {j1}
  ShortLane = {}
  Compared = {j1}
  Cleaning = {}
  Calls = {"start", "pause", "resume", "stop"}
  CommitInOrder = TRUE
  WriteMayFail = TRUE
  RollbackMayFail = TRUE
  MayClose = FALSE
  Drained = TRUE
  MaxCrashes = 0
INVARIANTS
  TypeOK
  QuietWhilePaused
  TerminalMatchesData
PROPERTIES
  OutcomesHold
CHECK_DEADLOCK FALSE
