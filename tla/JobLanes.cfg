SPECIFICATION Spec
CONSTANTS
  j1 = j1
  j2 = j2
  j3 = j3
  c1 = c1
  c2 = c2
  d1 = d1
  rebuild = rebuild
  import = import
  copy = copy
  Worker = Worker
  Closer = Closer
  Free = Free
  Jobs = {j1, j2, j3}
  Clients = {c1}
  Databases = {d1}
  DatabaseOf <- LaneDatabaseOf
  KindOf <- LaneKindOf
  Resumable = {j1}
  ShortLane = {j3}
  Compared = {}
  Cleaning = {j1}
  Calls = {"start", "cancel"}
  CommitInOrder = TRUE
  WriteMayFail = FALSE
  RollbackMayFail = FALSE
  MayClose = TRUE
  Drained = TRUE
  MaxCrashes = 0
PROPERTIES
  ShutdownSettlesShortJobs
  ImplementsLease
CHECK_DEADLOCK FALSE
