SPECIFICATION Spec
CONSTANTS
  j1 = j1
  j2 = j2
  j3 = j3
  c1 = c1
  c2 = c2
  d1 = d1
  rebuild = rebuild
  import = import
  copy = copy
  Worker = Worker
  Closer = Closer
  Free = Free
  Jobs = {j1, j2}
  Clients = {c1}
  Databases = {d1}
  DatabaseOf <- TwoDatabaseOf
  KindOf <- TwoKindOf
  Resumable = {j1, j2}
  ShortLane = {}
  Compared = {}
  Cleaning = {}
  Calls = {"start", "pause", "resume", "stop", "cancel"}
  CommitInOrder = TRUE
  WriteMayFail = FALSE
  RollbackMayFail = FALSE
  MayClose = TRUE
  Drained = TRUE
  MaxCrashes = 1
INVARIANTS
  ServedOnce
PROPERTIES
  RecordedOutcomeIsFinal
CHECK_DEADLOCK FALSE
