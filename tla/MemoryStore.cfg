SPECIFICATION FairSpec
CONSTANTS
  r1 = r1
  r2 = r2
  Nothing = Nothing
  MaxId = 3
  Records <- TwoRecords
  Batch = 1
  Worlds <- StoreWorlds
INVARIANTS
  TypeOK
  Settled
  StoredOnce
PROPERTIES
  Converges
CHECK_DEADLOCK FALSE
