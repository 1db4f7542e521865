SPECIFICATION FairSpec
CONSTANTS
  c1 = c1
  c2 = c2
  c3 = c3
  p1 = p1
  k1 = k1
  k2 = k2
  k3 = k3
  Nobody = Nobody
  Clients = {c1, c2, c3}
  Closers = {p1}
  Connections = {k1, k2, k3}
  Limit = 2
  RollbackFails = TRUE
  MayCancel = TRUE
INVARIANTS
  TypeOK
  ConnectionsAccounted
  NoLostWakeup
PROPERTIES
  ImplementsLease
  CloseEnds
