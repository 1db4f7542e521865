SPECIFICATION FairSpec
CONSTANTS
  a = a
  b = b
  home = home
  u1 = u1
  u2 = u2
  m1 = m1
  n1 = n1
  s1 = s1
  s2 = s2
  s3 = s3
  s4 = s4
  Sweeper = Sweeper
  Closer = Closer
  Nobody = Nobody
  Databases = {a, home}
  Default = home
  Services = {s1, s2}
  Users = {u1}
  Unloaders = {m1}
  Movers = {n1}
  Capacity = 1
  MayPin = {}
  MayFail = FALSE
  MayCancel = TRUE
  MayClose = TRUE
  MaxLost = 1
INVARIANTS
  TypeOK
  LeaseSafety
  NothingEscapes
  NoLostWakeup
PROPERTIES
  WaitsEnd
CHECK_DEADLOCK FALSE
