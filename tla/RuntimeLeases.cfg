SPECIFICATION FairSpec
CONSTANTS
  a = a
  b = b
  home = home
  u1 = u1
  u2 = u2
  m1 = m1
  n1 = n1
  s1 = s1
  s2 = s2
  s3 = s3
  s4 = s4
  Sweeper = Sweeper
  Closer = Closer
  Nobody = Nobody
  Databases = {a, b}
  Default = home
  Services = {s1, s2}
  Users = {u1, u2}
  Unloaders = {}
  Movers = {}
  Capacity = 1
  MayPin = {b}
  MayFail = TRUE
  MayCancel = TRUE
  MayClose = FALSE
  MaxLost = 1
INVARIANTS
  LeaseSafety
PROPERTIES
  Converges
CHECK_DEADLOCK FALSE
