SPECIFICATION Spec
CONSTANTS
  c1 = c1
  Absent = Absent
  Hollow = Hollow
  MaxId = 2
  MaxBorn = 4
  Clients = {c1}
  Worlds <- SearchedWorlds
INVARIANTS
  NeverErased
CHECK_DEADLOCK FALSE
