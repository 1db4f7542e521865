SPECIFICATION Spec
CONSTANTS
  c1 = c1
  Absent = Absent
  Hollow = Hollow
  MaxId = 2
  MaxBorn = 4
  Clients = {c1}
  Worlds <- KeptWorlds
INVARIANTS
  TypeOK
  NothingLost
  
PROPERTIES
  AllOrNothing
CHECK_DEADLOCK FALSE
