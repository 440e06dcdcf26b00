SPECIFICATION AllWorkEnds
CONSTANTS
  a1 = a1
  a2 = a2
  b1 = b1
  a = a
  b = b
  None = None
  Task = {a1, a2, b1}
  Id = {a, b}
  IdOf <- Ids
  Abandonable = {a1, b1}
  GlobalMax = 2
  ThreadMax = 1
  MaxQueue = 2
CHECK_DEADLOCK FALSE
INVARIANTS ShutdownReachesAll CapacityIsHeld
PROPERTIES ShutdownEnds
