SPECIFICATION Spec
CONSTANTS
  d1 = d1
  d2 = d2
  d3 = d3
  f1 = f1
  f2 = f2
  Device <- MCDevice
  File <- MCFile
  Scenes <- Races
  MaxCommands = 2
  MaxChanges = 4
  AtomicFiles = FALSE
  MaxConnections = 2
INVARIANTS
  NetworkViewFresh
CHECK_DEADLOCK FALSE
