SPECIFICATION FairSpec
CONSTANTS
  d1 = d1
  d2 = d2
  d3 = d3
  f1 = f1
  f2 = f2
  Device <- MCDevice
  File <- MCFile
  Scenes <- InOrder
  MaxCommands = 3
  MaxChanges = 12
  AtomicFiles = TRUE
  MaxConnections = 2
INVARIANTS
  TypeOK
  KeepsLatest
PROPERTIES
  Settles
  PlaceReturned
CHECK_DEADLOCK FALSE
