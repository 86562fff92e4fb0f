SPECIFICATION FairSpec
CONSTANTS
  c1 = c1
  c2 = c2
  s1 = s1
  s2 = s2
  Clients <- TheClients
  Servers <- TheServers
  Configured = s1
  User <- OneUser
  MaxActive = 1
  ClientFiles = 2
  ServerFiles = 2
  MaxEvents = 2
INVARIANTS
  TypeOK
  WholeAddress
  LimitKept
PROPERTIES
  ServedOrEnded
  PlacesReturned
CHECK_DEADLOCK FALSE
