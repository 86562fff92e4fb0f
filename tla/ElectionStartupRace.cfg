SPECIFICATION Spec
CONSTANTS
  N = 3
  Rank <- Rank3
  Crashable <- MCServers
  Initiators <- MCServers
  BusyComs <- Second
  MaxCrashes = 2
  DnsMayFail = TRUE
  SleepCoversElection = FALSE
INVARIANTS
  TypeOK
  ElectedOutranksBackups
  BackupsNeverForgotten
  FlaggedArePrimaries
PROPERTY RefinesSuccession
CHECK_DEADLOCK FALSE
