SPECIFICATION Spec
CONSTANTS
  N = 4
  Rank <- Rank4
  Crashable <- MCServers
  Initiators <- MCServers
  BusyComs <- None
  MaxCrashes = 1
  DnsMayFail = FALSE
  SleepCoversElection = TRUE
INVARIANT AtMostOneLivePrimary
CHECK_DEADLOCK FALSE
