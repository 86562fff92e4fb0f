SPECIFICATION FairSpec
CONSTANTS
  N = 4
  Rank <- Rank4
  Crashable <- MCServers
  Initiators <- Second
  BusyComs <- None
  MaxCrashes = 2
  DnsMayFail = TRUE
  SleepCoversElection = FALSE
INVARIANTS
  AtMostOneLivePrimary
  NoInconsistentList
PROPERTIES
  FailoverCompletes
  PrimaryLookupSafe
CHECK_DEADLOCK FALSE
