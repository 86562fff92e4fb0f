SPECIFICATION FairSpec
CONSTANTS
  N = 4
  Rank <- Rank4b
  Crashable <- First
  Initiators <- Second
  BusyComs <- None
  MaxCrashes = 1
  DnsMayFail = FALSE
  SleepCoversElection = TRUE
PROPERTY FetchEnds
CHECK_DEADLOCK FALSE
