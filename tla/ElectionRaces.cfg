SPECIFICATION Spec
CONSTANTS
  N = 4
  Rank <- Rank4c
  Crashable <- MCServers
  Initiators <- MCServers
  BusyComs <- None
  MaxCrashes = 2
  DnsMayFail = FALSE
  SleepCoversElection = FALSE
INVARIANTS
  OldPrimaryForgotten
  AtMostOneFlagged
  AnnouncedAfterRegistered
CHECK_DEADLOCK FALSE
