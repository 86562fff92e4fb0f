SPECIFICATION FairSpec
CONSTANTS
  N = 4
  Contact <- ContactBackup
  Crashable <- None
  MaxCrashes = 0
PROPERTY AllJoinInTurn
CHECK_DEADLOCK FALSE
