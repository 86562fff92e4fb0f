SPECIFICATION FairSpec
CONSTANTS
  N = 5
  Contact <- ContactBackup
  Crashable <- Backups
  MaxCrashes = 2
INVARIANTS
  TypeOK
  DeferredFindsPrimary
  EverybodyNotified
PROPERTIES
  RefinesLog
  AllJoinByNewest
CHECK_DEADLOCK FALSE
