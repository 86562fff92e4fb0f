SPECIFICATION FairSpec
CONSTANTS
  WSize = 3
  RSize = 2
  Names <- FileNames
  Tasks <- SomeTasks
  WordSize = 1
  MaxRequests = 4
INVARIANTS
  TypeOK
  ExecutedAsAsked
  ToldTheTruth
PROPERTIES
  RefinesStream
  Answered
  SessionEnds
CHECK_DEADLOCK FALSE
