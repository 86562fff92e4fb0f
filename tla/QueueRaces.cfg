SPECIFICATION FairSpec
CONSTANTS
  main = main
  notify = notify
  network = network
  Producer <- Producers
  Consumer <- Consumers
  Operations <- AllOperations
  MaxPushes = 4
INVARIANTS
  TypeOK
  OnlyPopBreaks
  TokenForEachItem
PROPERTY FindsItsTask
CHECK_DEADLOCK FALSE
