SPECIFICATION FairSpec
CONSTANTS
  t1 = t1
  t2 = t2
  Tokens <- MCTokens
  TradePrices = {1, 2}
  LaunchPrice = 1
  WorkerID <- MCWorkerID
  BatchSize = 2
  Window = 1
  MaxIngestions = 2
  MaxRecoveries = 1
  MaxFailures = 1
  MaxTime = 1
INVARIANTS
  QueueHonest
  HighSurvives
PROPERTIES
  QueueDrains
CHECK_DEADLOCK FALSE
