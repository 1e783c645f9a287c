SPECIFICATION FairSpec
CONSTANTS
  NoBlock = NoBlock
  Hash <- ForkTree
  Parent <- ForkParent
  Height <- ForkHeight
  LogBlocks <- ForkLogs
  StartBlock = 0
  ChunkSize = 2
  SearchDepth = 3
  Readopt = FALSE
  MaxFaults = 1
INVARIANTS
  LinkedLedger
  EventsComplete
  FinalityMatchesWatermarks
  SafeIsCanonical
  NoFalseSafeViolation
  NoIntegrityFailure
  OperatorsSeeTruth
PROPERTIES
  SafePrefixStable
  RollsBackOnlyOrphans
  CatchesUp
