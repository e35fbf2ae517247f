SPECIFICATION FairSpec
CONSTANTS
  Created <- Straddling
  PageSize = 1
  Concurrency = 2
  SubdivisionFactor = 2
  BackfillLimit = 3
  TimeRanges <- MovingRanges
  MaxRequests = 2
INVARIANTS
  TypeOK
  WorkQueueCovers
  CheckpointCovers
  RangeCompleteIsTruthful
  CompleteIsTruthful
PROPERTIES
  EmittedOnce
  ImplementsContract
  EveryRequestEnds
CHECK_DEADLOCK FALSE
