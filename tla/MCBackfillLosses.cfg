SPECIFICATION Spec
CONSTANTS
  Created <- TwoInOneSecond
  PageSize = 1
  Concurrency = 1
  SubdivisionFactor = 2
  BackfillLimit = 0
  TimeRanges <- OneRange
  MaxRequests = 2
INVARIANTS
  CutLosesNothing
  StartedIsResumed
CHECK_DEADLOCK FALSE
