SPECIFICATION FairSpec
CONSTANTS
  NDims = 3
  Dims <- LongerDims
  MaxIterations <- LongerIterations
  Select = "failed"
  MaxConcurrent = 2
  MaxRetries = 1
  MaxReplans = 0
  Replies = {"valid", "malformed", "usage_limit"}
  MaxVersion = 1
  MaxIteration = 2
  MaxSpawns = 2
  Reader = {}
  KillMayFail = TRUE
  MaxStops = 1
  MaxCrashes = 0
CHECK_DEADLOCK FALSE
INVARIANTS RowsOwned LimitKept StopHeeded
PROPERTY RunningEnds
