SPECIFICATION Spec
CONSTANTS
  NDims = 2
  Dims <- LongerDims
  MaxIterations <- LongerIterations
  Select = "failed"
  MaxConcurrent = 2
  MaxRetries = 1
  MaxReplans = 1
  Replies = {"valid", "malformed", "usage_limit", "raises"}
  MaxVersion = 2
  MaxIteration = 3
  MaxSpawns = 2
  Reader = {r1}
  KillMayFail = TRUE
  MaxStops = 0
  MaxCrashes = 1
CHECK_DEADLOCK FALSE
INVARIANTS CompletedByPlanner VerdictReal
PROPERTIES ClosedWhole PassesRechecked RefinesLoopProgress
