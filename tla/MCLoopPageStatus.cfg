SPECIFICATION PageSpec
CONSTANTS
  NDims = 2
  MaxIterations = 3
  MaxConcurrent = 2
  MaxRetries = 1
  Replies <- Agents
  Fresh = TRUE
  FirstVerdicts <- NoVerdicts
  MaxRows = 4
  MaxStops = 1
  MaxRuns = 1
CHECK_DEADLOCK FALSE
INVARIANT FailedIterationShown
