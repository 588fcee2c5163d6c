SPECIFICATION PageSpec
CONSTANTS
  NDims = 2
  MaxIterations = 3
  MaxConcurrent = 2
  MaxRetries = 1
  Replies <- Agents
  Fresh = TRUE
  FirstVerdicts <- FirstFailed
  MaxRows = 4
  MaxStops = 1
  MaxRuns = 2
CONSTRAINT NewRunsOnce
CHECK_DEADLOCK FALSE
INVARIANTS FinalLoopPageTrue ScoreTrue FinishedVerdictShown IterationTokensAddUp
