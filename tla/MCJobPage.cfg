SPECIFICATION PageSpec
CONSTANTS
  NTasks = 1
  HookPhases = {"pre_task", "post_task"}
  MaxAttempt = 1
  MaxRetries = 1
  MaxRuns = 2
  MaxStops = 1
  Estimate = 2
CONSTRAINTS EndingPages FirstRunMarked
CHECK_DEADLOCK FALSE
INVARIANTS FinalPageTrue FinalTokensAddUp CompletedPageQuiet TimesOrdered
