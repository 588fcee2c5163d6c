SPECIFICATION FairSpec
CONSTANTS
  PipeSize = 1
  MaxEvents = 2
  MaxErr = 2
  PromptSize = 1
  SinceLast = TRUE
  Cli = {"claude", "codex"}
  MaxRetries = 1
CHECK_DEADLOCK FALSE
INVARIANTS DeadOnReturn SuccessWhole LimitNotRetried SessionsSound TokensOnce
PROPERTY StepEnds
