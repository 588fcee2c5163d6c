SPECIFICATION FairSpec
CONSTANTS
  NTasks = 1
  MaxAttempt = 1
  MaxRetries = 0
  Engine = {e1, e2}
  NoPid = NoPid
  Hooks <- GateHooks
  AgentOutcomes = {"success", "failure", "usage_limit"}
  HookOutcomes = {TRUE, FALSE}
  Faults = {"git"}
  Reader = {r1}
  SerialCommands = FALSE
  KillMayFail = TRUE
  MaxSpawns = 2
  MaxStops = 0
  MaxCrashes = 1
CHECK_DEADLOCK FALSE
PROPERTY RunningEnds
