SPECIFICATION FairSpec
CONSTANTS
  NTasks = 2
  MaxAttempt = 3
  MaxRetries = 1
  Engine = {e1, e2}
  NoPid = NoPid
  Hooks <- ReviewedHooks
  AgentOutcomes = {"success"}
  HookOutcomes = {TRUE}
  Faults = {}
  Reader = {r1}
  SerialCommands = TRUE
  KillMayFail = TRUE
  MaxSpawns = 3
  MaxStops = 1
  MaxCrashes = 1
CHECK_DEADLOCK FALSE
PROPERTY PlanFinishes
