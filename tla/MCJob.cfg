SPECIFICATION Spec
CONSTANTS
  NTasks = 2
  MaxAttempt = 3
  MaxRetries = 1
  Engine = {e1, e2}
  NoPid = NoPid
  Hooks <- ReviewedHooks
  AgentOutcomes = {"success", "failure", "usage_limit"}
  HookOutcomes = {TRUE, FALSE}
  Faults = {"plan"}
  Reader = {}
  SerialCommands = TRUE
  KillMayFail = TRUE
  MaxSpawns = 2
  MaxStops = 1
  MaxCrashes = 1
SYMMETRY EngineSymmetry
CHECK_DEADLOCK FALSE
INVARIANTS TypeOK OneEngine TasksInOrder HandoffBeforeCompleted HandoverChain
  RowsOwned CheckoutOwned LimitKept StopHeeded
PROPERTY RefinesPlanProgress
