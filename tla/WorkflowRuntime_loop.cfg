SPECIFICATION Spec
CONSTANTS
  NoStep = NoStep
  NoExec = NoExec
  NoOutput = NoOutput
  NoPrint = NoPrint
  Steps = {"plan", "exec"}
  Entry = "plan"
  Edges <- LoopEdges
  Gates <- ApprovalGates
  HasPolicy = TRUE
  Required = {"task"}
  MaxStalled = 0
  Fingerprints = {"f1", "f2"}
  MaxRounds = 2
  MaxTasks = 3
  MaxCrashes = 1
  Faults = {"transient", "fatal_create", "render", "fatal_wait", "unreachable", "deadline", "bad_result", "shutdown"}
  Outputs = {"go", "done", "odd"}
INVARIANT RunsWithinLimits
INVARIANT PathFollowsRouting
PROPERTY NoStepAfterCancelIntent
CHECK_DEADLOCK FALSE
