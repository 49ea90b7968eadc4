SPECIFICATION FairSpec
CONSTANTS
  NoStep = NoStep
  NoExec = NoExec
  NoOutput = NoOutput
  NoPrint = NoPrint
  Steps = {"work"}
  Entry = "work"
  Edges <- SoloEdges
  Gates <- InputGates
  HasPolicy = TRUE
  Required = {"result"}
  MaxStalled = 2
  Fingerprints = {"f1", "f2"}
  MaxRounds = 3
  MaxTasks = 3
  MaxCrashes = 1
  Faults = {"transient", "bad_result", "unreachable", "shutdown", "store"}
  Outputs = {"more", "done"}
INVARIANT LoopsMakeProgress
INVARIANT VerifiedCompletion
PROPERTY RunningSettles
CHECK_DEADLOCK FALSE
