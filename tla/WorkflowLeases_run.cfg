SPECIFICATION Spec
CONSTANTS
  Workspaces = {"a", "b"}
  Repos = {"a"}
  Targets <- MCTargets
  MaxReleaseAttempts = 2
  MaxRev = 1
  MaxFaults = 2
INVARIANTS   ForeignWriteStops NoLeaseForgotten
CHECK_DEADLOCK FALSE
