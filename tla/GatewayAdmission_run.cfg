SPECIFICATION Spec
CONSTANTS
  Reqs = {r1, r2, r3}
  Bodies <- AllBodies
  LocalAgents = {"mock"}
  RemoteEnabled = TRUE
  MaxActive = 2
  MaxRetained = 1
  MaxCrashes = 1
  MaxStoreFaults = 2
SYMMETRY Symmetry
INVARIANTS OneRunPerKey RepliesAgree SlotsAccounted FinalAnswerHasNoRun
CHECK_DEADLOCK FALSE
