SPECIFICATION Spec
CONSTANTS
  Nodes = {n1, n2}
  Conns = {c1, c2}
  Starts = {s1}
  Calls = {q1}
  None = None
  RequirePairing = TRUE
  MaxRestarts = 1
SYMMETRY Symmetry
INVARIANTS RegisteredIsReachable OwnershipTrue AnswersTrue
CHECK_DEADLOCK FALSE
