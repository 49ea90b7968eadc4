SPECIFICATION FairSpec
CONSTANTS
  Browsers = {b1, b2}
  Names = {"a", "ab"}
  SafeNames = {"a"}
  Wants <- CreateA
  Longer <- PrefixOfOther
  AllowCreate = TRUE
  MaxChurn = 1
  MaxFaults = 1
INVARIANT ShownIsPumped
PROPERTY PumpsStop
CHECK_DEADLOCK FALSE
