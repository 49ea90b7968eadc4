SPECIFICATION FairSpec
CONSTANTS
    Workflows = {w1, w2}
    Workspaces = {k1, k2}
    Runs = {r1, r2}
    NoLease = NoLease
    Faults = {"crash", "kill", "bind", "drop", "idle"}
    MaxRestarts = 1
INVARIANTS
    OneActiveLeasePerWorkspace
    OpenRunHoldsItsLease
PROPERTY InUseEventuallyClears
CHECK_DEADLOCK FALSE
