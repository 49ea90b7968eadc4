SPECIFICATION FairSpec
CONSTANTS
    Scenarios <- MCScenarios
    MaxStops = 1
INVARIANTS
    WriteNeedsLease
    OneVerdict
PROPERTIES
    LaunchedInItsRepo
    FollowerEnds
CHECK_DEADLOCK FALSE
