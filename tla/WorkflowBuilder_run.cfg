CONSTANTS
    k1 = k1
    k2 = k2
    h1 = h1
    h2 = h2
    a1 = a1
    NoDraft = NoDraft
    Keys <- MCKeys
    Handlers <- MCHandlers
    Approvers <- MCApprovers
    MaxRequests = 4
SPECIFICATION Spec
CHECK_DEADLOCK FALSE
SYMMETRY Symmetry
INVARIANTS
    TurnsAreSerial
    CurrentIsLatestValid
    ApprovedIsInspected
