SPECIFICATION Spec
CONSTANTS
    g1 = g1  r1 = r1  r2 = r2
    NoGroup = NoGroup
    Kinds <- OverlapKinds
    Groups <- NoGroups
    FirstRules = 2
    MaxId = 2
    Requests <- TwoRequests
    MaxOps = 3
    MaxSelection = 1
    Scattered = TRUE
PROPERTY AloneRepairs
SYMMETRY Symmetry
CHECK_DEADLOCK FALSE
