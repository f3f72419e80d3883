SPECIFICATION StatusSpec
CONSTANTS
    g1 = g1  r1 = r1  r2 = r2
    NoGroup = NoGroup
    Groups <- OneGroup
    FirstRules = 2
    MaxId = 4
    Requests <- TwoRequests
    MaxOps = 3
    MaxSelection = 2
    OrderOfLast = FALSE
SYMMETRY Symmetry
INVARIANT StatusTypeOK
INVARIANT CatchAllLast
INVARIANT CompiledIsCurrent
INVARIANT InstalledIsCurrent
PROPERTY OthersKeepOrder
PROPERTY PlacedBeside
PROPERTY EmptiedGroupGoes
CHECK_DEADLOCK FALSE
