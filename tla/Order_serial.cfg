SPECIFICATION Spec
CONSTANTS
    g1 = g1  r1 = r1  r2 = r2
    NoGroup = NoGroup
    Kinds <- AllKinds
    Groups <- OneGroup
    FirstRules = 2
    MaxId = 4
    Requests <- OneRequest
    MaxOps = 0
    MaxSelection = 2
    Scattered = FALSE
INVARIANT TypeOK
INVARIANT ConsecutiveAtRest
INVARIANT DistinctAtRest
INVARIANT GroupsTogether
PROPERTY MovedNextToDestination
PROPERTY ImplementsRuleList
CHECK_DEADLOCK FALSE
