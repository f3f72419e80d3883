SPECIFICATION Spec
CONSTANTS
    r4 = r4
    r6 = r6
    f = f
    h1 = h1
    h2 = h2
    g = g
    q1 = q1
    q2 = q2
    Rules <- MCRules
    RuleVersion <- MCVersion
    Interfaces = {f, h1, h2}
    HostInterfaces = {h1, h2}
    Groups = {g}
    Layouts <- MCLayouts
    MaxId = 4
    Requests = {q1, q2}
    MaxOps = 3
SYMMETRY Symmetry
INVARIANT TypeOK
INVARIANT NoDangling
INVARIANT RemovalsComplete
PROPERTY StaysFilled
CHECK_DEADLOCK FALSE
