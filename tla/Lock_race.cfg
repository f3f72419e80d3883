SPECIFICATION Spec
CONSTANTS
    s1 = s1  s2 = s2
    u1 = u1  u2 = u2
    c1 = c1
    r1 = r1  r2 = r2
    NoSession = NoSession
    NoFwCloud = NoFwCloud
    Users <- OneUser
    UserOf <- MCUserOf
    Sessions = {s1, s2}
    FwClouds = {c1}
    Requests = {r1, r2}
    Admins <- NoAdmins
INVARIANT OthersOnlyRead
CHECK_DEADLOCK FALSE
