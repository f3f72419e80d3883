SPECIFICATION Spec
CONSTANTS
    MaxRow = 3
    MaxDay = 3
    MaxBatch = 1
    Retention = 1
    MaxFaults = 2
    Absent = Absent
    Torn = Torn
INVARIANT TypeOK
INVARIANT NothingLost
INVARIANT OnceAtRest
PROPERTY ExpiredLeaves
CHECK_DEADLOCK FALSE
