SPECIFICATION Spec
CONSTANTS
    MaxId = 2
    LastItem = 1
    MaxCopies = 1
INVARIANT TypeOK
 
INVARIANT RestoreGivesAll
 
PROPERTY MutexFreed
CHECK_DEADLOCK FALSE
