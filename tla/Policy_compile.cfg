SPECIFICATION Spec
CONSTANTS
    Modes <- EveryMode
    MultiportLimit = 2
    Proto <- Protocols
    Values <- PacketValues
    Banned <- BannedSources
    Policies <- SmallPolicies
INVARIANT MeansPolicy
INVARIANT MarksMatching
CHECK_DEADLOCK FALSE
