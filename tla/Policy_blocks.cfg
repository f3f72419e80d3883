SPECIFICATION Spec
CONSTANTS
    Modes <- InBlocks
    MultiportLimit = 2
    Proto <- Protocols
    Values <- PacketValues
    Banned <- BannedSources
    Policies <- SmallPolicies
INVARIANT MarksForwarded
CHECK_DEADLOCK FALSE
