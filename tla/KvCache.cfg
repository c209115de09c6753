SPECIFICATION CacheSpec
CONSTANTS
    N = 5
    Inputs <- MCInputs
INVARIANTS
    LinksMirror
    CountExact
    
    GroupsAligned
    ServesOneRequest
    LongestFit
PROPERTIES
    KeepsEvictionOrder
CHECK_DEADLOCK FALSE
