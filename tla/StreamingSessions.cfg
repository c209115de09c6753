SPECIFICATION Spec
CONSTANTS
    Requests = {s1, s2, p}
    Sessions = {s1, s2}
    Prompts <- FirstPrompts
    Chunks <- SingleItems
    Tags <- OneTag
    Samples = {2}
    MaxSampled = 2
    MaxOutput = 2
    MaxChunks = 2
    MaxActive = 2
    MaxSlots = 2
    BlockSize = 2
    Scales = {1, 2}
    AlignedStops = FALSE
SYMMETRY Symmetry
INVARIANTS
    
    SlotsAccounted
    HashesFingerprint
CHECK_DEADLOCK FALSE
