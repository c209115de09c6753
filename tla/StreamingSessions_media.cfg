SPECIFICATION Spec
CONSTANTS
    Requests = {s1}
    Sessions = {s1}
    Prompts <- FirstPrompts
    Chunks <- SeveralItems
    Tags <- OneTag
    Samples = {2}
    MaxSampled = 1
    MaxOutput = 2
    MaxChunks = 2
    MaxActive = 2
    MaxSlots = 2
    BlockSize = 2
    Scales = {1, 2}
    AlignedStops = FALSE
INVARIANTS
    HashesFingerprint
CHECK_DEADLOCK FALSE
