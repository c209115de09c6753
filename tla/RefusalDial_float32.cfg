SPECIFICATION Spec
CONSTANTS
    Posts = {"p1", "p2"}
    Gets = {"g"}
    Asks <- TenthAsks
    Ranks = {"w0", "w1"}
    Requests = {"r"}
    Initial = 0
    Float32 <- TenthFloat32
    None = "none"
CHECK_DEADLOCK FALSE
INVARIANT
    BlocksOnlyWhenUncertain
