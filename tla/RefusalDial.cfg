SPECIFICATION FairSpec
CONSTANTS
    Posts = {"p1", "p2"}
    Gets = {"g"}
    Asks <- MCAsks
    Ranks = {"w0", "w1"}
    Requests = {"r"}
    Initial = 0
    Float32 <- MCFloat32
    None = "none"
CHECK_DEADLOCK FALSE
INVARIANTS
    OneLambdaPerRequest
    RanksAgreeInService
    AnswerIsTrue
    InconsistencyIsReported
    BlocksOnlyWhenUncertain
PROPERTIES
    ForeignPauseKept
    ReturnsToService
    Answered
