SPECIFICATION FairSpec
CONSTANTS
    Caller = {"a", "b"}
    BufLines = 4
    MaxCalls = 3
    MaxUnsolicited = 1
    Adversity = {}
CHECK_DEADLOCK FALSE
INVARIANT ResultTrue
INVARIANT RespLive
PROPERTY CallsReturn
