SPECIFICATION Spec
CONSTANTS
    AppThread = {t1, t2}
    YieldThread = y
    Request = {r1, r2, r3}
    Null = Null
    MAX_PACKET_ID = 4
    MAX_REPUB_NUM = 2
    StartIds = {0, 3}
    MaxIssued = 1
    TimelySender = TRUE
    CallbackPublishes = {"PUBLISH_SUCCESS"}
SYMMETRY Symmetry
INVARIANT TypeOK
INVARIANT SweepHoldsLiveNodes
INVARIANT ErrorPathHoldsLiveNode
INVARIANT WireMatchesCaller
INVARIANT IdsUniqueUntilWrap
INVARIANT WaitListBounded
INVARIANT NoSelfDeadlock
