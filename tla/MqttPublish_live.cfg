SPECIFICATION FairSpec
CONSTANTS
    AppThread = {t1, t2}
    YieldThread = y
    Request = {r1, r2}
    Null = Null
    MAX_PACKET_ID = 4
    MAX_REPUB_NUM = 1
    StartIds = {3}
    MaxIssued = 1
    TimelySender = TRUE
    CallbackPublishes = {"PUBLISH_SUCCESS"}
PROPERTY ImplementsContract
PROPERTY PublishReturns
PROPERTY AcceptedIsNotified
