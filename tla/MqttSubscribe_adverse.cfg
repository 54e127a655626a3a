SPECIFICATION FairSpec
CONSTANTS
    AppThread = {t1}
    YieldThread = y
    Call = {c1, c2, c3}
    Topic = {f}
    Handler = {h, k}
    Wildcard = {}
    Null = Null
    MAX_MESSAGE_HANDLERS = 2
    HasEventHandler = TRUE
    Adversity = {"send_fails", "unsubscribe_while_pending", "renewal_refused"}
INVARIANT TopicFilterValid
INVARIANT NoTopicLeak
INVARIANT OneAnswer
PROPERTY SubscribeAnswered
