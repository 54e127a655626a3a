SPECIFICATION Spec
CONSTANTS
    AppThread = {t1}
    YieldThread = y
    Call = {c1, c2, c3, c4}
    Topic = {f, g}
    Handler = {h}
    Wildcard = {}
    Null = Null
    MAX_MESSAGE_HANDLERS = 4
    HasEventHandler = TRUE
    Adversity = {}
SYMMETRY PlainSymmetry
INVARIANT TableIsWhatUserWants
INVARIANT TableIsSubscribed
