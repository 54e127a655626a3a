SPECIFICATION Spec
CONSTANTS
    Handlers = 2
    RepeatLen = 2
    Filter <- MCFilter
    Topic <- MCTopic
    MaxId = 3
    MaxWire = 2
    Adversity = {}
INVARIANT ExactlyOnce
PROPERTY RightHandler
