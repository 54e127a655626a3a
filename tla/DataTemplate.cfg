SPECIFICATION FairSpec
CONSTANTS
    App = {"a"}
    MaxCalls = 2
    Calls <- MCCalls
    MAX_APPENDING_REQUEST_AT_ANY_GIVEN_TIME = 1
    MAX_EVENT_WAIT_REPLY = 1
    Adversity = {"construct_fails", "control_to_waiter"}
CHECK_DEADLOCK FALSE
INVARIANT OutcomesTrue
INVARIANT OneAnswer
PROPERTY CallsReturn
PROPERTY RequestsAnswered
