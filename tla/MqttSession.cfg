SPECIFICATION FairSpec
CONSTANTS
    RandomIntervals = {1000, 1990}
    MAX_RECONNECT_WAIT_INTERVAL = 4000
    MQTT_PING_RETRY_TIMES = 2
    auto_connect_enable = TRUE
    Adversity = {}
INVARIANT NoUseAfterFree
INVARIANT LoopEndsForAReason
INVARIANT EventsTellState
PROPERTY DropsOnlyQuietLinks
PROPERTY SilentPeerNoticed
PROPERTY ComesBack
PROPERTY CallsReturn
