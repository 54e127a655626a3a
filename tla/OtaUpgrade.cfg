SPECIFICATION FairSpec
CONSTANTS
    Image = {"first", "second"}
    Size <- MCSize
    OTA_HTTP_MAX_FETCHED_SIZE = 2
    OTA_BUF_LEN = 2
    MAX_OTA_RETRY_CNT = 2
    MaxBlocks = 5
    Adversity = {}
CHECK_DEADLOCK FALSE
INVARIANT InStep
INVARIANT VerifiedIsImage
PROPERTY NotDeaf
