\* A browser polls while the log grows and is reseeded.
SPECIFICATION FeedSpec
CONSTANTS
    Seal = 2
    Limit = 2
    EthRows = 2
    EthBytes = 3
    Channels = {1}
    Sizes = {1, 2}
    LogCap = 3
    MaxRows = 4
    MaxFr = 1
    MaxEth = 2
    MaxClears = 1
    Settled = TRUE
INVARIANT ClientSeesAll
CHECK_DEADLOCK FALSE
