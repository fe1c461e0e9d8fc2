SPECIFICATION StackSpec
CONSTANTS
    Requests = {r1}
    access = access
    address = address
    NULL = NULL
    Tokens <- MCTokens
    Addresses <- MCAddresses
    Keys <- MCKeys
    AccessTokens <- MCAccessTokens
    Expiry <- MCExpiry
    Traffic <- MCTraffic
    Buckets <- MCBuckets
    MaxOpen = 1
    Limit = 1
    WindowSeconds = 2
    Resolution = 1
    MaxTime = 2
    MaxHits = 3
INVARIANTS
    UniformAnswers
CHECK_DEADLOCK FALSE
