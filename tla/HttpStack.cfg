SPECIFICATION StackSpec
CONSTANTS
    Requests = {r1, r2, r3}
    access = access
    address = address
    NULL = NULL
    Tokens <- MCTokens
    Addresses <- MCAddresses
    Keys <- MCKeys
    AccessTokens <- MCAccessTokens
    Expiry <- MCExpiry
    Traffic <- MCTraffic
    Buckets <- MCBuckets
    MaxOpen = 2
    Limit = 1
    WindowSeconds = 2
    Resolution = 2
    MaxTime = 5
    MaxHits = 3
INVARIANTS
    AnswersCarryTheirId
    MetricsAddUp
    WindowCap
    ThrottledByOwnTraffic
PROPERTIES
    RefusedOnlyAtLimit
    RetryAfterSuffices
SYMMETRY Symmetry
CHECK_DEADLOCK FALSE
