SPECIFICATION ResponseCacheSpec
CONSTANTS
    CacheTTL = 1
    MaxEntries = 2
    MaxPerEntry = 4
    RcRequests = {1, 2}
    RcResponses = 3
    RcHorizon = 2
INVARIANT CallsSentOnce
CHECK_DEADLOCK FALSE
