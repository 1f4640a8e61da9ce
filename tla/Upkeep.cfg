SPECIFICATION UpkeepSpec
CONSTANTS
    b1 = b1
    r1 = r1
    Background = {b1}
    Admins = {r1}
    Scenarios = {{"cache"}, {"transient", "lost", "put"}, {"restart", "db"}, {"cooldown"}}
    MaxRT = 3
    MaxTime = 3
    Life = 3
    Margin = 1
    CacheClaim = 2
    WaitClaim = 2
    CoolFor = {1}
    MaxRetries = 2
    TpRequests = {p1, p2, p3}
    NoOne = NoOne
    LcTokens = {t1}
    MaxRows = 2
    LcJobs = {j1, j2}
INVARIANTS
    TokensSound ExpiryOffBounded
     LifecycleSound
CHECK_DEADLOCK FALSE
