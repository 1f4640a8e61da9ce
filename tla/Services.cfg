SPECIFICATION ServicesSpec
CONSTANTS
    Interval = 4
    IdleThreshold = 3
    Grace = 6
    KaHorizon = 16
    CacheTTL = 1
    MaxEntries = 2
    MaxPerEntry = 4
    RcRequests = {1, 2}
    RcResponses = 3
    RcHorizon = 2
    ApiKeySet = {k1}
    ConfigKeys = {k0}
    AkClients = {c1, c2}
    AkAdmins = {m1, m2}
    Nobody = Nobody
    FlushAt = 2
    RowsPerStmt = 1
    Flushers = {f1, f2}
    Clearers = {x1, x2}
    UlEntries = 4
    QueueCap = 2
    BatchSize = 2
    RowsPerInsert = 1
    Submitters = {s1, s2}
    DcRecords = 4
    DpHorizon = 8
    MaxItems = 2
    MaxPieces = 3
    TrAttempts = 2
    RtTurns = 2
    RtItems = 2
    RsAccounts = {a1}
    MaxTasks = 3
    Priorities = {0}
    Urgent = 2
    RsQueueCap = 1
    MaxConcurrency = 1
    RetryMaxAttempts = 2
    NoTask = NoTask
    Urls = {u1}
    PpWorkers = {w1, w2}
    MaxPpEntries = 1
    IsolationThreshold = 2
    NoEntry = NoEntry
    OaSessions = {o1}
    OaHandlers = {h1, h2}
    NoSession = NoSession
    Pool <- ScanPool
    Requests = {q1, q2}
    Views <- ScanViews
    Excludes <- ScanExcludes
    NoAccount = NoAccount
    StRequests = {g1, g2}
    Updates <- PageUpdates
    Keep = Keep
INVARIANTS
    KeepaliveSound ResponseCacheSound KeysSound UsageLogSound DialogSound 
    StreamLegal StreamSound InputSound PendingPlaced ProxiesSound OAuthSound BestOfSeen
 
CHECK_DEADLOCK FALSE
