SPECIFICATION LivenessSpec
CONSTANTS
    a1 = a1
    a2 = a2
    q1 = q1
    q2 = q2
    s1 = s1
    Accounts <- TwoAccounts
    NoAccount = NoAccount
    Requests <- OneRequest
    Sessions = {s1}
    SessionOf <- OneSession
    Kinds <- AnyKind
    Paid = {}
    Impatient = {q1}
    Limit = 1
    MaxRetries = 2
    Free = {a1}
    PreferPaid = FALSE
    Ids = {1, 2}
    Views <- TierViews
    Excludes = {{}, {1}}
    MaxChanges = 2
    CursorMod = 2
    Chain <- GlobalAndAccount
    Callers = {c1, c2}
    Rpms = {0, 2}
    Window = 2
    Durations <- ShortThenLong
    EvictionTTL = 3
PROPERTIES LimiterSound AcquireReturns  HandlersReturn GlobalServes
CHECK_DEADLOCK FALSE
