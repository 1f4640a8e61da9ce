SPECIFICATION CoreSpec
CONSTANTS
    a1 = a1
    a2 = a2
    q1 = q1
    q2 = q2
    q3 = q3
    Accounts <- OneAccount
    Requests <- TwoRequests
    NoAccount = NoAccount
    PlanOf <- FreePlan
    MaxConcurrencies = {}
    InitConcurrency = 2
    Overrides = {0}
    Outcomes = {"ok", "429", "402", "server"}
    UsageHeaders = {"none"}
    BodyPlans = {}
    Bands = {"healthy", "warm"}
    CleanSettings = {TRUE, FALSE}
    Ids = {1, 2, 3}
    Views <- RotatingViews
    Excludes = {{1}}
    MaxChanges = 1
    CursorMod = 6
SYMMETRY RequestSymmetry
INVARIANTS TypeOK InFlightCounted BucketsSound
PROPERTIES GoneForGood BestFirst
