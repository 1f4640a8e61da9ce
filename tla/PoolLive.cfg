SPECIFICATION FairSpec
CONSTANTS
    a1 = a1
    a2 = a2
    q1 = q1
    q2 = q2
    q3 = q3
    Accounts <- OneAccount
    Requests <- TwoRequests
    NoAccount = NoAccount
    PlanOf <- FreePlan
    MaxConcurrencies = {}
    InitConcurrency = 1
    Overrides = {}
    Outcomes = {"ok", "401", "missing_scope"}
    UsageHeaders = {"none"}
    BodyPlans = {}
    Bands = {"healthy"}
    CleanSettings = {TRUE, FALSE}
PROPERTIES EventuallyFiled RemovedLeaves 
