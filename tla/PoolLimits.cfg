SPECIFICATION Spec
CONSTANTS
    a1 = a1
    a2 = a2
    q1 = q1
    q2 = q2
    q3 = q3
    Accounts <- OneAccount
    Requests <- ThreeRequests
    NoAccount = NoAccount
    PlanOf <- PremiumPlan
    MaxConcurrencies = {1}
    InitConcurrency = 2
    Overrides = {2}
    Outcomes = {"429", "dropped"}
    UsageHeaders = {"none", "full5h"}
    BodyPlans = {"free"}
    Bands = {"healthy", "warm"}
    CleanSettings = {FALSE}
SYMMETRY RequestSymmetry
INVARIANT NeverOverLimit
 
