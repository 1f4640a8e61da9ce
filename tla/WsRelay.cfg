SPECIFICATION FairSpec
CONSTANTS
    r1 = r1
    r2 = r2
    Requests = {r1, r2}
    MaxRetries = 1
    MaxFaults = 1
INVARIANTS RequestsRegistered 
PROPERTY Returns
CHECK_DEADLOCK FALSE
