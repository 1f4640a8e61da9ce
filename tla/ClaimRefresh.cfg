SPECIFICATION Spec
CONSTANTS
    b1 = b1
    r1 = r1
    Background = {b1}
    Admins = {r1}
    Scenarios = {{}}
    MaxRT = 2
    MaxTime = 1
    Life = 3
    Margin = 1
    CacheClaim = 2
    WaitClaim = 2
    CoolFor = {1}
    MaxRetries = 2
PROPERTY ErrorOnlyIfRevoked
CHECK_DEADLOCK FALSE
