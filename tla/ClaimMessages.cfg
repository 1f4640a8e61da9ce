SPECIFICATION Spec
CONSTANTS
    a1 = a1
    a2 = a2
    q1 = q1
    q2 = q2
    s1 = s1
    Accounts <- TwoAccounts
    NoAccount = NoAccount
    Requests <- OneRequest
    Sessions = {s1}
    SessionOf <- OneSession
    Kinds <- AnyMessages
    Paid = {}
    Impatient = {}
    Limit = 1
    MaxRetries = 1
    Free = {a1}
    PreferPaid = FALSE
CHECK_DEADLOCK FALSE
INVARIANT MessagesOneAnswer
