SPECIFICATION Spec
CONSTANTS
    a1 = a1
    a2 = a2
    q1 = q1
    q2 = q2
    s1 = s1
    Accounts <- TwoAccounts
    NoAccount = NoAccount
    Requests <- TwoRequests
    Sessions = {s1}
    SessionOf <- OneSession
    Kinds <- AnyAndResponses
    Paid = {q2}
    Impatient = {q1}
    Limit = 1
    MaxRetries = 1
    Free = {a1}
    PreferPaid = FALSE
INVARIANTS SlotsSound NeverBackToExcluded AnsweredOnce
PROPERTY BindingKept
CHECK_DEADLOCK FALSE
