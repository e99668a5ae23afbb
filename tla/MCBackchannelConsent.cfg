\* Two approvals of the same user at the same time.
SPECIFICATION BackchannelSpec
CONSTANTS
    a1 = a1
    a2 = a2
    Auth = {a1, a2}
    Poll = {p1}
    Decision = {d1, d2}
    NoAuth = NoAuth
    Free = Free
    NeverPolled = NeverPolled
    Scopes <- TwoScopes
    Requested <- AskNothing
    Lifetime = 2
    Interval = 1
    Penalty = 1
    Longest = 3
    MaxTime = 1
SYMMETRY Symmetry
INVARIANTS ApprovalRecordsConsent
CHECK_DEADLOCK FALSE
