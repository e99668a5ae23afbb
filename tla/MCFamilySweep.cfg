\* A sweep over the user's rows while one of them is being rotated.
SPECIFICATION Spec
CONSTANTS
    web = web
    mobile = mobile
    login = login
    Root = {login}
    Request = {r1, r2}
    Client = {web}
    NoSession = NoSession
    NoFamily = NoFamily
    Free = Free
    RootRow <- OnlineRows
    RefreshLife = 2
    AccessLife = 1
    IdlePolicies = {1}
    Kinds = {"refresh", "user"}
    MaxClock = 0
SYMMETRY Requests
INVARIANTS SweepEndsEverySession
CHECK_DEADLOCK FALSE
