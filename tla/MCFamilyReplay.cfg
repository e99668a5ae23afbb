\* A replay of an old token while a later one is being rotated.
SPECIFICATION Spec
CONSTANTS
    web = web
    mobile = mobile
    login = login
    Root = {login}
    Request = {r1, r2, r3}
    Client = {web}
    NoSession = NoSession
    NoFamily = NoFamily
    Free = Free
    RootRow <- OnlineRows
    RefreshLife = 2
    AccessLife = 1
    IdlePolicies = {1}
    Kinds = {"refresh", "revoke_refresh", "session"}
    MaxClock = 0
SYMMETRY Requests
INVARIANTS ReplayRevokesFamily
CHECK_DEADLOCK FALSE
