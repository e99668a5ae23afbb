\* Three requests of two clients on one online family, with the fairness of the scheduler.
SPECIFICATION FairSpec
CONSTANTS
    web = web
    mobile = mobile
    login = login
    Root = {login}
    Request = {r1, r2, r3}
    Client = {web, mobile}
    NoSession = NoSession
    NoFamily = NoFamily
    Free = Free
    RootRow <- OnlineRows
    RefreshLife = 2
    AccessLife = 1
    IdlePolicies = {1}
    Kinds = {"refresh", "revoke_refresh", "session", "user"}
    MaxClock = 1
PROPERTIES EveryRequestEnds
CHECK_DEADLOCK FALSE
