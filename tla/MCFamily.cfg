\* Four requests on one family: rotation, replay and revocation in every
\* interleaving.  Three requests of every kind on the family and a browser's row,
\* with the clock and a realm policy that changes.
SPECIFICATION SceneSpec
CONSTANTS
    web = web
    mobile = mobile
    login = login
    browser = browser
    Root = {login, browser}
    Request = {r1, r2, r3, r4}
    Client = {web, mobile}
    NoSession = NoSession
    NoFamily = NoFamily
    Free = Free
    RootRow <- OfflineRows
    RefreshLife = 2
    AccessLife = 1
    IdlePolicies = {1, 3}
    Kinds = {"refresh", "revoke_refresh", "revoke_access", "session", "logout", "others", "application", "user", "cleanup"}
    MaxClock = 2
SYMMETRY Requests
INVARIANTS TypeOK OneSuccessor OneCurrentRow ReplayRevokesSuccessor OfflineMaximum AnsweredRevocation
PROPERTIES ImplementsContract LogoutKeepsOffline TheftStaysInFamily
CHECK_DEADLOCK FALSE
