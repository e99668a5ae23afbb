SPECIFICATION Spec
CONSTANTS
    AccountRequest <- Two
    Email <- Two
    Password <- Two
    NoPassword = NoPassword
    Identity <- Two
    ResetLink = {l1}
    VerifyLink = {l2}
    RecoveryLink = {l3}
    NoLink = NoLink
    RequiredAction = {"update_password", "update_profile"}
    AccountScenes <- ScenesOfAccount
    MfaRequest <- Two
    Ceremony = {c1, c2}
    FirstSecret = s0
    NoSecret = NoSecret
    FirstBatch = b0
    NoMfa = NoMfa
    MaxAttempts = 1
    MaxTotpStep = 1
    MfaScenes <- ScenesOfMfa
    AuthzRequest <- Two
    Exchange <- Two
    Code = {c1}
    Pushed = {u1}
    Scope = {email, offline_access}
    Offline = offline_access
    NoAuthz = NoAuthz
    Device = {d1}
    DeviceClient = {k1, k2}
    SelfNamed = {k1}
    DeviceUser <- Two
    Poll <- Three
    Confirm <- Two
    NoDevice = NoDevice
    Role <- Three
    RoleGroup = {g1}
    RoleAdmin <- Two
    NoRole = NoRole
    Address = {e1, e2}
    RealmAddress = {e1}
    Invitation <- Two
    OrgRequest <- Three
    NoInvitation = NoInvitation
    NoAddress = NoAddress
    Key <- Two
    KeyRequest <- Three
    NoKey = NoKey
    LoginState = {t1}
    Callback <- Two
    Upstream = {x1}
    LocalUser <- Two
    Mail = {m1}
    Nothing = Nothing
    Ticket = {t1}
    Rpt <- Two
    Party = {y1}
    Access = {a1}
    Grant <- Three
    Nil = Nil
INVARIANTS
    TypesOK
    VerifiedAddressWasProved MethodLeft
    FactorsUsedOnce SignInsComplete
    SpentIsRefused UsedAtMostOnce
    NoRoleContainsItself
    AccountsFollowOrganization
    KeyUseWasGood
    SubjectHasOneAccount
    UpgradeReplaces
PROPERTIES
    DeletedForGood SupersededCodesDead CodeNeedsApproval DeletionSparesOthers
CHECK_DEADLOCK FALSE
