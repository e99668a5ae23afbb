SPECIFICATION Spec
CONSTANTS
    Client <- One
    Feature = {ciba, f1}
    Ciba = ciba
    Profile = {pf}
    Policy <- One
    ClientRequest <- Two
    NoClient = NoClient
    ClientScenes <- ScenesOfClients
    Holder <- Two
    Person = {p1}
    Token <- Two
    TokenRequest <- One
    Nobody = Nobody
    TokenScenes <- ScenesOfTokens
    Realm = {r1}
    Provider = {ip1}
    Secret = {s0, s1}
    Empty = s0
    KeyPair = pair
    RealmRequest <- Two
    NoRealm = NoRealm
    RealmScenes <- ScenesOfRealms
    Pending <- Two
    AuthnRequest = {q1}
    Assertion <- AssertionNumbers
    SessionIndex = {i1}
    SamlSession <- Two
    SamlCall <- Three
    NoSaml = NoSaml
    SamlScenes <- ScenesOfSaml
    Entry = {e1}
    DirMail = {m1, m2}
    Account <- Two
    DirJob <- Two
    NoEntry = NoEntry
    DirScenes <- ScenesOfDirectory
    File <- Two
    Command <- Two
    Caller = Caller
    NoCommand = NoCommand
    StackScenes <- ScenesOfStacks
INVARIANTS
    PlatformTypesOK
    PoliciesHeldAtWrites
    SpentTokensStaySpent AnsweredClientsAuthenticated
    RealmKeysKept
    SamlUsedOnce
    LocalAccountsKept
    StacksSound
CHECK_DEADLOCK FALSE
