------------------------------ MODULE MCPlatform ------------------------------
(***************************************************************************)
(* The components of administration and federation that share no state     *)
(* with each other, in one run, composed as in MCServices: the component   *)
(* in focus takes all the steps, and the others rest in one initial state. *)
(* Interchangeable requests and rows come in the order of their numbers.   *)
(***************************************************************************)
EXTENDS ClientRegistry, TokenUse, RealmKeys, SamlLogin, DirectorySync, DevStack, TLC

VARIABLE focus      \* the component that takes the steps

platformVars == <<clientVars, tokenVars, realmVars, samlVars, dirVars, stackVars, focus>>

One == {1}
Two == 1 .. 2
Three == 1 .. 3
AssertionNumbers == 11 .. 12

\* Bounds: which kinds of requests arrive together.
ScenesOfClients ==
    {{"update", "edit_policy", "drop_policy"}, {"register", "save_profile"},
     {"ciba_on", "ciba_off", "update"}, {"assign", "unassign", "update", "delete"},
     {"drop_profile", "add_policy"}, {"create", "drop_profile", "save_profile"},
     {"update", "drop_profile", "add_policy"}}
ScenesOfTokens ==
    {{"exchange", "client"}, {"bearer", "credentials", "person", "client"},
     {"introspect", "client"}, {"userinfo", "person"}}
ScenesOfRealms ==
    {{"create", "delete", "ask"}, {"settings", "policy", "delete"}, {"provider", "reencrypt"},
     {"delete", "reencrypt", "ask"}, {"reencrypt"}}
ScenesOfSaml ==
    {{"metadata"}, {"sso", "resume", "peer", "sweep"}, {"acs", "sweep"}, {"acs", "logout"}}
ScenesOfDirectory ==
    {{"sync", "login"}, {"sync", "local"}, {"login", "local"}, {"sync", "directory"},
     {"sync", "provider"}, {"login", "provider"}}

ScenesOfStacks ==
    {{"migrate", "seed"}, {"start", "stop"}, {"start", "migrate"}, {"start", "seed", "e2e"},
     {"wasm", "wasm_stop"}, {"wasm", "seed"}, {"bare", "stop"}, {"db_only", "migrate"}}

Components == {"client", "token", "realm", "saml", "directory", "stack"}

-----------------------------------------------------------------------------
InOrder(S, Started(_)) == \A i, j \in S : i < j /\ Started(j) => Started(i)

ClientSteps ==
    /\ ClientNext
    /\ InOrder(ClientRequest, LAMBDA i : clientJob'[i].at # "new")
    /\ InOrder(Client, LAMBDA i : client'[i].status # "unborn")
    /\ InOrder(Policy, LAMBDA i : policy'[i].status # "unborn")

\* Bounds: the second client stays as it is, and asks only as the owner of a token; rows
\* change while a request is being handled.
TokenSteps ==
    /\ TokenNext
    /\ InOrder(Token, LAMBDA i : token'[i].status # "unborn")
    /\ \A q \in TokenRequest :
          tokenJob'[q].kind # "userinfo" => tokenJob'[q].client \in {1, Nobody}
    /\ holder'[2] = holder[2]
    /\ \E q \in TokenRequest :
          /\ tokenJob[q].at # "done"
          /\ <<token, holder, person>>' # <<token, holder, person>> => tokenJob[q].kind # "none"

RealmSteps ==
    /\ RealmNext
    /\ InOrder(RealmRequest, LAMBDA i : realmJob'[i].at # "new")

\* Bound: two assertions arrive beside each other, three calls of the other kinds.
SamlSteps ==
    /\ SamlNext
    /\ "acs" \in samlScene => samlCall'[3].at = "new"
    /\ InOrder(SamlCall, LAMBDA i : samlCall'[i].at # "new")
    /\ InOrder(Pending, LAMBDA i : pending'[i].status # "unborn")
    /\ InOrder(SamlSession, LAMBDA i : opened'[i].status # "unborn")
    /\ InOrder(Assertion, LAMBDA i : assertion'[i].status # "unissued")

DirectorySteps ==
    /\ DirNext
    /\ InOrder(DirJob, LAMBDA i : dirJob'[i].at # "new")
    /\ InOrder(Account, LAMBDA i : account'[i].status # "unborn")

StackSteps ==
    /\ StackNext
    /\ InOrder(Command, LAMBDA i : command'[i].at # "new")

\* A component out of focus has one initial state.
ClientAtRest ==
    /\ clientScene = {"register", "save_profile"}
    /\ client = [c \in Client |-> UnbornClient] /\ policy = [p \in Policy |-> UnbornPolicy]
    /\ profile = [f \in Profile |-> Feature]
TokenAtRest ==
    /\ tokenScene = {"userinfo", "person"} /\ token = [t \in Token |-> UnbornToken]
    /\ holder[1].enabled
RealmAtRest ==
    /\ realmScene = {"reencrypt"} /\ realm = [r \in Realm |-> UnbornRealm]
    /\ provider = [p \in Provider |-> UnbornProvider]
SamlAtRest == samlScene = {"metadata"}
DirectoryAtRest ==
    /\ dirScene = {"sync", "login"} /\ dirProvider.import /\ dirProvider.link
    /\ \A e \in Entry : directory[e].enabled /\ directory[e].grouped
StackAtRest == stackScene = {"migrate", "seed"}

\* Bounds: a request to exchange starts beside two tokens, an assertion beside none; an
\* entry of the directory starts with one of the addresses, which are alike, and in a group
\* where imports meet.
Init ==
    /\ focus \in Components
    /\ ClientInit
    /\ InOrder(Client, LAMBDA i : client[i].status # "unborn")
    /\ InOrder(Policy, LAMBDA i : policy[i].status # "unborn")
    /\ focus # "client" => ClientAtRest
    /\ TokenInit
    /\ InOrder(Token, LAMBDA i : token[i].status # "unborn")
    /\ holder[2] = [enabled |-> TRUE, secret |-> 0]
    /\ token[2] \in {UnbornToken, [status |-> "live", expired |-> FALSE, refresh |-> TRUE,
                                   client |-> 1, user |-> CHOOSE u \in Person : TRUE]}
    /\ "exchange" \notin tokenScene => token[2].status = "unborn"
    /\ "bearer" \in tokenScene => token[1].status = "unborn"
    /\ focus # "token" => TokenAtRest
    /\ RealmInit /\ (focus # "realm" => RealmAtRest)
    /\ SamlInit /\ (focus # "saml" => SamlAtRest)
    /\ DirInit /\ (focus # "directory" => DirectoryAtRest)
    /\ StackInit /\ (focus # "stack" => StackAtRest)
    /\ \A e \in Entry :
          /\ directory[e].mail = CHOOSE m \in DirMail : TRUE
          /\ directory[e].grouped => dirScene \in {{"sync", "login"}, {"sync", "directory"}}

Keep(names) ==
    /\ "client" \in names => UNCHANGED clientVars
    /\ "token" \in names => UNCHANGED tokenVars
    /\ "realm" \in names => UNCHANGED realmVars
    /\ "saml" \in names => UNCHANGED samlVars
    /\ "directory" \in names => UNCHANGED dirVars
    /\ "stack" \in names => UNCHANGED stackVars

Next ==
    /\ \/ focus = "client" /\ ClientSteps
       \/ focus = "token" /\ TokenSteps
       \/ focus = "realm" /\ RealmSteps
       \/ focus = "saml" /\ SamlSteps
       \/ focus = "directory" /\ DirectorySteps
       \/ focus = "stack" /\ StackSteps
    /\ Keep(Components \ {focus})
    /\ UNCHANGED focus

Spec == Init /\ [][Next]_platformVars

-----------------------------------------------------------------------------
\* Every variable of the component in focus keeps its type.
PlatformTypesOK ==
    /\ focus = "client" => ClientTypeOK
    /\ focus = "token" => TokenTypeOK
    /\ focus = "realm" => RealmTypeOK
    /\ focus = "saml" => SamlTypeOK
    /\ focus = "directory" => DirTypeOK
    /\ focus = "stack" => StackTypeOK

\* The keys of a realm: its secrets stay readable, and its SAML metadata shows one key.
RealmKeysKept == SecretsReadable /\ OneRealmKey
=============================================================================
