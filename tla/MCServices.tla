------------------------------ MODULE MCServices ------------------------------
(***************************************************************************)
(* The components that share no state with each other, in one run.  The    *)
(* component in focus takes all the steps; the others keep one initial     *)
(* state, so the reachable states are those of the components, added.      *)
(*                                                                         *)
(* The members of the sets below are interchangeable, so requests start    *)
(* and rows are born in the order of their numbers (InOrder): this         *)
(* cuts the states as symmetry would, and leaves every behaviour up to the *)
(* names of the requests and rows.                                         *)
(***************************************************************************)
EXTENDS UserAccount, SignIn, AuthorizationCode, DeviceGrant, RoleGraph, Organization,
        ApiKey, SocialLogin, PermissionGrant, Functions, TLC

VARIABLE focus      \* the component that takes the steps

servicesVars == <<accountVars, mfaVars, authzVars, deviceVars, roleVars, orgVars, keyVars,
                  socialVars, permissionVars, focus>>

Two == 1 .. 2
Three == 1 .. 3

\* Bounds: which kinds of requests arrive together.
ScenesOfAccount ==
    {{"verify", "profile", "admin"}, {"reset", "recover"}, {"unlink", "password"},
     {"forced", "assign", "mfa"}, {"details", "mfa"}}
ScenesOfMfa ==
    {{"signin", "authenticator"}, {"codes", "passkey"}, {"signin", "codes"},
     {"signin", "reset"}}

Components == {"account", "mfa", "authz", "device", "role", "org", "key", "social", "uma"}

-----------------------------------------------------------------------------
InOrder(S, Started(_)) == \A i, j \in S : i < j /\ Started(j) => Started(i)

\* The rows of mfa_ceremonies are model values: their numbers.
Numbered == CHOOSE f \in [1 .. Cardinality(Ceremony) -> Ceremony] : IsInjective(f)

AccountSteps == AccountNext /\ InOrder(AccountRequest, LAMBDA i : job'[i].at # "new")

\* Bounds: the clock ticks where an authenticator is enrolled beside the sign-ins; there no
\* passkey is shown, and a recovery code only before the first tick.
MfaSteps ==
    /\ SignInNext
    /\ "authenticator" \in mfaScene =>
          \A r \in MfaRequest : mfa'[r].proof.with \notin {"passkey"} \cup
                                   (IF clock' = 0 THEN {} ELSE {"recovery"})
    /\ "authenticator" \notin mfaScene => clock' = clock
    /\ InOrder(MfaRequest, LAMBDA i : mfa'[i].at # "new")
    /\ InOrder(1 .. Cardinality(Ceremony), LAMBDA i : ceremony'[Numbered[i]].status # "unborn")

\* The exchanges share only the codes with the requests that create them: they come when
\* the requests have been answered.  The browser's session matters to a request about to
\* read it.  Bounds: one request at a time has a prompt, one consent page is open.
AuthzSteps ==
    /\ AuthzNext
    /\ (\E x \in Exchange : exchange'[x].at # "new")
          => /\ UNCHANGED <<authz, browser, consent, pushed, forms>>
             /\ \A a \in AuthzRequest : authz[a].at \in {"new", "done"}
    /\ browser' # browser => \E a \in AuthzRequest : InAuthz(a, "session")
    /\ Cardinality(forms') <= 1
    /\ \A a, b \in AuthzRequest :
          authz'[a].prompt # "any" /\ authz'[b].prompt # "any" => a = b
    /\ InOrder(AuthzRequest, LAMBDA i : authz'[i].at # "new")
    /\ InOrder(Exchange, LAMBDA i : exchange'[i].at # "new")

DeviceSteps ==
    /\ DeviceNext
    /\ InOrder(Poll, LAMBDA i : poll'[i].at # "new")
    /\ InOrder(Confirm, LAMBDA i : confirm'[i].at # "new")

\* An administrator who starts to include a role is the first who is free.  Bounds: the
\* user is given one role, the group another; one role is deleted and three inclusions
\* stand at most; additions overlap while nobody holds a role.
RoleSteps ==
    /\ RoleNext
    /\ \A a, b \in RoleAdmin :
          b < a /\ adding[a] = NotAdding /\ adding'[a] # NotAdding => adding[b] # NotAdding
    /\ adding'[2] # NotAdding => heldRole' \cup memberOf' = {} /\ groupRole' = {}
    /\ heldRole' \subseteq {1} /\ groupRole' \subseteq RoleGroup \X {2}
    /\ Cardinality(Role \ liveRole') <= 1 /\ Cardinality(composite') <= 3

OrgSteps ==
    /\ OrgNext
    /\ InOrder(OrgRequest, LAMBDA i : orgJob'[i].at # "new")
    /\ InOrder(Invitation, LAMBDA i : invitation'[i].status # "unborn")

\* Bound: the requests name one key, the other is made by a rotation.
KeySteps ==
    /\ KeyNext
    /\ InOrder(KeyRequest, LAMBDA i : keyJob'[i].at # "new")
    /\ InOrder(Key, LAMBDA i : key'[i].born)
    /\ \A q \in KeyRequest : keyJob'[q].key \in {1, NoKey}

\* Bound: the settings of the provider are those of one of three kinds.
SocialSteps ==
    /\ SocialNext
    /\ InOrder(Callback, LAMBDA i : callback'[i].at # "new")
    /\ InOrder(LocalUser, LAMBDA i : local'[i].status # "unborn")
    /\ provider'.linkByEmail # provider'.autoCreate
    /\ ~provider'.enabled => provider'.autoCreate

\* Bound: the tickets name the one party there is.
UmaSteps ==
    /\ PermissionNext
    /\ InOrder(Grant, LAMBDA i : grant'[i].at # "new")
    /\ InOrder(Rpt, LAMBDA i : rpt'[i].status # "unborn")
    /\ \A t \in Ticket : ticket'[t].status # "unborn" => ticket'[t].requester # Nil

\* A component out of focus has one initial state.
AccountAtRest ==
    /\ row.password = 1 /\ required = {} /\ scene = {"details", "mfa"}
MfaAtRest ==
    /\ ~passkey /\ mfaScene = {"signin", "reset"}
    /\ \A c \in Ceremony : ceremony[c].status = "unborn"
AuthzAtRest == consent = Scope

Init ==
    /\ focus \in Components
    /\ AccountInit /\ row.email = 1 /\ row.password \in {1, NoPassword}
    /\ focus # "account" => AccountAtRest
    /\ SignInInit /\ InOrder(1 .. Cardinality(Ceremony), LAMBDA i : ceremony[Numbered[i]].status # "unborn")
    /\ focus # "mfa" => MfaAtRest
    /\ AuthzInit /\ consent \in {{Offline}, Scope}
    /\ focus # "authz" => AuthzAtRest
    /\ DeviceInit /\ RoleInit /\ OrgInit /\ KeyInit /\ SocialInit /\ PermissionInit

Keep(names) ==
    /\ "account" \in names => UNCHANGED accountVars
    /\ "mfa" \in names => UNCHANGED mfaVars
    /\ "authz" \in names => UNCHANGED authzVars
    /\ "device" \in names => UNCHANGED deviceVars
    /\ "role" \in names => UNCHANGED roleVars
    /\ "org" \in names => UNCHANGED orgVars
    /\ "key" \in names => UNCHANGED keyVars
    /\ "social" \in names => UNCHANGED socialVars
    /\ "uma" \in names => UNCHANGED permissionVars

Next ==
    /\ \/ focus = "account" /\ AccountSteps
       \/ focus = "mfa" /\ MfaSteps
       \/ focus = "authz" /\ AuthzSteps
       \/ focus = "device" /\ DeviceSteps
       \/ focus = "role" /\ RoleSteps
       \/ focus = "org" /\ OrgSteps
       \/ focus = "key" /\ KeySteps
       \/ focus = "social" /\ SocialSteps
       \/ focus = "uma" /\ UmaSteps
    /\ Keep(Components \ {focus})
    /\ UNCHANGED focus

Spec == Init /\ [][Next]_servicesVars

-----------------------------------------------------------------------------
\* Every variable of the component in focus keeps its type: the rows are rows the tables
\* may hold, the requests are at places their handlers have.
TypesOK ==
    /\ focus = "account" => AccountTypeOK
    /\ focus = "mfa" => MfaTypeOK
    /\ focus = "authz" => AuthzTypeOK
    /\ focus = "device" => DeviceTypeOK
    /\ focus = "role" => RoleTypeOK
    /\ focus = "org" => OrgTypeOK
    /\ focus = "key" => KeyTypeOK
    /\ focus = "social" => SocialTypeOK
    /\ focus = "uma" => PermissionTypeOK

\* The sign-in's second factors: a recovery code and a time step of the authenticator are
\* accepted at most once.
FactorsUsedOnce == RecoveryCodeOnce /\ AuthenticatorCodeOnce

\* A sign-in asks for the second factor the account has, and answers its own ceremony.
SignInsComplete == SecondFactorAsked /\ LoginCeremonyHolds

\* What is checked first and marked later, the links in a mail, the state of a social login,
\* a pushed request and a device code, is refused once a use of it has been answered,
\* whatever failed or was abandoned in between.  Overlapping uses are not refused.
SpentIsRefused ==
    SpentLinkRefused /\ ConsumedStateRefused /\ SpentPushRefused /\ ExchangedDeviceRefused

\* What is marked by an UPDATE that tests it again, or read FOR UPDATE, works once for
\* overlapping requests as well: an authorization code, a permission ticket and an
\* invitation.
UsedAtMostOnce == CodeIssuesOnce /\ TicketWorksOnce /\ InvitationUsedOnce
=============================================================================
