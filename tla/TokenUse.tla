------------------------------ MODULE TokenUse ------------------------------
(***************************************************************************)
(* What is done with tokens once they exist, and the grants that need no   *)
(* browser: introspection, user information, token exchange, JWT bearer    *)
(* assertions and client credentials.  A token is a row of sessions: its   *)
(* access token, its ID token and, for some grants, a refresh token.       *)
(*                                                                         *)
(* The token endpoint authenticates the client on a connection of its own, *)
(* verifies the subject and the actor of an exchange on others, and issues *)
(* in a transaction.  Introspection reads in one transaction, which at     *)
(* READ COMMITTED sees each statement's own snapshot; user information     *)
(* reads statement by statement.                                           *)
(***************************************************************************)
EXTENDS Integers, FiniteSets

CONSTANTS
    Holder,         \* clients
    Person,         \* users
    Token,          \* rows of sessions
    TokenRequest,   \* requests; each is handled once
    Nobody,         \* no user, no client, no token
    TokenScenes     \* the kinds of requests that arrive together

ASSUME TokenAssumption == Nobody \notin Holder \cup Person \cup Token

VARIABLES
    token,        \* rows of sessions
    holder,       \* rows of clients
    person,       \* rows of users
    tokenJob,     \* where each request is and what it has read
    tokenScene    \* the kinds of requests of this behaviour

tokenVars == <<token, holder, person, tokenJob, tokenScene>>

Grants == {"exchange", "bearer", "credentials"}
TokenKinds == Grants \cup {"introspect", "userinfo"}
TokenPlaces == {"new", "inspect", "user", "subject", "actor", "issue", "done"}
Answers == {"none", "active", "inactive", "claims", "tokens", "refused"}
SubjectTypes == {"access", "refresh", "id"}

TokenRow == [status : {"unborn", "live", "revoked"}, expired : BOOLEAN, refresh : BOOLEAN,
             client : Holder \cup {Nobody}, user : Person \cup {Nobody}]
HolderRow == [enabled : BOOLEAN, secret : 0 .. 1]
TokenWork == [kind : TokenKinds \cup {"none"}, at : TokenPlaces, client : Holder \cup {Nobody},
              secret : 0 .. 1, token : Token \cup {Nobody}, type : SubjectTypes,
              actor : Token \cup {Nobody}, user : Person \cup {Nobody},
              answer : Answers, spent : SUBSET {"revoked", "expired"}, served : BOOLEAN]

TokenTypeOK ==
    /\ token \in [Token -> TokenRow]
    /\ holder \in [Holder -> HolderRow]
    /\ person \in [Person -> {"enabled", "disabled", "deleted"}]
    /\ tokenJob \in [TokenRequest -> TokenWork]
    /\ tokenScene \in TokenScenes

-----------------------------------------------------------------------------
UnbornToken == [status |-> "unborn", expired |-> FALSE, refresh |-> FALSE,
                client |-> Nobody, user |-> Nobody]
IdleTokenJob == [kind |-> "none", at |-> "new", client |-> Nobody, secret |-> 0,
                 token |-> Nobody, type |-> "access", actor |-> Nobody, user |-> Nobody,
                 answer |-> "none", spent |-> {}, served |-> FALSE]
Rows == <<token, holder, person, tokenScene>>

Born == {t \in Token : token[t].status # "unborn"}
Expired == {t \in Token : token[t].expired}
Spent(t) == IF t = Nobody THEN {} ELSE
    (IF token[t].status = "revoked" THEN {"revoked"} ELSE {})
    \cup (IF token[t].expired THEN {"expired"} ELSE {})

\* The JWT itself: its signature, its issuer and its exp.  A revoked token still verifies.
JwtVerifies(t) == t \notin Expired

\* find_by_access_token_hash: not revoked and not expired.
AccessFoundRevoked(t) == t \in Born /\ t \notin Expired
AccessFound(t) == token[t].status = "live" /\ t \notin Expired

\* find_by_refresh_token_hash, and the family's flag: its age is not looked at.
RefreshFound(t) == token[t].status = "live" /\ token[t].refresh

\* The client's row, as authentication reads it: enabled, and the secret or key is the one
\* presented.
AuthenticatesDisabled(q) == holder[tokenJob[q].client].secret = tokenJob[q].secret
Authenticates(q) ==
    LET h == tokenJob[q].client IN holder[h].enabled /\ holder[h].secret = tokenJob[q].secret

\* What the request had read is of no more use.
EndToken(q, answer) ==
    tokenJob' = [tokenJob EXCEPT ![q].at = "done", ![q].answer = answer,
                                 ![q].secret = 0, ![q].actor = Nobody, ![q].user = Nobody]

\* A request arrives; what it presents is chosen here.  History: spent is what the token
\* was already, served says that the client was enabled, with the secret presented, at some
\* moment since.
ArriveToken(q) ==
    /\ tokenJob[q].at = "new" /\ tokenJob[q].kind = "none"
    /\ \E kind \in TokenKinds \cap tokenScene, h \in Holder, s \in {0, 1},
          t, a \in Born \cup {Nobody}, type \in SubjectTypes, u \in Person \cup {Nobody} :
          /\ (t = Nobody) <=> kind \in {"bearer", "credentials"}
          /\ kind # "exchange" => a = Nobody /\ type = "access"
          /\ kind # "bearer" => u = Nobody
          /\ s \in {holder[h].secret, 1}
          /\ kind = "userinfo" => h = token[t].client /\ s = holder[h].secret
          /\ tokenJob' = [tokenJob EXCEPT ![q].kind = kind, ![q].client = h, ![q].secret = s,
                ![q].token = t, ![q].actor = a, ![q].type = type, ![q].user = u,
                ![q].spent = Spent(t),
                ![q].served = holder[h].enabled /\ holder[h].secret = s,
                ![q].at = CASE kind = "userinfo" -> "inspect" [] OTHER -> "new"]
    /\ UNCHANGED Rows

\* authenticate_client, at the token endpoint.
AuthenticateHolder(q) ==
    /\ tokenJob[q].at = "new" /\ tokenJob[q].kind \in Grants
    /\ IF ~Authenticates(q) THEN EndToken(q, "refused")
       ELSE tokenJob' = [tokenJob EXCEPT ![q].at =
                IF tokenJob[q].kind = "exchange" THEN "subject" ELSE "issue"]
    /\ UNCHANGED Rows

\* authenticate_client_for_endpoint, at the others.
AuthenticateCaller(q) ==
    /\ tokenJob[q].at = "new" /\ tokenJob[q].kind = "introspect"
    /\ IF ~Authenticates(q) THEN EndToken(q, "refused")
       ELSE tokenJob' = [tokenJob EXCEPT ![q].at = "inspect"]
    /\ UNCHANGED Rows

\* introspect_handler: the row of the token, of this client.  The user read afterwards
\* only names the subject.
Inspect(q) ==
    /\ tokenJob[q].at = "inspect" /\ tokenJob[q].kind = "introspect"
    /\ LET t == tokenJob[q].token IN
       EndToken(q, IF JwtVerifies(t) /\ AccessFound(t) /\ token[t].client = tokenJob[q].client
                    THEN "active" ELSE "inactive")
    /\ UNCHANGED Rows

\* userinfo_handler: the row of the token, then the user it names.
ReadGrant(q) ==
    /\ tokenJob[q].at = "inspect" /\ tokenJob[q].kind = "userinfo"
    /\ LET t == tokenJob[q].token IN
       IF JwtVerifies(t) /\ AccessFound(t) /\ token[t].user # Nobody
       THEN tokenJob' = [tokenJob EXCEPT ![q].user = token[t].user, ![q].at = "user"]
       ELSE EndToken(q, "refused")
    /\ UNCHANGED Rows

ReadPerson(q) ==
    /\ tokenJob[q].at = "user"
    /\ EndToken(q, IF person[tokenJob[q].user] # "deleted" THEN "claims" ELSE "refused")
    /\ UNCHANGED Rows

\* verify_subject_token: an access token names no internal user, an ID token and a refresh
\* token do.  Only the refresh token is looked up.
ReadSubject(q) ==
    LET j == tokenJob[q] IN
    /\ j.at = "subject"
    /\ IF CASE j.type = "refresh" -> RefreshFound(j.token) /\ token[j.token].user # Nobody
            [] OTHER -> JwtVerifies(j.token)
       THEN tokenJob' = [tokenJob EXCEPT
                ![q].user = IF j.type = "access" THEN Nobody ELSE token[j.token].user,
                ![q].at = IF j.actor = Nobody THEN "issue" ELSE "actor"]
       ELSE EndToken(q, "refused")
    /\ UNCHANGED Rows

\* verify_actor_token; the type of the actor is the one the client says.
ReadActor(q) ==
    LET a == tokenJob[q].actor IN
    /\ tokenJob[q].at = "actor"
    /\ \/ (JwtVerifies(a) \/ (RefreshFound(a) /\ token[a].user # Nobody))
          /\ tokenJob' = [tokenJob EXCEPT ![q].at = "issue"]
       \/ ~(RefreshFound(a) /\ JwtVerifies(a)) /\ EndToken(q, "refused")
    /\ UNCHANGED Rows

\* The row of sessions a grant stores.
StoreToken(q, t, user, refresh) ==
    /\ tokenJob[q].at = "issue" /\ token[t].status = "unborn"
    /\ token' = [token EXCEPT ![t] = [status |-> "live", expired |-> FALSE, refresh |-> refresh,
                                      client |-> tokenJob[q].client, user |-> user]]
    /\ EndToken(q, "tokens")
    /\ UNCHANGED <<holder, person, tokenScene>>

\* TokenExchangeFlow::execute reads the client again and issues what was requested: only a
\* refresh token makes the row one that can be exchanged or refreshed.
Exchanging(q) == tokenJob[q].kind = "exchange" /\ holder[tokenJob[q].client].enabled

IssueAccess(q, t) == Exchanging(q) /\ StoreToken(q, t, tokenJob[q].user, FALSE)
IssueRefresh(q, t) == Exchanging(q) /\ StoreToken(q, t, tokenJob[q].user, TRUE)

\* JwtBearerFlow::execute reads the client again, and the assertion's user.
IssueForAssertion(q, t) ==
    LET u == tokenJob[q].user IN
    /\ tokenJob[q].kind = "bearer" /\ holder[tokenJob[q].client].enabled
    /\ u # Nobody => person[u] = "enabled"
    /\ StoreToken(q, t, u, FALSE)

\* ClientCredentialsFlow::execute uses the row authentication read.
IssueForClient(q, t) ==
    tokenJob[q].kind = "credentials" /\ StoreToken(q, t, Nobody, FALSE)

\* A refusal by the transaction: a disabled client or user, a public client, a scope such
\* as offline_access; or a failure, and nothing is stored.
RefuseToken(q) ==
    /\ tokenJob[q].at = "issue"
    /\ EndToken(q, "refused")
    /\ UNCHANGED Rows

-----------------------------------------------------------------------------
\* SessionRepo::revoke, as revocation, logout and rotation call it.
RevokeToken(t) ==
    /\ token[t].status = "live"
    /\ token' = [token EXCEPT ![t].status = "revoked"]
    /\ UNCHANGED <<holder, person, tokenJob, tokenScene>>

\* Fifteen minutes pass.
ExpireToken(t) ==
    /\ t \in Born \ Expired
    /\ token' = [token EXCEPT ![t].expired = TRUE]
    /\ UNCHANGED <<holder, person, tokenJob, tokenScene>>

\* An administrator writes the client's row: disabled, enabled, or with a new secret.
ChangeHolder(h, row) ==
    /\ "client" \in tokenScene /\ row # holder[h] /\ row.secret >= holder[h].secret
    /\ holder' = [holder EXCEPT ![h] = row]
    /\ tokenJob' = [q \in TokenRequest |-> [tokenJob[q] EXCEPT !.served =
            @ \/ (tokenJob[q].client = h /\ tokenJob[q].at # "done"
                  /\ row.enabled /\ row.secret = tokenJob[q].secret)]]
    /\ UNCHANGED <<token, person, tokenScene>>

ChangePerson(u, status) ==
    /\ "person" \in tokenScene /\ status # person[u] /\ person[u] # "deleted"
    /\ person' = [person EXCEPT ![u] = status]
    /\ UNCHANGED <<token, holder, tokenJob, tokenScene>>

TokenInit ==
    /\ token \in [Token -> {UnbornToken} \cup
            [status : {"live", "revoked"}, expired : BOOLEAN, refresh : BOOLEAN,
             client : Holder, user : Person \cup {Nobody}]]
    /\ holder \in [Holder -> [enabled : BOOLEAN, secret : {0}]]
    /\ person = [u \in Person |-> "enabled"]
    /\ tokenJob = [q \in TokenRequest |-> IdleTokenJob]
    /\ tokenScene \in TokenScenes

TokenNext ==
    \/ \E q \in TokenRequest :
          \/ ArriveToken(q) \/ AuthenticateHolder(q) \/ AuthenticateCaller(q) \/ Inspect(q)
          \/ ReadGrant(q) \/ ReadPerson(q) \/ ReadSubject(q) \/ ReadActor(q) \/ RefuseToken(q)
          \/ \E t \in Token :
                \/ IssueAccess(q, t) \/ IssueRefresh(q, t)
                \/ IssueForAssertion(q, t) \/ IssueForClient(q, t)
    \/ \E t \in Token : RevokeToken(t) \/ ExpireToken(t)
    \/ \E h \in Holder, row \in HolderRow : ChangeHolder(h, row)
    \/ \E u \in Person, status \in {"enabled", "disabled", "deleted"} : ChangePerson(u, status)

TokenSpec == TokenInit /\ [][TokenNext]_tokenVars

-----------------------------------------------------------------------------
\* A token whose revocation or expiry was over when a request arrived is never called
\* active, never answers with claims and, as a refresh token, is never exchanged; an
\* expired access or ID token is not exchanged either.  (The exchange does not look at the
\* revocation of an access or ID token, nor at the age of a refresh token.)
SpentTokensStaySpent ==
    \A q \in TokenRequest :
        LET j == tokenJob[q] IN
        /\ j.answer \in {"active", "claims"} => j.spent = {}
        /\ j.kind = "exchange" /\ j.answer = "tokens" =>
              (IF j.type = "refresh" THEN "revoked" ELSE "expired") \notin j.spent

\* Whoever is answered with tokens or with the state of a token was, at some moment after
\* it asked, an enabled client that presented its current secret.
AnsweredClientsAuthenticated ==
    \A q \in TokenRequest :
        tokenJob[q].answer \in {"active", "inactive", "tokens"} => tokenJob[q].served
=============================================================================
