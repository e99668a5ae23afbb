--------------------------- MODULE AuthorizationCode --------------------------
(***************************************************************************)
(* The authorization endpoint and the authorization-code grant, for one    *)
(* user, one browser session and one client.                               *)
(*                                                                         *)
(* authorize_inner commits statement by statement: it resolves a pushed    *)
(* request, reads the browser's session, the user and the consent, and     *)
(* answers a redirect to the login page, a consent page or a code.  The    *)
(* exchange of a code (AuthorizationCodeFlow::execute) is one transaction  *)
(* that holds the code's row.  The client, its redirect URI and PKCE are   *)
(* checked before any of this and are taken to be right.                   *)
(***************************************************************************)
EXTENDS Naturals, FiniteSets

CONSTANTS
    AuthzRequest,   \* requests to the authorization endpoint
    Exchange,       \* requests to the token endpoint
    Code,           \* rows of authorization_codes
    Pushed,         \* rows of pushed_authorization_requests
    Scope,          \* scopes the client may ask for
    Offline,        \* offline_access
    NoAuthz         \* no code, no pushed request

ASSUME AuthzAssumption ==
    /\ NoAuthz \notin Code \cup Pushed \cup Exchange
    /\ Offline \in Scope

VARIABLES
    browser,    \* whether the session of the browser's cookie is alive
    consent,    \* scopes in user_consents, {} for no row
    pushed,     \* [Pushed -> status]
    code,       \* [Code -> [status, scopes]]
    forms,      \* scopes of the consent pages answered in the last five minutes
    authz,      \* each request to the authorization endpoint
    exchange,   \* each request to the token endpoint
    approved,   \* ghost: scopes approved since the last revocation of the consent
    withApproval,   \* ghost: [AuthzRequest -> scopes that were approved at a moment of it]
    crossed,    \* ghost: a consent was revoked while a grant was between its statements
    issued,     \* ghost: [Code -> how many exchanges issued tokens]
    resolved,   \* ghost: pushed requests an answered request has used
    before,     \* ghost: [AuthzRequest -> resolved, when it came]
    again,      \* ghost: pushed requests used by a request that came after another used them
    unpushed    \* ghost: pushed requests whose mark_used failed, or was not reached

authzGhosts == <<approved, withApproval, crossed, issued, resolved, before, again, unpushed>>
authzData == <<browser, consent, pushed, code, forms>>
authzVars == <<authzData, authz, exchange, authzGhosts>>

AuthzPlaces == {"new", "mark", "session", "user", "consent", "merge", "store", "code",
                "tokens", "done"}
Prompt == {"any", "none", "login", "consent"}
AuthzJob == [at : AuthzPlaces, pushed : Pushed \cup {NoAuthz}, scopes : SUBSET Scope,
             prompt : Prompt, form : {"none", "allow", "deny"}, copy : SUBSET Scope,
             answer : {"none", "error", "login", "page", "code", "tokens"}]

AuthzTypeOK ==
    /\ browser \in BOOLEAN
    /\ consent \subseteq Scope
    /\ pushed \in [Pushed -> {"unborn", "live", "used", "expired"}]
    /\ code \in [Code -> [status : {"unborn", "live", "used", "expired"}, scopes : SUBSET Scope,
                          by : Exchange \cup {NoAuthz}]]
    /\ forms \subseteq SUBSET Scope
    /\ authz \in [AuthzRequest -> AuthzJob]
    /\ exchange \in [Exchange -> [at : {"new", "issue", "done"}, code : Code \cup {NoAuthz}]]
    /\ approved \subseteq Scope /\ crossed \in BOOLEAN
    /\ withApproval \in [AuthzRequest -> SUBSET Scope]
    /\ issued \in [Code -> Nat]
    /\ resolved \subseteq Pushed /\ again \subseteq Pushed /\ unpushed \subseteq Pushed
    /\ before \in [AuthzRequest -> SUBSET Pushed]

-----------------------------------------------------------------------------
InAuthz(a, place) == authz[a].at = place
AuthzGoes(a, place) == authz' = [authz EXCEPT ![a].at = place]

NoRequest == [at |-> "new", pushed |-> NoAuthz, scopes |-> {}, prompt |-> "any", form |-> "none",
              copy |-> {}, answer |-> "none"]

\* A request is answered: what it held in memory is gone.
AuthzAnswers(a, answer) ==
    authz' = [authz EXCEPT ![a] = [NoRequest EXCEPT !.at = "done", !.answer = answer]]

\* par_handler stores a request; the client is authenticated.
Push(p) ==
    /\ pushed[p] = "unborn"
    /\ pushed' = [pushed EXCEPT ![p] = "live"]
    /\ UNCHANGED <<browser, consent, code, forms, authz, exchange, authzGhosts>>

\* Mutant: find_by_request_uri_token without NOT used.
PushedUnexpired(p) == pushed[p] \in {"live", "used"}

\* find_by_request_uri_token: not used, not expired.
PushedFound(p) == pushed[p] = "live"

Asked(p, s, how, f) ==
    [at |-> IF p = NoAuthz THEN "session" ELSE "mark", pushed |-> p, scopes |-> s,
     prompt |-> how, form |-> f, copy |-> {}, answer |-> "none"]

\* A request comes with its parameters, or with a pushed request that holds them.
Asks(a) ==
    \E p \in Pushed \cup {NoAuthz}, s \in (SUBSET Scope) \ {{}}, how \in Prompt,
       f \in {"none", "allow", "deny"} :
        /\ InAuthz(a, "new")
        /\ f # "none" => s \in forms /\ p = NoAuthz
        /\ p # NoAuthz => PushedFound(p)
        /\ authz' = [authz EXCEPT ![a] = Asked(p, s, how, f)]
        /\ withApproval' = [withApproval EXCEPT ![a] = approved]
        /\ before' = [before EXCEPT ![a] = resolved]
        /\ UNCHANGED <<authzData, exchange, approved, crossed, issued, resolved, again, unpushed>>

\* ParRepo::mark_used, whose error is discarded: the request goes on either way.
MarkPushed(a) ==
    LET p == authz[a].pushed IN
    /\ InAuthz(a, "mark")
    /\ \/ pushed' = [pushed EXCEPT ![p] = "used"] /\ unpushed' = unpushed
       \/ pushed' = pushed /\ unpushed' = unpushed \cup {p}
    /\ AuthzGoes(a, "session")
    /\ resolved' = resolved \cup {p}
    /\ again' = IF p \in before[a] THEN again \cup {p} ELSE again
    /\ UNCHANGED <<browser, consent, code, forms, exchange, approved, withApproval, crossed, issued,
                   before>>

\* The cookie's session, not revoked and not expired; prompt=login does not look at it.
ReadBrowser(a) ==
    /\ InAuthz(a, "session")
    /\ IF browser /\ authz[a].prompt # "login"
       THEN AuthzGoes(a, "user")
       ELSE AuthzAnswers(a, IF authz[a].prompt = "none" THEN "error" ELSE "login")
    /\ UNCHANGED <<authzData, exchange, authzGhosts>>

\* The user is enabled, with no required action and no blocked organization, or the login
\* page or an error is answered.
ReadUser(a) ==
    /\ InAuthz(a, "user")
    /\ \/ AuthzGoes(a, "consent")
       \/ AuthzAnswers(a, IF authz[a].prompt = "none" THEN "error" ELSE "login")
    /\ UNCHANGED <<authzData, exchange, authzGhosts>>

\* Mutant: any stored consent answers for the request.
SilentForAny(a) ==
    /\ consent # {}
    /\ Offline \notin authz[a].scopes
    /\ authz[a].prompt # "consent"

\* The stored consent answers for the request, unless the client asks for a page.
Silent(a) ==
    /\ authz[a].scopes \subseteq consent
    /\ Offline \notin authz[a].scopes
    /\ authz[a].prompt # "consent"

\* The consent is read; a submission must carry the token of a page for these scopes.
ReadConsent(a) ==
    LET s == authz[a].scopes
        f == authz[a].form
    IN
    /\ InAuthz(a, "consent")
    /\ \/ f # "none" /\ s \notin forms /\ AuthzAnswers(a, "error") /\ UNCHANGED forms
       \/ f = "deny" /\ s \in forms /\ AuthzAnswers(a, "error") /\ UNCHANGED forms
       \/ f = "allow" /\ s \in forms /\ AuthzGoes(a, "merge") /\ UNCHANGED forms
       \/ f = "none" /\ Silent(a) /\ AuthzGoes(a, "code") /\ UNCHANGED forms
       \/ f = "none" /\ ~Silent(a) /\ authz[a].prompt = "none" /\ AuthzAnswers(a, "error")
          /\ UNCHANGED forms
       \/ f = "none" /\ ~Silent(a) /\ authz[a].prompt # "none" /\ AuthzAnswers(a, "page")
          /\ forms' = forms \cup {s}
    /\ UNCHANGED <<browser, consent, pushed, code, exchange, authzGhosts>>

\* UserConsentRepo::grant: the row is read, the scopes are added, and it is written.
MergeConsent(a) ==
    /\ InAuthz(a, "merge")
    /\ authz' = [authz EXCEPT ![a].at = "store", ![a].copy = consent \cup authz[a].scopes]
    /\ UNCHANGED <<authzData, exchange, authzGhosts>>

StoreConsent(a) ==
    /\ InAuthz(a, "store")
    /\ consent' = authz[a].copy
    /\ AuthzGoes(a, "code")
    /\ approved' = approved \cup authz[a].scopes
    /\ withApproval' = [b \in AuthzRequest |-> withApproval[b] \cup authz[a].scopes]
    /\ UNCHANGED <<browser, pushed, code, forms, exchange, crossed, issued, resolved, before, again,
                   unpushed>>

\* Step-up and acr_values may still send the browser away; then a response type with a
\* code stores one, and an implicit or a hybrid one goes on to issue tokens.
CreateCode(a) ==
    /\ InAuthz(a, "code")
    /\ \/ /\ \E c \in Code :
                /\ code[c].status = "unborn"
                /\ code' = [code EXCEPT ![c].status = "live", ![c].scopes = authz[a].scopes]
          /\ AuthzAnswers(a, "code") \/ AuthzGoes(a, "tokens")
       \/ UNCHANGED code /\ AuthzGoes(a, "tokens")
       \/ UNCHANGED code /\ AuthzAnswers(a, IF authz[a].prompt = "none" THEN "error" ELSE "login")
    /\ UNCHANGED <<browser, consent, pushed, forms, exchange, authzGhosts>>

\* Tokens and their session, for the redirect itself.
IssueDirectly(a) ==
    /\ InAuthz(a, "tokens")
    /\ AuthzAnswers(a, "tokens")
    /\ UNCHANGED <<authzData, exchange, authzGhosts>>

\* A statement fails or the instance is lost.
LoseAuthz(a) ==
    /\ ~InAuthz(a, "new") /\ ~InAuthz(a, "done")
    /\ AuthzAnswers(a, "error")
    /\ unpushed' = IF InAuthz(a, "mark") THEN unpushed \cup {authz[a].pushed} ELSE unpushed
    /\ UNCHANGED <<authzData, exchange, approved, withApproval, crossed, issued, resolved, before,
                   again>>

-----------------------------------------------------------------------------
(* The token endpoint.                                                     *)

\* Mutant: find_by_code without FOR UPDATE.
CodeUnlocked(c) == code[c].status = "live"

\* find_by_code: not used, not expired, FOR UPDATE.
CodeFound(c) == code[c].status = "live" /\ code[c].by = NoAuthz

FindCode(x) ==
    /\ exchange[x].at = "new"
    /\ \E c \in Code :
          /\ CodeFound(c)
          /\ code' = [code EXCEPT ![c].by = x]
          /\ exchange' = [exchange EXCEPT ![x] = [at |-> "issue", code |-> c]]
    /\ UNCHANGED <<browser, consent, pushed, forms, authz, authzGhosts>>

\* The code is marked used, tokens and their session are written: COMMIT.
IssueFromCode(x) ==
    LET c == exchange[x].code IN
    /\ exchange[x].at = "issue"
    /\ code' = [code EXCEPT ![c].status = "used", ![c].by = NoAuthz]
    /\ exchange' = [exchange EXCEPT ![x] = [at |-> "done", code |-> NoAuthz]]
    /\ issued' = [issued EXCEPT ![c] = @ + 1]
    /\ UNCHANGED <<browser, consent, pushed, forms, authz, approved, withApproval, crossed, resolved,
                   before, again, unpushed>>

\* The user is gone, a signature or a statement fails: ROLLBACK, and the code stays.
RejectCode(x) ==
    LET c == exchange[x].code IN
    /\ exchange[x].at = "issue"
    /\ code' = [code EXCEPT ![c].by = NoAuthz]
    /\ exchange' = [exchange EXCEPT ![x] = [at |-> "done", code |-> NoAuthz]]
    /\ UNCHANGED <<browser, consent, pushed, forms, authz, authzGhosts>>

-----------------------------------------------------------------------------
(* The rest of the system.                                                 *)

\* The session is revoked, or the user signs in again.
BrowserChanges ==
    /\ browser' = ~browser
    /\ UNCHANGED <<consent, pushed, code, forms, authz, exchange, authzGhosts>>

\* The account console revokes the application.
RevokeConsent ==
    /\ consent' = {}
    /\ approved' = {}
    /\ crossed' = (crossed \/ \E a \in AuthzRequest : InAuthz(a, "store"))
    /\ UNCHANGED <<browser, pushed, code, forms, authz, exchange, withApproval, issued, resolved,
                   before, again, unpushed>>

ExpirePushed(p) ==
    /\ pushed[p] = "live"
    /\ pushed' = [pushed EXCEPT ![p] = "expired"]
    /\ UNCHANGED <<browser, consent, code, forms, authz, exchange, authzGhosts>>

ExpireCode(c) ==
    /\ code[c].status = "live" /\ code[c].by = NoAuthz
    /\ code' = [code EXCEPT ![c].status = "expired"]
    /\ UNCHANGED <<browser, consent, pushed, forms, authz, exchange, authzGhosts>>

\* The token of a consent page is five minutes old.
ExpireForm ==
    /\ \E s \in forms : forms' = forms \ {s}
    /\ UNCHANGED <<browser, consent, pushed, code, authz, exchange, authzGhosts>>

-----------------------------------------------------------------------------
AuthzInit ==
    /\ browser = TRUE
    /\ \E s \in SUBSET Scope : consent = s /\ approved = s
    /\ pushed = [p \in Pushed |-> "unborn"]
    /\ code = [c \in Code |-> [status |-> "unborn", scopes |-> {}, by |-> NoAuthz]]
    /\ forms = {}
    /\ authz = [a \in AuthzRequest |-> NoRequest]
    /\ exchange = [x \in Exchange |-> [at |-> "new", code |-> NoAuthz]]
    /\ withApproval = [a \in AuthzRequest |-> {}]
    /\ crossed = FALSE
    /\ issued = [c \in Code |-> 0]
    /\ resolved = {} /\ again = {} /\ unpushed = {}
    /\ before = [a \in AuthzRequest |-> {}]

AuthzNext ==
    \/ \E a \in AuthzRequest :
          \/ Asks(a) \/ MarkPushed(a) \/ ReadBrowser(a) \/ ReadUser(a) \/ ReadConsent(a)
          \/ MergeConsent(a) \/ StoreConsent(a) \/ CreateCode(a) \/ IssueDirectly(a)
          \/ LoseAuthz(a)
    \/ \E x \in Exchange : FindCode(x) \/ IssueFromCode(x) \/ RejectCode(x)
    \/ BrowserChanges \/ RevokeConsent \/ ExpireForm
    \/ \E p \in Pushed : Push(p) \/ ExpirePushed(p)
    \/ \E c \in Code : ExpireCode(c)

AuthzSpec == AuthzInit /\ [][AuthzNext]_authzVars

-----------------------------------------------------------------------------
(* Properties.                                                             *)

\* A code issues tokens once, although the exchange that takes it may be rolled back and
\* the code presented again, by several exchanges at once.
CodeIssuesOnce == \A c \in Code : issued[c] <= 1

\* An authorization request that comes when its pushed request has been answered for is
\* refused, but for one whose mark was lost.  Requests that come before that, all at once,
\* may all be answered for one pushed request.
SpentPushRefused == again \subseteq unpushed

\* A code or a token is answered only for scopes whose approval stood at some moment of
\* the request: what the user revoked before does not come back, unless a grant overlapped
\* the revocation and wrote the scopes it had read.
CodeNeedsApproval ==
    [][\A a \in AuthzRequest :
          ~InAuthz(a, "done") /\ authz'[a].answer \in {"code", "tokens"}
              => authz[a].scopes \subseteq withApproval[a] \/ crossed]_authzVars
=============================================================================
