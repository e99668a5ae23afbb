----------------------------- MODULE SocialLogin ------------------------------
(***************************************************************************)
(* Sign-in through an upstream identity provider: the browser is sent away *)
(* with a one-time state, comes back with it, and the upstream subject is  *)
(* mapped to a local account, found by its link, by its e-mail address or  *)
(* created.                                                                *)
(*                                                                         *)
(* The callback is one handler without a transaction: every statement      *)
(* commits alone, between two of them other callbacks run, and a failure   *)
(* leaves what has been committed.                                         *)
(***************************************************************************)
EXTENDS Naturals, FiniteSets

CONSTANTS
    LoginState,     \* rows of social_login_states
    Callback,       \* requests to the callback
    Upstream,       \* subjects of the upstream provider
    LocalUser,      \* rows of users of the realm
    Mail,           \* e-mail addresses
    Nothing         \* nobody, nothing

ASSUME SocialAssumption ==
    /\ Nothing \notin LoginState \cup Upstream \cup LocalUser \cup Mail
    /\ Cardinality(Upstream) >= 1

VARIABLES
    provider,       \* the settings of the identity provider
    loginState,     \* [LoginState -> {"unborn", "live", "used", "expired"}]
    local,          \* [LocalUser -> row of users]
    fed,            \* [Upstream -> the account federated_identities links, or Nothing]
    secondFactor,   \* the second factors enrolled here, by account and kind
    callback,       \* [Callback -> request]
    consumed,       \* ghost: states a callback has finished consuming
    lateFor,        \* ghost: [Callback -> consumed when it came]
    unlinked        \* ghost: subjects whose link has been removed

socialGhosts == <<consumed, lateFor, unlinked>>
socialVars == <<provider, loginState, local, fed, secondFactor, callback, socialGhosts>>

LocalRow == [status : {"unborn", "live", "deleted"}, email : Mail \cup {Nothing}]
Factor == {"totp", "passkey"}
CallbackJob == [at : {"new", "consume", "exchange", "link", "email", "create", "insert",
                      "enrol", "session", "done"},
                state : LoginState \cup {Nothing}, subject : Upstream \cup {Nothing},
                email : Mail \cup {Nothing}, user : LocalUser \cup {Nothing},
                linkByEmail : BOOLEAN, autoCreate : BOOLEAN,
                answer : {"none", "error", "code"}]

SocialTypeOK ==
    /\ provider \in [enabled : BOOLEAN, linkByEmail : BOOLEAN, autoCreate : BOOLEAN]
    /\ loginState \in [LoginState -> {"unborn", "live", "used", "expired"}]
    /\ local \in [LocalUser -> LocalRow]
    /\ fed \in [Upstream -> LocalUser \cup {Nothing}]
    /\ secondFactor \subseteq LocalUser \X Factor
    /\ callback \in [Callback -> CallbackJob]
    /\ consumed \subseteq LoginState /\ unlinked \subseteq Upstream
    /\ lateFor \in [Callback -> SUBSET LoginState]

IdleCallback == [at |-> "new", state |-> Nothing, subject |-> Nothing, email |-> Nothing,
                 user |-> Nothing, linkByEmail |-> FALSE, autoCreate |-> FALSE,
                 answer |-> "none"]

-----------------------------------------------------------------------------
CallbackEnds(c, answer) ==
    callback' = [callback EXCEPT ![c].at = "done", ![c].answer = answer]
Advances(c, step) == callback' = [callback EXCEPT ![c].at = step]

\* Administration: the provider's settings.
UpdateProvider ==
    /\ \E e, l, a \in BOOLEAN :
          provider' = [enabled |-> e, linkByEmail |-> l, autoCreate |-> a]
    /\ UNCHANGED <<loginState, local, fed, secondFactor, callback, socialGhosts>>

\* social_login_initiate_handler: the state is stored and given to the browser.
Initiate(s) ==
    /\ provider.enabled
    /\ loginState[s] = "unborn"
    /\ loginState' = [loginState EXCEPT ![s] = "live"]
    /\ UNCHANGED <<provider, local, fed, secondFactor, callback, socialGhosts>>

ExpireState(s) ==
    /\ loginState[s] = "live"
    /\ loginState' = [loginState EXCEPT ![s] = "expired"]
    /\ UNCHANGED <<provider, local, fed, secondFactor, callback, socialGhosts>>

\* Mutant: the subselect without NOT used.
StateUnexpired(s) == loginState[s] \in {"live", "used"}

\* consume_valid, the subselect: not used, not expired.
StateFound(s) == loginState[s] = "live"

\* The callback comes back with the state of its cookie and reads the provider's row.
FindState(c) ==
    /\ callback[c].at = "new"
    /\ \E s \in LoginState :
          /\ loginState[s] # "unborn"
          /\ callback' = [callback EXCEPT ![c] =
                [IdleCallback EXCEPT !.state = s, !.linkByEmail = provider.linkByEmail,
                    !.autoCreate = provider.autoCreate,
                    !.at = IF provider.enabled /\ StateFound(s) THEN "consume" ELSE "done",
                    !.answer = IF provider.enabled /\ StateFound(s) THEN "none" ELSE "error"]]
          /\ lateFor' = [lateFor EXCEPT ![c] = consumed]
    /\ UNCHANGED <<provider, loginState, local, fed, secondFactor, consumed, unlinked>>

\* consume_valid, the UPDATE by the id found, which tests nothing again.
ConsumeState(c) ==
    /\ callback[c].at = "consume"
    /\ loginState' = [loginState EXCEPT ![callback[c].state] = "used"]
    /\ Advances(c, "exchange")
    /\ consumed' = consumed \cup {callback[c].state}
    /\ UNCHANGED <<provider, local, fed, secondFactor, lateFor, unlinked>>

\* The upstream's token and userinfo answers: a subject, perhaps an address.
ExchangeCode(c) ==
    /\ callback[c].at = "exchange"
    /\ \E u \in Upstream, e \in Mail \cup {Nothing} :
          callback' = [callback EXCEPT ![c].at = "link", ![c].subject = u, ![c].email = e]
    /\ UNCHANGED <<provider, loginState, local, fed, secondFactor, socialGhosts>>

\* find_or_create_local_user, 1: the link, if there is one, and its account, if it lives.
FindLink(c) ==
    LET u == fed[callback[c].subject] IN
    /\ callback[c].at = "link"
    /\ callback' = [callback EXCEPT ![c] =
          IF u = Nothing THEN [@ EXCEPT !.at = "email"]
          ELSE IF local[u].status = "live" THEN [@ EXCEPT !.at = "enrol", !.user = u]
          ELSE [@ EXCEPT !.at = "done", !.answer = "error"]]
    /\ UNCHANGED <<provider, loginState, local, fed, secondFactor, socialGhosts>>

\* 2: where the provider allows it, the account of the upstream's address.
FindByEmail(c) ==
    LET holder == {u \in LocalUser : local[u].status = "live"
                                     /\ callback[c].linkByEmail
                                     /\ callback[c].email # Nothing
                                     /\ local[u].email = callback[c].email} IN
    /\ callback[c].at = "email"
    /\ \/ \E u \in holder :
             callback' = [callback EXCEPT ![c].at = "insert", ![c].user = u]
       \/ /\ holder = {} /\ callback[c].autoCreate
          /\ Advances(c, "create")
       \/ /\ holder = {} /\ ~callback[c].autoCreate
          /\ CallbackEnds(c, "error")
    /\ UNCHANGED <<provider, loginState, local, fed, secondFactor, socialGhosts>>

\* 3: a new account.  users is UNIQUE (realm_id, email), deleted rows included, and a
\* subject without an address gets one derived from it (Nothing here).
Taken(c) == \E u \in LocalUser : /\ local[u].status # "unborn"
                                 /\ callback[c].email # Nothing
                                 /\ local[u].email = callback[c].email
CreateLocalUser(c) ==
    /\ callback[c].at = "create"
    /\ ~Taken(c)
    /\ \E u \in LocalUser :
          /\ local[u].status = "unborn"
          /\ local' = [local EXCEPT ![u] = [status |-> "live", email |-> callback[c].email]]
          /\ callback' = [callback EXCEPT ![c].at = "insert", ![c].user = u]
    /\ UNCHANGED <<provider, loginState, fed, secondFactor, socialGhosts>>

\* federated_identities is UNIQUE (identity_provider_id, upstream_subject).
FreeSubject(subject) == fed[subject] = Nothing

\* Mutant: the account found or made goes on without its link.
InsertNothing(c) ==
    /\ callback[c].at = "insert"
    /\ Advances(c, "enrol")
    /\ UNCHANGED <<provider, loginState, local, fed, secondFactor, socialGhosts>>

\* FederatedIdentityRepo::create.
InsertLink(c) ==
    LET subject == callback[c].subject IN
    /\ callback[c].at = "insert"
    /\ FreeSubject(subject)
    /\ fed' = [fed EXCEPT ![subject] = callback[c].user]
    /\ Advances(c, "enrol")
    /\ UNCHANGED <<provider, loginState, local, secondFactor, socialGhosts>>

\* An account with a second factor must use the sign-in page; the row read before is used,
\* neither its enabled flag nor its organization is looked at.  What cannot be read counts:
\* a failed look for an authenticator finds none, one for passkeys finds some.
FactorsFound(u) ==
    LET enrolled == {k \in Factor : <<u, k>> \in secondFactor} IN
    {enrolled, enrolled \ {"totp"}, enrolled \cup {"passkey"}}
CheckSecondFactor(c) ==
    /\ callback[c].at = "enrol"
    /\ \E found \in FactorsFound(callback[c].user) :
          IF found = {} THEN Advances(c, "session") ELSE CallbackEnds(c, "error")
    /\ UNCHANGED <<provider, loginState, local, fed, secondFactor, socialGhosts>>

\* The session and the authorization code for the account.
IssueCode(c) ==
    /\ callback[c].at = "session"
    /\ CallbackEnds(c, "code")
    /\ UNCHANGED <<provider, loginState, local, fed, secondFactor, socialGhosts>>

\* A statement fails, a constraint is hit or the upstream refuses.
CallbackFails(c) ==
    /\ callback[c].at \notin {"new", "done"}
    /\ CallbackEnds(c, "error")
    /\ UNCHANGED <<provider, loginState, local, fed, secondFactor, socialGhosts>>

\* Elsewhere: the account console removes a link, an administrator deletes an account (its
\* links stay), a user enrols a second factor.
RemoveLink(subject) ==
    /\ fed[subject] # Nothing
    /\ fed' = [fed EXCEPT ![subject] = Nothing]
    /\ unlinked' = unlinked \cup {subject}
    /\ UNCHANGED <<provider, loginState, local, secondFactor, callback, consumed, lateFor>>

DeleteLocalUser(u) ==
    /\ local[u].status = "live"
    /\ local' = [local EXCEPT ![u].status = "deleted"]
    /\ UNCHANGED <<provider, loginState, fed, secondFactor, callback, socialGhosts>>

EnrolFactor(u, k) ==
    /\ local[u].status = "live" /\ <<u, k>> \notin secondFactor
    /\ secondFactor' = secondFactor \cup {<<u, k>>}
    /\ UNCHANGED <<provider, loginState, local, fed, callback, socialGhosts>>

-----------------------------------------------------------------------------
SocialInit ==
    /\ provider = [enabled |-> TRUE, linkByEmail |-> FALSE, autoCreate |-> TRUE]
    /\ loginState = [s \in LoginState |-> "unborn"]
    /\ local = [u \in LocalUser |-> [status |-> "unborn", email |-> Nothing]]
    /\ fed = [u \in Upstream |-> Nothing]
    /\ secondFactor = {}
    /\ callback = [c \in Callback |-> IdleCallback]
    /\ consumed = {} /\ unlinked = {}
    /\ lateFor = [c \in Callback |-> {}]

SocialNext ==
    \/ UpdateProvider
    \/ \E s \in LoginState : Initiate(s) \/ ExpireState(s)
    \/ \E c \in Callback :
          FindState(c) \/ ConsumeState(c) \/ ExchangeCode(c) \/ FindLink(c) \/ FindByEmail(c)
            \/ CreateLocalUser(c) \/ InsertLink(c) \/ CheckSecondFactor(c) \/ IssueCode(c)
            \/ CallbackFails(c)
    \/ \E u \in Upstream : RemoveLink(u)
    \/ \E u \in LocalUser : DeleteLocalUser(u) \/ \E k \in Factor : EnrolFactor(u, k)

SocialSpec == SocialInit /\ [][SocialNext]_socialVars

-----------------------------------------------------------------------------
(* Properties.                                                             *)

\* A callback that comes when its state has been consumed is refused.  Callbacks that come
\* before that, all at once, may all pass: see StateConsumedOnce.
ConsumedStateRefused ==
    \A c \in Callback : callback[c].subject # Nothing => callback[c].state \notin lateFor[c]

\* What consume_valid is documented to be, atomic: no two callbacks pass with one state.
\* It does not hold: the id comes from a subselect that takes no lock, and the UPDATE that
\* waited for the row tests the id alone.
StateConsumedOnce ==
    \A c, d \in Callback :
        callback[c].subject # Nothing /\ callback[d].subject # Nothing
            /\ callback[c].state = callback[d].state => c = d

\* Every code is issued for the account its subject is linked to, whichever of several
\* overlapping callbacks of the subject made the account and the link, as long as nobody
\* removes the link.
SubjectHasOneAccount ==
    \A c \in Callback :
        callback[c].answer = "code" /\ callback[c].subject \notin unlinked
            => fed[callback[c].subject] = callback[c].user
=============================================================================
