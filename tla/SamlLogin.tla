------------------------------- MODULE SamlLogin -------------------------------
(***************************************************************************)
(* SAML: the hub as identity provider, which answers the requests of       *)
(* applications, and the hub as broker, which accepts the assertions of    *)
(* other identity providers.  A flow spans requests of the browser and is  *)
(* kept in a pending row; identifiers of requests and assertions are       *)
(* recorded against replay.  No handler uses a transaction.  The XML, its  *)
(* signatures and the correlation with the request are checked by a        *)
(* library outside the repository.                                         *)
(***************************************************************************)
EXTENDS Integers, FiniteSets

CONSTANTS
    Pending,       \* rows of saml_pending_requests, and the requests the broker makes
    AuthnRequest,  \* signed requests of applications
    Assertion,     \* signed assertions of an identity provider
    SessionIndex,  \* sessions at that provider
    SamlSession,   \* rows of sessions opened by the broker
    SamlCall,      \* HTTP requests to the hub; each is handled once
    NoSaml,        \* nothing
    SamlScenes     \* the kinds of calls that arrive together

ASSUME SamlAssumption ==
    NoSaml \notin Pending \cup AuthnRequest \cup Assertion \cup SessionIndex \cup SamlCall

VARIABLES
    pending,      \* rows of saml_pending_requests
    assertion,    \* what the provider has issued
    replays,      \* rows of saml_assertion_replays
    samlKey,      \* the row of saml_realm_keys, named by the call that made it
    peer,         \* the row of the service provider
    opened,       \* rows of sessions
    samlCall,     \* where each call is and what it has read
    answers,      \* history: how often each request was answered
    forgotten,    \* history: the requests whose replay row was swept
    samlScene     \* the kinds of calls of this behaviour

samlVars == <<pending, assertion, replays, samlKey, peer, opened, samlCall, answers,
              forgotten, samlScene>>

SamlKinds == {"metadata", "sso", "resume", "acs"}
SamlPlaces == {"new", "key", "own_key", "reread", "login", "record", "mark", "user", "done"}

PendingRow == [status : {"unborn", "open", "used", "swept"}, expired : BOOLEAN,
               request : AuthnRequest \cup {NoSaml}]
AssertionRow == [status : {"unissued", "valid", "skew", "over"},
                 answers : Pending \cup {NoSaml}, index : SessionIndex \cup {NoSaml}]
SessionRow == [status : {"unborn", "live", "revoked"}, index : SessionIndex \cup {NoSaml},
               assertion : Assertion \cup {NoSaml}, pending : Pending \cup {NoSaml}]
SamlWork == [kind : SamlKinds \cup {"none"}, at : SamlPlaces,
             request : AuthnRequest \cup {NoSaml}, pending : Pending \cup {NoSaml},
             assertion : Assertion \cup {NoSaml}, key : SamlCall \cup {NoSaml}]

SamlTypeOK ==
    /\ pending \in [Pending -> PendingRow]
    /\ assertion \in [Assertion -> AssertionRow]
    /\ replays \in [AuthnRequest \cup Assertion -> {"none", "fresh", "old"}]
    /\ samlKey \in SamlCall \cup {NoSaml}
    /\ peer \in {"enabled", "disabled", "deleted"}
    /\ opened \in [SamlSession -> SessionRow]
    /\ samlCall \in [SamlCall -> SamlWork]
    /\ answers \in [AuthnRequest -> 0 .. Cardinality(SamlCall)]
    /\ forgotten \subseteq AuthnRequest
    /\ samlScene \in SamlScenes

-----------------------------------------------------------------------------
UnbornPending == [status |-> "unborn", expired |-> FALSE, request |-> NoSaml]
Unissued == [status |-> "unissued", answers |-> NoSaml, index |-> NoSaml]
UnbornSession == [status |-> "unborn", index |-> NoSaml, assertion |-> NoSaml, pending |-> NoSaml]
IdleSamlCall == [kind |-> "none", at |-> "new", request |-> NoSaml, pending |-> NoSaml,
                 assertion |-> NoSaml, key |-> NoSaml]

SamlAt(q, place) == samlCall' = [samlCall EXCEPT ![q].at = place]
StartSaml(q, kind) == samlCall[q].at = "new" /\ kind \in samlScene
Flow == <<pending, assertion, replays, opened, answers, forgotten>>
Settings == <<samlKey, peer, samlScene>>

\* find_pending, and the condition of mark_pending_used.
Open(p) == pending[p].status = "open" /\ ~pending[p].expired
OpenOrUsed(p) == pending[p].status \in {"open", "used"} /\ ~pending[p].expired
Markable(p) == Open(p)

-----------------------------------------------------------------------------
\* realm_key: the first call to find no key makes one; another may store its own between,
\* and the stored one is read again.
ReadSamlKey(q) ==
    /\ StartSaml(q, "metadata")
    /\ samlCall' = [samlCall EXCEPT ![q].kind = "metadata", ![q].key = samlKey,
            ![q].at = IF samlKey = NoSaml THEN "own_key" ELSE "done"]
    /\ UNCHANGED <<Flow, Settings>>

\* ON CONFLICT DO NOTHING.
StoreSamlKey(q) ==
    /\ samlCall[q].at = "own_key"
    /\ samlKey' = IF samlKey = NoSaml THEN q ELSE samlKey
    /\ SamlAt(q, "reread")
    /\ UNCHANGED <<Flow, peer, samlScene>>

OwnSamlKey(q) == q
KeptSamlKey(q) == samlKey

RereadSamlKey(q) ==
    /\ samlCall[q].at = "reread"
    /\ samlCall' = [samlCall EXCEPT ![q].key = KeptSamlKey(q), ![q].at = "done"]
    /\ UNCHANGED <<Flow, Settings>>

-----------------------------------------------------------------------------
\* idp_sso, as the application sends the browser, or resumed after the sign-in.
ReceiveRequest(q, r) ==
    /\ StartSaml(q, "sso") /\ peer = "enabled"
    /\ samlCall' = [samlCall EXCEPT ![q].kind = "sso", ![q].request = r, ![q].at = "login"]
    /\ UNCHANGED <<Flow, Settings>>

ResumeRequest(q, p) ==
    /\ StartSaml(q, "resume") /\ peer = "enabled"
    /\ Open(p) /\ pending[p].request # NoSaml
    /\ samlCall' = [samlCall EXCEPT ![q].kind = "resume", ![q].request = pending[p].request,
                                    ![q].pending = p, ![q].at = "login"]
    /\ UNCHANGED <<Flow, Settings>>

\* The browser has no session of an enabled user: the request is kept for later.
KeepRequest(q, p) ==
    /\ samlCall[q].at = "login" /\ pending[p].status = "unborn"
    /\ pending' = [pending EXCEPT ![p] = [UnbornPending EXCEPT !.status = "open",
                                                 !.request = samlCall[q].request]]
    /\ SamlAt(q, "done")
    /\ UNCHANGED <<assertion, replays, opened, answers, forgotten, Settings>>

\* It has one.
FindSession(q) ==
    /\ samlCall[q].at = "login"
    /\ SamlAt(q, "record")
    /\ UNCHANGED <<Flow, Settings>>

\* record_assertion: of the request for idp_sso, of the assertion for broker_acs.
Recorded(q) == IF samlCall[q].kind = "acs" THEN samlCall[q].assertion ELSE samlCall[q].request

Answer(q) == [answers EXCEPT ![samlCall[q].request] = @ + 1]

Record(q) ==
    LET id == Recorded(q)
        ends == samlCall[q].pending = NoSaml IN
    /\ samlCall[q].at = "record"
    /\ IF replays[id] # "none" THEN SamlAt(q, "done") /\ UNCHANGED <<replays, answers>>
       ELSE /\ replays' = [replays EXCEPT ![id] =
                    IF id \in Assertion /\ assertion[id].status # "valid" THEN "old" ELSE "fresh"]
            /\ SamlAt(q, IF ends THEN "done" ELSE "mark")
            /\ answers' = IF ends THEN Answer(q) ELSE answers
    /\ UNCHANGED <<pending, assertion, opened, forgotten, Settings>>

MarkPending(q) ==
    LET p == samlCall[q].pending IN
    /\ samlCall[q].at = "mark"
    /\ IF Markable(p)
       THEN /\ pending' = [pending EXCEPT ![p].status = "used"]
            /\ SamlAt(q, IF samlCall[q].kind = "acs" THEN "user" ELSE "done")
            /\ answers' = IF samlCall[q].kind = "acs" THEN answers ELSE Answer(q)
       ELSE SamlAt(q, "done") /\ UNCHANGED <<pending, answers>>
    /\ UNCHANGED <<assertion, replays, opened, forgotten, Settings>>

-----------------------------------------------------------------------------
\* broker_start: the pending row is stored, the browser goes to the provider.
StartBroker(p) ==
    /\ "acs" \in samlScene /\ pending[p].status = "unborn"
    /\ pending' = [pending EXCEPT ![p].status = "open"]
    /\ UNCHANGED <<assertion, replays, opened, answers, forgotten, samlCall, Settings>>

\* The provider, outside the repository: one request may be answered with several
\* assertions, for one session of the user or more.
IssueAssertion(a, p, i) ==
    /\ "acs" \in samlScene /\ assertion[a].status = "unissued"
    /\ pending[p].status # "unborn" /\ pending[p].request = NoSaml
    /\ assertion' = [assertion EXCEPT ![a] = [status |-> "valid", answers |-> p, index |-> i]]
    /\ UNCHANGED <<pending, replays, opened, answers, forgotten, samlCall, Settings>>

\* broker_acs: the row of the relay state; the assertion answers its request and is not
\* more than a minute too old.
AcceptAssertion(q, a) ==
    LET p == assertion[a].answers IN
    /\ StartSaml(q, "acs") /\ assertion[a].status \in {"valid", "skew"} /\ Open(p)
    /\ samlCall' = [samlCall EXCEPT ![q].kind = "acs", ![q].assertion = a, ![q].pending = p,
                                    ![q].at = "record"]
    /\ UNCHANGED <<Flow, Settings>>

\* find_or_create_local_user, the client, and the session, all found.
OpenSession(q, s) ==
    LET a == samlCall[q].assertion IN
    /\ samlCall[q].at = "user" /\ opened[s].status = "unborn"
    /\ opened' = [opened EXCEPT ![s] = [status |-> "live", index |-> assertion[a].index,
                        assertion |-> a, pending |-> samlCall[q].pending]]
    /\ SamlAt(q, "done")
    /\ UNCHANGED <<pending, assertion, replays, answers, forgotten, Settings>>

\* A refusal or a failure between two statements leaves what was stored.
DropSamlCall(q) ==
    /\ samlCall[q].at \notin {"new", "done"}
    /\ SamlAt(q, "done")
    /\ UNCHANGED <<Flow, Settings>>

\* find_by_sid returns one row with the index, whatever its state.
RevokeSaml(s) ==
    /\ "logout" \in samlScene /\ opened[s].status # "unborn"
    /\ opened' = [opened EXCEPT ![s].status = "revoked"]
    /\ UNCHANGED <<pending, assertion, replays, answers, forgotten, samlCall, Settings>>

\* broker_logout, asked by the provider; idp_logout, asked by an enabled application.
UpstreamLogout(s) == RevokeSaml(s)
PeerLogout(s) == peer = "enabled" /\ RevokeSaml(s)

-----------------------------------------------------------------------------
\* An administrator writes or deletes the service provider's row.
ChangePeer(status) ==
    /\ "peer" \in samlScene /\ peer # "deleted" /\ status # peer
    /\ peer' = status
    /\ UNCHANGED <<Flow, samlKey, samlCall, samlScene>>

\* Ten minutes pass.
ExpirePending(p) ==
    /\ pending[p].status \in {"open", "used"} /\ ~pending[p].expired
    /\ pending' = [pending EXCEPT ![p].expired = TRUE]
    /\ UNCHANGED <<assertion, replays, opened, answers, forgotten, samlCall, Settings>>

AgeRequest(r) ==
    /\ replays[r] = "fresh"
    /\ replays' = [replays EXCEPT ![r] = "old"]
    /\ UNCHANGED <<pending, assertion, opened, answers, forgotten, samlCall, Settings>>

\* not_on_or_after passes, then the minute of skew; the replay row ages with the first.
AgeAssertion(a) ==
    /\ assertion[a].status \in {"valid", "skew"}
    /\ assertion' = [assertion EXCEPT ![a].status = IF @ = "valid" THEN "skew" ELSE "over"]
    /\ replays' = [replays EXCEPT ![a] = IF @ = "fresh" THEN "old" ELSE @]
    /\ UNCHANGED <<pending, opened, answers, forgotten, samlCall, Settings>>

\* SamlRepo::cleanup, two statements.
SweepPending ==
    /\ "sweep" \in samlScene
    /\ pending' = [p \in Pending |->
            IF pending[p].status = "used" \/ pending[p].expired
            THEN [pending[p] EXCEPT !.status = "swept"] ELSE pending[p]]
    /\ pending' # pending
    /\ UNCHANGED <<assertion, replays, opened, answers, forgotten, samlCall, Settings>>

SweepReplays ==
    LET old == {x \in DOMAIN replays : replays[x] = "old"} IN
    /\ "sweep" \in samlScene /\ old # {}
    /\ replays' = [x \in DOMAIN replays |-> IF x \in old THEN "none" ELSE replays[x]]
    /\ forgotten' = forgotten \cup (old \cap AuthnRequest)
    /\ UNCHANGED <<pending, assertion, opened, answers, samlCall, Settings>>

SamlInit ==
    /\ pending = [p \in Pending |-> UnbornPending]
    /\ assertion = [a \in Assertion |-> Unissued]
    /\ replays = [x \in AuthnRequest \cup Assertion |-> "none"]
    /\ samlKey = NoSaml /\ peer = "enabled"
    /\ opened = [s \in SamlSession |-> UnbornSession]
    /\ samlCall = [q \in SamlCall |-> IdleSamlCall]
    /\ answers = [r \in AuthnRequest |-> 0] /\ forgotten = {}
    /\ samlScene \in SamlScenes

SamlNext ==
    \/ \E q \in SamlCall :
          \/ ReadSamlKey(q) \/ StoreSamlKey(q) \/ RereadSamlKey(q)
          \/ FindSession(q) \/ Record(q) \/ MarkPending(q) \/ DropSamlCall(q)
          \/ \E r \in AuthnRequest : ReceiveRequest(q, r)
          \/ \E p \in Pending : ResumeRequest(q, p) \/ KeepRequest(q, p)
          \/ \E a \in Assertion : AcceptAssertion(q, a)
          \/ \E s \in SamlSession : OpenSession(q, s)
    \/ \E p \in Pending : StartBroker(p) \/ ExpirePending(p)
    \/ \E a \in Assertion : AgeAssertion(a)
    \/ \E a \in Assertion, p \in Pending, i \in SessionIndex : IssueAssertion(a, p, i)
    \/ \E s \in SamlSession : UpstreamLogout(s) \/ PeerLogout(s)
    \/ \E status \in {"enabled", "disabled", "deleted"} : ChangePeer(status)
    \/ \E r \in AuthnRequest : AgeRequest(r)
    \/ SweepPending \/ SweepReplays

SamlSpec == SamlInit /\ [][SamlNext]_samlVars

-----------------------------------------------------------------------------
\* docs/saml.md: login state and assertions cannot be replayed.  However calls interleave,
\* fail between two statements, or meet rows that expired or were swept, one assertion and
\* one state open one session at most, and an application's request is answered once as
\* long as its replay row has not been swept.
SamlUsedOnce ==
    /\ \A s, t \in SamlSession :
          s # t /\ opened[s].status # "unborn" /\ opened[t].status # "unborn" =>
              opened[s].assertion # opened[t].assertion /\ opened[s].pending # opened[t].pending
    /\ \A r \in AuthnRequest \ forgotten : answers[r] <= 1

\* docs/saml.md: applications trust the certificate of the realm.  Calls that make the
\* realm's key at the same moment all end with the one key that is kept.
OneRealmKey ==
    \A q \in SamlCall : samlCall[q].key # NoSaml => samlCall[q].key = samlKey
=============================================================================
