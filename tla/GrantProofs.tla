----------------------------- MODULE GrantProofs ------------------------------
(***************************************************************************)
(* Theorems about what a client exchanges for tokens: authorization codes  *)
(* and pushed requests (AuthorizationCode), device codes (DeviceGrant) and *)
(* permission tickets (PermissionGrant), for any number of rows and of     *)
(* requests.  Each theorem is about the specification of its component.    *)
(***************************************************************************)
EXTENDS MCServices, TLAPS

-----------------------------------------------------------------------------
(* AuthorizationCode: types.                                               *)

CodeRow == [status : {"unborn", "live", "used", "expired"}, scopes : SUBSET Scope,
            by : Exchange \cup {NoAuthz}]
ExchangeState == [at : {"new", "issue", "done"}, code : Code \cup {NoAuthz}]
AuthzAnswer == {"none", "error", "login", "page", "code", "tokens"}

\* AuthzTypeOK, in these terms.
AuthzTyped ==
    /\ browser \in BOOLEAN
    /\ consent \subseteq Scope
    /\ pushed \in [Pushed -> {"unborn", "live", "used", "expired"}]
    /\ code \in [Code -> CodeRow]
    /\ forms \subseteq SUBSET Scope
    /\ authz \in [AuthzRequest -> AuthzJob]
    /\ exchange \in [Exchange -> ExchangeState]
    /\ approved \subseteq Scope /\ crossed \in BOOLEAN
    /\ withApproval \in [AuthzRequest -> SUBSET Scope]
    /\ issued \in [Code -> Nat]
    /\ resolved \subseteq Pushed /\ again \subseteq Pushed /\ unpushed \subseteq Pushed
    /\ before \in [AuthzRequest -> SUBSET Pushed]

\* AuthzTypeOK and its folded form AuthzTyped say the same, before and after a step.
LEMMA SameAuthzTypes == (AuthzTypeOK <=> AuthzTyped) /\ (AuthzTypeOK' <=> AuthzTyped')
BY DEF AuthzTypeOK, AuthzTyped, CodeRow, ExchangeState

\* A request that has been answered holds nothing.
LEMMA AnsweredType ==
    ASSUME NEW answer \in AuthzAnswer
    PROVE  [NoRequest EXCEPT !.at = "done", !.answer = answer] \in AuthzJob
BY DEF NoRequest, AuthzJob, AuthzPlaces, Prompt, AuthzAnswer

\* Requests keep their type when one is answered, or moves on.
LEMMA AuthzAnswersType ==
    ASSUME AuthzTyped, NEW a \in AuthzRequest, NEW answer \in AuthzAnswer,
           AuthzAnswers(a, answer)
    PROVE  authz' \in [AuthzRequest -> AuthzJob]
BY AnsweredType DEF AuthzAnswers, AuthzTyped

\* An authorization that goes on keeps its type when its new row has it.
LEMMA AuthzGoesType ==
    ASSUME AuthzTyped, NEW a \in AuthzRequest, NEW place \in AuthzPlaces, AuthzGoes(a, place)
    PROVE  authz' \in [AuthzRequest -> AuthzJob]
<1>1. PICK x : x = [authz[a] EXCEPT !.at = place]
  OBVIOUS
<1>2. authz[a] \in AuthzJob
  BY DEF AuthzTyped
<1>3. x \in AuthzJob
  BY <1>1, <1>2 DEF AuthzJob
<1>4. authz' = [authz EXCEPT ![a] = x]
  BY <1>1 DEF AuthzGoes
<1> QED BY <1>3, <1>4 DEF AuthzTyped

\* The scopes a request holds are the client's.
LEMMA HeldScopes ==
    ASSUME AuthzTyped, NEW a \in AuthzRequest
    PROVE  authz[a].scopes \subseteq Scope /\ authz[a].copy \subseteq Scope
<1>1. authz[a] \in AuthzJob
  BY DEF AuthzTyped
<1> QED BY <1>1 DEF AuthzJob

\* A step of a request to the authorization endpoint keeps the types.
LEMMA AuthzRequestTypes ==
    ASSUME AuthzTyped, NEW a \in AuthzRequest,
           InAuthz(a, "mark") => authz[a].pushed \in Pushed,
           Asks(a) \/ MarkPushed(a) \/ ReadBrowser(a) \/ ReadUser(a) \/ ReadConsent(a)
             \/ MergeConsent(a) \/ StoreConsent(a) \/ CreateCode(a) \/ IssueDirectly(a)
    PROVE  AuthzTyped'
<1>p. /\ {"session", "user", "consent", "merge", "store", "code", "tokens"} \subseteq AuthzPlaces
      /\ {"error", "login", "page", "code", "tokens"} \subseteq AuthzAnswer
  BY DEF AuthzPlaces, AuthzAnswer
<1>1. CASE Asks(a)
  <2>1. PICK p \in Pushed \cup {NoAuthz}, s \in SUBSET Scope, how \in Prompt,
             f \in {"none", "allow", "deny"} : authz' = [authz EXCEPT ![a] = Asked(p, s, how, f)]
    BY <1>1 DEF Asks
  <2>2. Asked(p, s, how, f) \in AuthzJob
    BY DEF Asked, AuthzJob, AuthzPlaces
  <2> QED BY <1>1, <2>1, <2>2 DEF Asks, AuthzTyped, authzData
<1>2. CASE MarkPushed(a)
  <2>1. authz' \in [AuthzRequest -> AuthzJob]
    BY <1>2, <1>p, AuthzGoesType DEF MarkPushed
  <2> QED BY <1>2, <2>1 DEF MarkPushed, InAuthz, AuthzTyped
<1>3. CASE ReadBrowser(a) \/ ReadUser(a) \/ IssueDirectly(a)
  <2>1. authz' \in [AuthzRequest -> AuthzJob]
    BY <1>3, <1>p, AuthzGoesType, AuthzAnswersType DEF ReadBrowser, ReadUser, IssueDirectly
  <2> QED BY <1>3, <2>1
          DEF ReadBrowser, ReadUser, IssueDirectly, AuthzTyped, authzData, authzGhosts
<1>4. CASE ReadConsent(a)
  <2>1. authz' \in [AuthzRequest -> AuthzJob]
    BY <1>4, <1>p, AuthzGoesType, AuthzAnswersType DEF ReadConsent
  <2> QED BY <1>4, <2>1, HeldScopes DEF ReadConsent, AuthzTyped, authzGhosts
<1>5. CASE MergeConsent(a)
  <2>1. PICK x : x = [authz[a] EXCEPT !.at = "store", !.copy = consent \cup authz[a].scopes]
    OBVIOUS
  <2>2. authz[a] \in AuthzJob /\ consent \subseteq Scope
    BY DEF AuthzTyped
  <2>3. x \in AuthzJob
    BY <2>1, <2>2, HeldScopes, <1>p DEF AuthzJob
  <2>4. authz' = [authz EXCEPT ![a] = x]
    BY <1>5, <2>1 DEF MergeConsent
  <2> QED BY <1>5, <2>3, <2>4 DEF MergeConsent, AuthzTyped, authzData, authzGhosts
<1>6. CASE StoreConsent(a)
  <2>1. authz' \in [AuthzRequest -> AuthzJob]
    BY <1>6, <1>p, AuthzGoesType DEF StoreConsent
  <2> QED BY <1>6, <2>1, HeldScopes DEF StoreConsent, AuthzTyped
<1>7. CASE CreateCode(a)
  <2>1. authz' \in [AuthzRequest -> AuthzJob]
    BY <1>7, <1>p, AuthzGoesType, AuthzAnswersType DEF CreateCode
  <2>2. ASSUME NEW c \in Code,
               code' = [code EXCEPT ![c].status = "live", ![c].scopes = authz[a].scopes]
        PROVE  code' \in [Code -> CodeRow]
    <3>1. PICK x : x = [code[c] EXCEPT !.status = "live", !.scopes = authz[a].scopes]
      OBVIOUS
    <3>2. code[c] \in CodeRow
      BY DEF AuthzTyped
    <3>3. x \in CodeRow
      BY <3>1, <3>2, HeldScopes DEF CodeRow
    <3>4. code' = [code EXCEPT ![c] = x]
      BY <2>2, <3>1
    <3> QED BY <3>3, <3>4 DEF AuthzTyped
  <2>3. code' \in [Code -> CodeRow]
    BY <1>7, <2>2 DEF CreateCode, AuthzTyped
  <2> QED BY <1>7, <2>1, <2>3 DEF CreateCode, AuthzTyped, authzGhosts
<1> QED BY <1>1, <1>2, <1>3, <1>4, <1>5, <1>6, <1>7

\* So does a request that is lost.
LEMMA LostAuthzTypes ==
    ASSUME AuthzTyped, NEW a \in AuthzRequest,
           InAuthz(a, "mark") => authz[a].pushed \in Pushed, LoseAuthz(a)
    PROVE  AuthzTyped'
<1>1. "error" \in AuthzAnswer
  BY DEF AuthzAnswer
<1>2. authz' \in [AuthzRequest -> AuthzJob]
  BY <1>1, AuthzAnswersType DEF LoseAuthz
<1> QED BY <1>2 DEF LoseAuthz, AuthzTyped, authzData

\* So does a step of an exchange.
LEMMA ExchangeTypes ==
    ASSUME AuthzTyped, NEW x \in Exchange,
           exchange[x].at = "issue" => exchange[x].code \in Code,
           FindCode(x) \/ IssueFromCode(x) \/ RejectCode(x)
    PROVE  AuthzTyped'
<1>1. CASE FindCode(x)
  <2>1. PICK c \in Code : /\ code' = [code EXCEPT ![c].by = x]
                          /\ exchange' = [exchange EXCEPT ![x] = [at |-> "issue", code |-> c]]
    BY <1>1 DEF FindCode
  <2>2. [at |-> "issue", code |-> c] \in ExchangeState
    BY DEF ExchangeState
  <2>3. PICK r : r = [code[c] EXCEPT !.by = x]
    OBVIOUS
  <2>4. code[c] \in CodeRow
    BY DEF AuthzTyped
  <2>5. r \in CodeRow
    BY <2>3, <2>4 DEF CodeRow
  <2>6. code' = [code EXCEPT ![c] = r]
    BY <2>1, <2>3
  <2> QED BY <1>1, <2>1, <2>2, <2>5, <2>6 DEF FindCode, AuthzTyped, authzGhosts
<1>2. CASE IssueFromCode(x) \/ RejectCode(x)
  <2>1. PICK c \in Code : c = exchange[x].code
    BY <1>2 DEF IssueFromCode, RejectCode
  <2>2. PICK r, s : /\ r = [code[c] EXCEPT !.status = "used", !.by = NoAuthz]
                    /\ s = [code[c] EXCEPT !.by = NoAuthz]
    OBVIOUS
  <2>3. code[c] \in CodeRow
    BY DEF AuthzTyped
  <2>4. r \in CodeRow /\ s \in CodeRow
    BY <2>2, <2>3 DEF CodeRow
  <2>5. code' = [code EXCEPT ![c] = r] \/ code' = [code EXCEPT ![c] = s]
    BY <1>2, <2>1, <2>2 DEF IssueFromCode, RejectCode
  <2>6. code' \in [Code -> CodeRow]
    BY <2>4, <2>5 DEF AuthzTyped
  <2>7. [at |-> "done", code |-> NoAuthz] \in ExchangeState
    BY DEF ExchangeState
  <2>8. issued' = issued \/ issued' = [issued EXCEPT ![c] = @ + 1]
    BY <1>2, <2>1 DEF IssueFromCode, RejectCode, authzGhosts
  <2>9. issued' \in [Code -> Nat]
    BY <2>8 DEF AuthzTyped
  <2> QED BY <1>2, <2>6, <2>7, <2>9 DEF IssueFromCode, RejectCode, AuthzTyped, authzGhosts
<1> QED BY <1>1, <1>2

\* So do the steps of the rest of the system.
LEMMA AuthzRestTypes ==
    ASSUME AuthzTyped,
           \/ BrowserChanges \/ RevokeConsent \/ ExpireForm
           \/ \E p \in Pushed : Push(p) \/ ExpirePushed(p)
           \/ \E c \in Code : ExpireCode(c)
           \/ UNCHANGED authzVars
    PROVE  AuthzTyped'
<1>1. ASSUME NEW c \in Code, ExpireCode(c) PROVE AuthzTyped'
  <2>1. PICK r : r = [code[c] EXCEPT !.status = "expired"]
    OBVIOUS
  <2>2. code[c] \in CodeRow
    BY DEF AuthzTyped
  <2>3. r \in CodeRow
    BY <2>1, <2>2 DEF CodeRow
  <2>4. code' = [code EXCEPT ![c] = r]
    BY <1>1, <2>1 DEF ExpireCode
  <2> QED BY <1>1, <2>3, <2>4 DEF ExpireCode, AuthzTyped, authzGhosts
<1>2. CASE BrowserChanges \/ RevokeConsent \/ ExpireForm
  BY <1>2 DEF BrowserChanges, RevokeConsent, ExpireForm, AuthzTyped, authzGhosts
<1>3. ASSUME NEW p \in Pushed, Push(p) \/ ExpirePushed(p) PROVE AuthzTyped'
  BY <1>3 DEF Push, ExpirePushed, AuthzTyped, authzGhosts
<1>4. CASE UNCHANGED authzVars
  BY <1>4 DEF authzVars, authzData, authzGhosts, AuthzTyped
<1> QED BY <1>1, <1>2, <1>3, <1>4

-----------------------------------------------------------------------------
(* AuthorizationCode: a code issues tokens once, a pushed request is used  *)
(* once, an answer has an approval behind it.                              *)

\* An exchange under way holds the row of a live code.
ExchangeTrue(x) ==
    exchange[x].at = "issue" =>
       /\ exchange[x].code \in Code
       /\ code[exchange[x].code].by = x /\ code[exchange[x].code].status = "live"

\* A code that has issued tokens is marked used.
CodeTrue(c) == issued[c] <= 1 /\ (code[c].status # "used" => issued[c] = 0)

CodesInv == (\A x \in Exchange : ExchangeTrue(x)) /\ \A c \in Code : CodeTrue(c)

\* A pushed request that was used and is still live is one whose mark was lost.
PushedTrue(p) ==
    p \in resolved => pushed[p] # "unborn" /\ (pushed[p] = "live" => p \in unpushed)

\* A request about to mark its pushed request has found it live: if it was used before the
\* request came, its mark was lost.
MarkTrue(a) ==
    InAuthz(a, "mark") =>
       /\ authz[a].pushed \in Pushed /\ pushed[authz[a].pushed] # "unborn"
       /\ authz[a].pushed \in before[a] => authz[a].pushed \in unpushed

PushedInv ==
    (\A p \in Pushed : PushedTrue(p)) /\ (\A a \in AuthzRequest : MarkTrue(a)) /\ SpentPushRefused

\* What stands approved was approved at a moment of every request under way; a consent about
\* to be written holds nothing else, and a code or a token about to be answered neither.
ApprovalTrue(a) ==
    /\ ~InAuthz(a, "done") => authz[a].answer = "none"
    /\ ~InAuthz(a, "new") /\ ~InAuthz(a, "done") => approved \subseteq withApproval[a]
    /\ InAuthz(a, "store") => authz[a].copy \subseteq approved \cup authz[a].scopes \/ crossed
    /\ InAuthz(a, "code") \/ InAuthz(a, "tokens") => authz[a].scopes \subseteq withApproval[a] \/ crossed

ApprovalInv == (\A a \in AuthzRequest : ApprovalTrue(a)) /\ (consent \subseteq approved \/ crossed)

AuthzInv == AuthzTyped /\ CodesInv /\ PushedInv /\ ApprovalInv

\* The codes keep their invariant.
LEMMA CodesStep ==
    ASSUME AuthzTyped, CodesInv, [AuthzNext]_authzVars
    PROVE  CodesInv'
<1> USE AuthzAssumption
<1>t. /\ code \in [Code -> CodeRow] /\ exchange \in [Exchange -> ExchangeState]
      /\ issued \in [Code -> Nat]
  BY DEF AuthzTyped
<1>1. ASSUME NEW x \in Exchange, FindCode(x) PROVE CodesInv'
  <2>1. PICK c \in Code : /\ CodeFound(c)
                          /\ code' = [code EXCEPT ![c].by = x]
                          /\ exchange' = [exchange EXCEPT ![x] = [at |-> "issue", code |-> c]]
    BY <1>1 DEF FindCode
  <2>2. issued' = issued
    BY <1>1 DEF FindCode, authzGhosts
  <2>3. ASSUME NEW y \in Exchange PROVE ExchangeTrue(y)'
    BY <1>t, <2>1, <2>3 DEF ExchangeTrue, CodesInv, CodeFound, CodeRow, ExchangeState
  <2>4. ASSUME NEW d \in Code PROVE CodeTrue(d)'
    BY <1>t, <2>1, <2>2, <2>4 DEF CodeTrue, CodesInv, CodeRow
  <2> QED BY <2>3, <2>4 DEF CodesInv
<1>2. ASSUME NEW x \in Exchange, IssueFromCode(x) \/ RejectCode(x) PROVE CodesInv'
  <2>1. PICK c \in Code : c = exchange[x].code
    BY <1>2 DEF IssueFromCode, RejectCode, CodesInv, ExchangeTrue
  <2>2. code[c].by = x /\ code[c].status = "live" /\ issued[c] = 0
    BY <1>2, <2>1 DEF IssueFromCode, RejectCode, CodesInv, ExchangeTrue, CodeTrue
  <2>3. /\ exchange' = [exchange EXCEPT ![x] = [at |-> "done", code |-> NoAuthz]]
        /\ \/ /\ code' = [code EXCEPT ![c].status = "used", ![c].by = NoAuthz]
              /\ issued' = [issued EXCEPT ![c] = @ + 1]
           \/ code' = [code EXCEPT ![c].by = NoAuthz] /\ issued' = issued
    BY <1>2, <2>1 DEF IssueFromCode, RejectCode, authzGhosts
  <2>4. ASSUME NEW y \in Exchange PROVE ExchangeTrue(y)'
    BY <1>t, <2>2, <2>3, <2>4 DEF ExchangeTrue, CodesInv, CodeRow, ExchangeState
  <2>5. ASSUME NEW d \in Code PROVE CodeTrue(d)'
    BY <1>t, <2>2, <2>3, <2>5 DEF CodeTrue, CodesInv, CodeRow
  <2> QED BY <2>4, <2>5 DEF CodesInv
<1>3. ASSUME NEW a \in AuthzRequest, CreateCode(a) PROVE CodesInv'
  <2>1. /\ exchange' = exchange /\ issued' = issued
        /\ \/ code' = code
           \/ \E c \in Code :
                code[c].status = "unborn"
                /\ code' = [code EXCEPT ![c].status = "live", ![c].scopes = authz[a].scopes]
    BY <1>3 DEF CreateCode, authzGhosts
  <2>2. ASSUME NEW y \in Exchange PROVE ExchangeTrue(y)'
    BY <1>t, <2>1, <2>2 DEF ExchangeTrue, CodesInv, CodeRow
  <2>3. ASSUME NEW d \in Code PROVE CodeTrue(d)'
    BY <1>t, <2>1, <2>3 DEF CodeTrue, CodesInv, CodeRow
  <2> QED BY <2>2, <2>3 DEF CodesInv
<1>4. ASSUME NEW c \in Code, ExpireCode(c) PROVE CodesInv'
  <2>1. /\ exchange' = exchange /\ issued' = issued
        /\ code[c].status = "live" /\ code[c].by = NoAuthz
        /\ code' = [code EXCEPT ![c].status = "expired"]
    BY <1>4 DEF ExpireCode, authzGhosts
  <2>2. ASSUME NEW y \in Exchange PROVE ExchangeTrue(y)'
    BY <1>t, <2>1, <2>2 DEF ExchangeTrue, CodesInv, CodeRow
  <2>3. ASSUME NEW d \in Code PROVE CodeTrue(d)'
    BY <1>t, <2>1, <2>3 DEF CodeTrue, CodesInv, CodeRow
  <2> QED BY <2>2, <2>3 DEF CodesInv
<1>5. CASE UNCHANGED <<code, exchange, issued>>
  BY <1>5 DEF CodesInv, ExchangeTrue, CodeTrue
<1>6. \/ UNCHANGED <<code, exchange, issued>>
      \/ \E x \in Exchange : FindCode(x) \/ IssueFromCode(x) \/ RejectCode(x)
      \/ \E a \in AuthzRequest : CreateCode(a)
      \/ \E c \in Code : ExpireCode(c)
  <2>1. ASSUME NEW a \in AuthzRequest,
               Asks(a) \/ MarkPushed(a) \/ ReadBrowser(a) \/ ReadUser(a) \/ ReadConsent(a)
                 \/ MergeConsent(a) \/ StoreConsent(a) \/ IssueDirectly(a) \/ LoseAuthz(a)
        PROVE  UNCHANGED <<code, exchange, issued>>
    BY <2>1 DEF Asks, MarkPushed, ReadBrowser, ReadUser, ReadConsent, MergeConsent,
                StoreConsent, IssueDirectly, LoseAuthz, authzData, authzGhosts
  <2>2. BrowserChanges \/ RevokeConsent \/ ExpireForm \/ (\E p \in Pushed : Push(p) \/ ExpirePushed(p))
          => UNCHANGED <<code, exchange, issued>>
    BY DEF BrowserChanges, RevokeConsent, ExpireForm, Push, ExpirePushed, authzGhosts
  <2>3. UNCHANGED authzVars => UNCHANGED <<code, exchange, issued>>
    BY DEF authzVars, authzData, authzGhosts
  <2> QED BY <2>1, <2>2, <2>3 DEF AuthzNext
<1> QED BY <1>1, <1>2, <1>3, <1>4, <1>5, <1>6


\* A request moves alone.
LEMMA OneAuthzMoves ==
    ASSUME AuthzTyped, NEW a \in AuthzRequest,
           Asks(a) \/ MarkPushed(a) \/ ReadBrowser(a) \/ ReadUser(a) \/ ReadConsent(a)
             \/ MergeConsent(a) \/ StoreConsent(a) \/ CreateCode(a) \/ IssueDirectly(a)
             \/ LoseAuthz(a)
    PROVE  \A b \in AuthzRequest : b # a => authz'[b] = authz[b]
BY DEF AuthzTyped, Asks, MarkPushed, ReadBrowser, ReadUser, ReadConsent, MergeConsent,
       StoreConsent, CreateCode, IssueDirectly, LoseAuthz, AuthzGoes, AuthzAnswers

\* The place a request is at after its step.
LEMMA PlaceAfter ==
    ASSUME AuthzTyped, NEW a \in AuthzRequest, NEW place, AuthzGoes(a, place)
    PROVE  /\ authz'[a].at = place
           /\ authz'[a].pushed = authz[a].pushed /\ authz'[a].scopes = authz[a].scopes
           /\ authz'[a].copy = authz[a].copy /\ authz'[a].answer = authz[a].answer
<1>1. authz \in [AuthzRequest -> AuthzJob] /\ authz[a] \in AuthzJob
  BY DEF AuthzTyped
<1> QED BY <1>1 DEF AuthzGoes, AuthzJob

\* A request that is answered is done.
LEMMA DoneAfter ==
    ASSUME AuthzTyped, NEW a \in AuthzRequest, NEW answer, AuthzAnswers(a, answer)
    PROVE  authz'[a].at = "done" /\ authz'[a].answer = answer
BY DEF AuthzTyped, AuthzAnswers, NoRequest

\* The pushed requests keep their invariant.
LEMMA PushedStep ==
    ASSUME AuthzTyped, PushedInv, [AuthzNext]_authzVars
    PROVE  PushedInv'
<1>t. /\ authz \in [AuthzRequest -> AuthzJob]
      /\ pushed \in [Pushed -> {"unborn", "live", "used", "expired"}]
      /\ before \in [AuthzRequest -> SUBSET Pushed]
  BY DEF AuthzTyped
<1>1. ASSUME NEW a \in AuthzRequest, Asks(a) PROVE PushedInv'
  <2>1. PICK p \in Pushed \cup {NoAuthz}, s \in SUBSET Scope, how \in Prompt,
             f \in {"none", "allow", "deny"} :
           /\ p # NoAuthz => PushedFound(p)
           /\ authz' = [authz EXCEPT ![a] = Asked(p, s, how, f)]
    BY <1>1 DEF Asks
  <2>2. before' = [before EXCEPT ![a] = resolved] /\ UNCHANGED <<pushed, resolved, again, unpushed>>
    BY <1>1 DEF Asks, authzData
  <2>3. MarkTrue(a)'
    BY <1>t, <2>1, <2>2 DEF MarkTrue, InAuthz, Asked, PushedFound, PushedInv, PushedTrue
  <2>4. ASSUME NEW b \in AuthzRequest, b # a PROVE MarkTrue(b)'
    BY <1>t, <2>1, <2>2, <2>4 DEF MarkTrue, InAuthz, PushedInv
  <2>5. (\A q \in Pushed : PushedTrue(q))' /\ SpentPushRefused'
    BY <2>2 DEF PushedInv, PushedTrue, SpentPushRefused
  <2> QED BY <2>3, <2>4, <2>5 DEF PushedInv
<1>2. ASSUME NEW a \in AuthzRequest, MarkPushed(a) PROVE PushedInv'
  <2>1. PICK p \in Pushed : p = authz[a].pushed
    BY <1>2 DEF MarkPushed, PushedInv, MarkTrue
  <2>2. p \in before[a] => p \in unpushed
    BY <1>2, <2>1 DEF MarkPushed, PushedInv, MarkTrue
  <2>3. /\ \/ pushed' = [pushed EXCEPT ![p] = "used"] /\ unpushed' = unpushed
           \/ pushed' = pushed /\ unpushed' = unpushed \cup {p}
        /\ resolved' = resolved \cup {p}
        /\ again' = IF p \in before[a] THEN again \cup {p} ELSE again
        /\ before' = before
    BY <1>2, <2>1 DEF MarkPushed
  <2>4. ~InAuthz(a, "mark")' /\ \A b \in AuthzRequest : b # a => authz'[b] = authz[b]
    <3>1. AuthzGoes(a, "session")
      BY <1>2 DEF MarkPushed
    <3>2. authz'[a].at = "session"
      BY <3>1, PlaceAfter
    <3> QED BY <1>2, <3>2, OneAuthzMoves DEF InAuthz
  <2>5. ASSUME NEW b \in AuthzRequest PROVE MarkTrue(b)'
    <3>1. CASE b = a
      BY <2>4, <3>1 DEF MarkTrue
    <3>2. CASE b # a
      BY <1>t, <2>3, <2>4, <2>5, <3>2 DEF MarkTrue, InAuthz, PushedInv
    <3> QED BY <3>1, <3>2
  <2>6. pushed[p] # "unborn"
    BY <1>2, <2>1 DEF MarkPushed, PushedInv, MarkTrue
  <2>7. ASSUME NEW q \in Pushed PROVE PushedTrue(q)'
    BY <1>t, <2>3, <2>6, <2>7 DEF PushedTrue, PushedInv
  <2>8. SpentPushRefused'
    BY <2>2, <2>3 DEF PushedInv, SpentPushRefused
  <2> QED BY <2>5, <2>7, <2>8 DEF PushedInv
<1>3. ASSUME NEW a \in AuthzRequest,
             UNCHANGED <<pushed, resolved, again, before>>, unpushed \subseteq unpushed',
             ~InAuthz(a, "mark")', \A b \in AuthzRequest : b # a => authz'[b] = authz[b]
      PROVE  PushedInv'
  <2>1. ASSUME NEW b \in AuthzRequest PROVE MarkTrue(b)'
    BY <1>3, <2>1 DEF MarkTrue, InAuthz, PushedInv
  <2>2. (\A q \in Pushed : PushedTrue(q))' /\ SpentPushRefused'
    BY <1>3 DEF PushedInv, PushedTrue, SpentPushRefused
  <2> QED BY <2>1, <2>2 DEF PushedInv
<1>4. ASSUME NEW a \in AuthzRequest,
             ReadBrowser(a) \/ ReadUser(a) \/ ReadConsent(a) \/ MergeConsent(a)
               \/ StoreConsent(a) \/ CreateCode(a) \/ IssueDirectly(a) \/ LoseAuthz(a)
      PROVE  PushedInv'
  <2>1. \A b \in AuthzRequest : b # a => authz'[b] = authz[b]
    BY <1>4, OneAuthzMoves
  <2>2. ~InAuthz(a, "mark")'
    <3>1. ASSUME NEW place, place # "mark", AuthzGoes(a, place) PROVE ~InAuthz(a, "mark")'
      BY <3>1, PlaceAfter DEF InAuthz
    <3>2. ASSUME NEW answer, AuthzAnswers(a, answer) PROVE ~InAuthz(a, "mark")'
      BY <3>2, DoneAfter DEF InAuthz
    <3>3. CASE MergeConsent(a)
      <4>1. PICK x : x = [authz[a] EXCEPT !.at = "store", !.copy = consent \cup authz[a].scopes]
        OBVIOUS
      <4>2. authz'[a] = x /\ x.at = "store"
        BY <1>t, <3>3, <4>1 DEF MergeConsent, AuthzJob
      <4> QED BY <4>2 DEF InAuthz
    <3> QED BY <1>4, <3>1, <3>2, <3>3
            DEF ReadBrowser, ReadUser, ReadConsent, StoreConsent, CreateCode, IssueDirectly,
                LoseAuthz
  <2>3. UNCHANGED <<pushed, resolved, again, before>> /\ unpushed \subseteq unpushed'
    BY <1>4 DEF ReadBrowser, ReadUser, ReadConsent, MergeConsent, StoreConsent, CreateCode,
                IssueDirectly, LoseAuthz, authzData, authzGhosts
  <2> QED BY <1>3, <2>1, <2>2, <2>3
<1>5. ASSUME NEW p \in Pushed, Push(p) \/ ExpirePushed(p) PROVE PushedInv'
  <2>1. /\ UNCHANGED <<authz, resolved, again, before, unpushed>>
        /\ \/ pushed[p] = "unborn" /\ pushed' = [pushed EXCEPT ![p] = "live"]
           \/ pushed[p] = "live" /\ pushed' = [pushed EXCEPT ![p] = "expired"]
    BY <1>5 DEF Push, ExpirePushed, authzGhosts
  <2>2. ASSUME NEW b \in AuthzRequest PROVE MarkTrue(b)'
    BY <1>t, <2>1, <2>2 DEF MarkTrue, InAuthz, PushedInv
  <2>3. ASSUME NEW q \in Pushed PROVE PushedTrue(q)'
    BY <1>t, <2>1, <2>3 DEF PushedTrue, PushedInv
  <2> QED BY <2>1, <2>2, <2>3 DEF PushedInv, SpentPushRefused
<1>6. CASE UNCHANGED <<authz, pushed, resolved, again, before, unpushed>>
  BY <1>6 DEF PushedInv, PushedTrue, MarkTrue, InAuthz, SpentPushRefused
<1>7. /\ (\E x \in Exchange : FindCode(x) \/ IssueFromCode(x) \/ RejectCode(x))
           \/ BrowserChanges \/ RevokeConsent \/ ExpireForm \/ (\E c \in Code : ExpireCode(c))
         => UNCHANGED <<authz, pushed, resolved, again, before, unpushed>>
      /\ UNCHANGED authzVars => UNCHANGED <<authz, pushed, resolved, again, before, unpushed>>
  BY DEF FindCode, IssueFromCode, RejectCode, BrowserChanges, RevokeConsent, ExpireForm,
         ExpireCode, authzVars, authzData, authzGhosts
<1> QED BY <1>1, <1>2, <1>4, <1>5, <1>6, <1>7 DEF AuthzNext

\* Approvals: what a step makes of them.
LEMMA ApprovalStep ==
    ASSUME AuthzTyped, ApprovalInv, [AuthzNext]_authzVars
    PROVE  ApprovalInv'
<1>t. /\ authz \in [AuthzRequest -> AuthzJob]
      /\ withApproval \in [AuthzRequest -> SUBSET Scope]
  BY DEF AuthzTyped
<1>1. ASSUME NEW a \in AuthzRequest, Asks(a) PROVE ApprovalInv'
  <2>1. PICK p \in Pushed \cup {NoAuthz}, s \in SUBSET Scope, how \in Prompt,
             f \in {"none", "allow", "deny"} : authz' = [authz EXCEPT ![a] = Asked(p, s, how, f)]
    BY <1>1 DEF Asks
  <2>2. /\ withApproval' = [withApproval EXCEPT ![a] = approved]
        /\ UNCHANGED <<consent, approved, crossed>>
    BY <1>1 DEF Asks, authzData
  <2>3. ASSUME NEW b \in AuthzRequest PROVE ApprovalTrue(b)'
    BY <1>t, <2>1, <2>2, <2>3 DEF ApprovalTrue, ApprovalInv, InAuthz, Asked
  <2> QED BY <2>2, <2>3 DEF ApprovalInv
<1>2. ASSUME NEW a \in AuthzRequest, UNCHANGED <<consent, approved, crossed, withApproval>>,
             \A b \in AuthzRequest : b # a => authz'[b] = authz[b], ApprovalTrue(a)'
      PROVE  ApprovalInv'
  <2>1. ASSUME NEW b \in AuthzRequest PROVE ApprovalTrue(b)'
    BY <1>2, <2>1 DEF ApprovalTrue, ApprovalInv, InAuthz
  <2> QED BY <1>2, <2>1 DEF ApprovalInv
<1>3. ASSUME NEW a \in AuthzRequest,
             MarkPushed(a) \/ ReadBrowser(a) \/ ReadUser(a) \/ ReadConsent(a) \/ MergeConsent(a)
               \/ CreateCode(a) \/ IssueDirectly(a) \/ LoseAuthz(a)
      PROVE  ApprovalInv'
  <2>1. UNCHANGED <<consent, approved, crossed, withApproval>>
    BY <1>3 DEF MarkPushed, ReadBrowser, ReadUser, ReadConsent, MergeConsent, CreateCode,
                IssueDirectly, LoseAuthz, authzData, authzGhosts
  <2>2. \A b \in AuthzRequest : b # a => authz'[b] = authz[b]
    BY <1>3, OneAuthzMoves
  <2>3. ASSUME NEW place, AuthzGoes(a, place), ~InAuthz(a, "new"), ~InAuthz(a, "done"),
               place \notin {"new", "done", "store"},
               place \in {"code", "tokens"} => authz[a].scopes \subseteq withApproval[a] \/ crossed
        PROVE  ApprovalTrue(a)'
    BY <2>1, <2>3, PlaceAfter DEF ApprovalTrue, ApprovalInv, InAuthz
  <2>4. ASSUME NEW answer, AuthzAnswers(a, answer) PROVE ApprovalTrue(a)'
    <3>1. authz'[a].at = "done"
      BY <2>4, DoneAfter
    <3> QED BY <3>1 DEF ApprovalTrue, InAuthz
  <2>5. ApprovalTrue(a)'
    <3>1. CASE MarkPushed(a) \/ ReadBrowser(a) \/ ReadUser(a) \/ IssueDirectly(a) \/ LoseAuthz(a)
      BY <3>1, <2>3, <2>4 DEF MarkPushed, ReadBrowser, ReadUser, IssueDirectly, LoseAuthz, InAuthz
    <3>2. CASE ReadConsent(a)
      <4>1. Silent(a) => authz[a].scopes \subseteq withApproval[a] \/ crossed
        BY <3>2 DEF ReadConsent, InAuthz, Silent, ApprovalInv, ApprovalTrue
      <4> QED BY <3>2, <4>1, <2>3, <2>4 DEF ReadConsent, InAuthz
    <3>3. CASE MergeConsent(a)
      <4>1. PICK x : x = [authz[a] EXCEPT !.at = "store", !.copy = consent \cup authz[a].scopes]
        OBVIOUS
      <4>2. authz[a] \in AuthzJob
        BY <1>t
      <4>3. /\ x.at = "store" /\ x.copy = consent \cup authz[a].scopes
            /\ x.scopes = authz[a].scopes /\ x.answer = authz[a].answer
        BY <4>1, <4>2 DEF AuthzJob
      <4>4. authz'[a] = x /\ authz[a].at = "merge"
        BY <1>t, <3>3, <4>1 DEF MergeConsent, InAuthz
      <4> QED BY <2>1, <4>3, <4>4 DEF ApprovalTrue, ApprovalInv, InAuthz
    <3>4. CASE CreateCode(a)
      <4>1. authz[a].scopes \subseteq withApproval[a] \/ crossed
        BY <3>4 DEF CreateCode, ApprovalInv, ApprovalTrue
      <4> QED BY <3>4, <4>1, <2>3, <2>4 DEF CreateCode, InAuthz
    <3> QED BY <1>3, <3>1, <3>2, <3>3, <3>4
  <2> QED BY <1>2, <2>1, <2>2, <2>5
<1>4. ASSUME NEW a \in AuthzRequest, StoreConsent(a) PROVE ApprovalInv'
  <2>1. /\ consent' = authz[a].copy /\ crossed' = crossed
        /\ approved' = approved \cup authz[a].scopes
        /\ withApproval' = [b \in AuthzRequest |-> withApproval[b] \cup authz[a].scopes]
        /\ authz[a].at = "store" /\ AuthzGoes(a, "code")
    BY <1>4 DEF StoreConsent, InAuthz
  <2>2. \A b \in AuthzRequest : b # a => authz'[b] = authz[b]
    BY <1>4, OneAuthzMoves
  <2>3. ASSUME NEW b \in AuthzRequest, b # a PROVE ApprovalTrue(b)'
    BY <1>t, <2>1, <2>2, <2>3 DEF ApprovalTrue, ApprovalInv, InAuthz
  <2>4. ApprovalTrue(a)'
    BY <1>t, <2>1, PlaceAfter DEF ApprovalTrue, ApprovalInv, InAuthz
  <2> QED BY <2>1, <2>3, <2>4 DEF ApprovalInv, ApprovalTrue, InAuthz
<1>5. CASE RevokeConsent
  <2>1. /\ consent' = {} /\ approved' = {} /\ UNCHANGED <<authz, withApproval>>
        /\ crossed' = (crossed \/ \E a \in AuthzRequest : InAuthz(a, "store"))
    BY <1>5 DEF RevokeConsent
  <2>2. crossed => crossed'
    BY <2>1
  <2>3. ASSUME NEW a \in AuthzRequest, InAuthz(a, "store") PROVE crossed'
    BY <2>1, <2>3
  <2>4. ASSUME NEW b \in AuthzRequest PROVE ApprovalTrue(b)'
    BY <2>1, <2>2, <2>3, <2>4 DEF ApprovalTrue, ApprovalInv, InAuthz
  <2> QED BY <2>1, <2>4 DEF ApprovalInv
<1>6. CASE UNCHANGED <<authz, consent, approved, crossed, withApproval>>
  BY <1>6 DEF ApprovalInv, ApprovalTrue, InAuthz
<1>7. /\ (\E x \in Exchange : FindCode(x) \/ IssueFromCode(x) \/ RejectCode(x))
           \/ BrowserChanges \/ ExpireForm \/ (\E c \in Code : ExpireCode(c))
           \/ (\E p \in Pushed : Push(p) \/ ExpirePushed(p))
         => UNCHANGED <<authz, consent, approved, crossed, withApproval>>
      /\ UNCHANGED authzVars => UNCHANGED <<authz, consent, approved, crossed, withApproval>>
  BY DEF FindCode, IssueFromCode, RejectCode, BrowserChanges, Push, ExpirePushed, ExpireForm,
         ExpireCode, authzVars, authzData, authzGhosts
<1> QED BY <1>1, <1>3, <1>4, <1>5, <1>6, <1>7 DEF AuthzNext


\* The initial states.
LEMMA AuthzStart == AuthzInit => AuthzInv
<1> SUFFICES ASSUME AuthzInit PROVE AuthzInv
  OBVIOUS
<1>1. NoRequest \in AuthzJob /\ NoRequest.at = "new" /\ NoRequest.answer = "none"
  BY DEF NoRequest, AuthzJob, AuthzPlaces, Prompt
<1>2. [status |-> "unborn", scopes |-> {}, by |-> NoAuthz] \in CodeRow
      /\ [at |-> "new", code |-> NoAuthz] \in ExchangeState
  BY DEF CodeRow, ExchangeState
<1>3. AuthzTyped
  BY <1>1, <1>2 DEF AuthzInit, AuthzTyped
<1>4. CodesInv
  BY DEF AuthzInit, CodesInv, ExchangeTrue, CodeTrue
<1>5. PushedInv
  BY <1>1 DEF AuthzInit, PushedInv, PushedTrue, MarkTrue, InAuthz, SpentPushRefused
<1>6. ApprovalInv
  BY <1>1 DEF AuthzInit, ApprovalInv, ApprovalTrue, InAuthz
<1> QED BY <1>3, <1>4, <1>5, <1>6 DEF AuthzInv

\* Every step of the authorization code flow preserves its invariant.
LEMMA AuthzStep == AuthzInv /\ [AuthzNext]_authzVars => AuthzInv'
<1> SUFFICES ASSUME AuthzInv, [AuthzNext]_authzVars PROVE AuthzInv'
  OBVIOUS
<1>1. AuthzTyped'
  <2>1. AuthzTyped
    BY DEF AuthzInv
  <2>2. ASSUME NEW a \in AuthzRequest PROVE InAuthz(a, "mark") => authz[a].pushed \in Pushed
    BY DEF AuthzInv, PushedInv, MarkTrue
  <2>3. ASSUME NEW x \in Exchange PROVE exchange[x].at = "issue" => exchange[x].code \in Code
    BY DEF AuthzInv, CodesInv, ExchangeTrue
  <2> QED BY <2>1, <2>2, <2>3, AuthzRequestTypes, LostAuthzTypes, ExchangeTypes, AuthzRestTypes
          DEF AuthzNext
<1> QED BY <1>1, CodesStep, PushedStep, ApprovalStep DEF AuthzInv

\* The invariant of the authorization endpoint and of the exchange of codes.
THEOREM AuthzInvariance == AuthzSpec => []AuthzInv
<1> QED BY AuthzStart, AuthzStep, PTL DEF AuthzSpec

\* authorize_inner and AuthorizationCodeFlow::execute keep the rows and the requests they
\* read and write of the declared types.
THEOREM AuthzTypes == AuthzSpec => []AuthzTypeOK
<1>1. AuthzInv => AuthzTypeOK
  BY SameAuthzTypes DEF AuthzInv
<1> QED BY <1>1, AuthzInvariance, PTL

\* A code issues tokens once, however often and however many at once present it, and
\* whatever is rolled back.
THEOREM CodesOnce == AuthzSpec => []CodeIssuesOnce
<1>1. AuthzInv => CodeIssuesOnce
  BY DEF AuthzInv, CodesInv, CodeTrue, CodeIssuesOnce
<1> QED BY <1>1, AuthzInvariance, PTL

\* A request that comes when its pushed request was answered for is refused, unless the
\* mark was lost; requests that overlap the first are not.
THEOREM SpentPushes == AuthzSpec => []SpentPushRefused
<1>1. AuthzInv => SpentPushRefused
  BY DEF AuthzInv, PushedInv
<1> QED BY <1>1, AuthzInvariance, PTL

\* A request that answers a code or tokens answers them for scopes that were approved at a
\* moment of the request, unless a grant crossed a revocation of the consent.
THEOREM AnswersAreApproved == AuthzSpec => CodeNeedsApproval
<1>1. ASSUME AuthzInv, [AuthzNext]_authzVars, NEW a \in AuthzRequest, ~InAuthz(a, "done"),
             authz'[a].answer \in {"code", "tokens"}
      PROVE  authz[a].scopes \subseteq withApproval[a] \/ crossed
  <2>1. AuthzTyped /\ authz[a].answer = "none"
    BY <1>1 DEF AuthzInv, ApprovalInv, ApprovalTrue
  <2>2. ASSUME NEW b \in AuthzRequest, b # a,
               Asks(b) \/ MarkPushed(b) \/ ReadBrowser(b) \/ ReadUser(b) \/ ReadConsent(b)
                 \/ MergeConsent(b) \/ StoreConsent(b) \/ CreateCode(b) \/ IssueDirectly(b)
                 \/ LoseAuthz(b)
        PROVE  FALSE
    BY <1>1, <2>1, <2>2, OneAuthzMoves
  <2>3. CASE Asks(a)
    <3>1. PICK p \in Pushed \cup {NoAuthz}, s \in SUBSET Scope, how \in Prompt,
               f \in {"none", "allow", "deny"} : authz' = [authz EXCEPT ![a] = Asked(p, s, how, f)]
      BY <2>3 DEF Asks
    <3> QED BY <1>1, <2>1, <3>1 DEF Asked, AuthzTyped
  <2>4. CASE MarkPushed(a) \/ ReadBrowser(a) \/ ReadUser(a) \/ ReadConsent(a) \/ StoreConsent(a)
               \/ LoseAuthz(a)
    <3>1. ASSUME NEW place, AuthzGoes(a, place) PROVE FALSE
      BY <1>1, <2>1, <3>1, PlaceAfter
    <3>2. ASSUME NEW answer, AuthzAnswers(a, answer), answer \notin {"code", "tokens"} PROVE FALSE
      BY <1>1, <2>1, <3>2, DoneAfter
    <3> QED BY <2>4, <3>1, <3>2
            DEF MarkPushed, ReadBrowser, ReadUser, ReadConsent, StoreConsent, LoseAuthz
  <2>5. CASE MergeConsent(a)
    <3>1. authz[a] \in AuthzJob
      BY <2>1 DEF AuthzTyped
    <3>2. authz'[a].answer = authz[a].answer
      BY <2>1, <2>5, <3>1 DEF MergeConsent, AuthzTyped, AuthzJob
    <3> QED BY <1>1, <2>1, <3>2
  <2>6. CASE CreateCode(a) \/ IssueDirectly(a)
    BY <1>1, <2>6 DEF CreateCode, IssueDirectly, AuthzInv, ApprovalInv, ApprovalTrue
  <2>7. ASSUME authz' = authz PROVE FALSE
    BY <1>1, <2>1, <2>7
  <2>8. /\ (\E x \in Exchange : FindCode(x) \/ IssueFromCode(x) \/ RejectCode(x))
             \/ BrowserChanges \/ RevokeConsent \/ ExpireForm \/ (\E c \in Code : ExpireCode(c))
             \/ (\E p \in Pushed : Push(p) \/ ExpirePushed(p))
           => authz' = authz
        /\ UNCHANGED authzVars => authz' = authz
    BY DEF FindCode, IssueFromCode, RejectCode, BrowserChanges, RevokeConsent, Push,
           ExpirePushed, ExpireForm, ExpireCode, authzVars, authzData, authzGhosts
  <2> QED BY <1>1, <2>2, <2>3, <2>4, <2>5, <2>6, <2>7, <2>8 DEF AuthzNext
<1>2. AuthzInv /\ [AuthzNext]_authzVars
        => [\A a \in AuthzRequest :
              ~InAuthz(a, "done") /\ authz'[a].answer \in {"code", "tokens"}
                 => authz[a].scopes \subseteq withApproval[a] \/ crossed]_authzVars
  BY <1>1
<1> QED BY <1>2, AuthzInvariance, PTL DEF AuthzSpec, CodeNeedsApproval


-----------------------------------------------------------------------------
(* DeviceGrant: every exchange is for a user who was told of the           *)
(* authorization, and no poll that comes later is answered tokens.         *)

\* A device code that is not used has been exchanged by nobody; its user was told.
DeviceTrue(d) ==
    /\ device[d].status = "unborn" \/ ~device[d].used => exchanged[d] = 0
    /\ device[d].authorized => device[d].user \in told[d]

\* A poll that goes on found the code unused and authorized.
PollTrue(p) ==
    poll[p].at \in {"mark", "issue"} \/ poll[p].answer = "tokens" =>
       /\ poll[p].device \in Device /\ device[poll[p].device].status # "unborn"
       /\ atStart[p] = 0 /\ poll[p].user \in told[poll[p].device]

ConfirmTrue(q) ==
    confirm[q].at = "update" => confirm[q].device \in Device /\ confirm[q].user \in DeviceUser

DeviceInv ==
    /\ DeviceTypeOK
    /\ \A d \in Device : DeviceTrue(d)
    /\ \A p \in Poll : PollTrue(p)
    /\ \A q \in Confirm : ConfirmTrue(q)

\* The requests that a step leaves alone.
LEMMA PollLemma ==
    ASSUME DeviceTypeOK, \A p \in Poll : PollTrue(p), poll' = poll, atStart' = atStart,
           \A d \in Device : /\ told[d] \subseteq told'[d]
                             /\ device[d].status # "unborn" => device'[d].status # "unborn"
    PROVE  \A p \in Poll : PollTrue(p)'
BY DEF PollTrue

\* A confirmation keeps the invariant.
LEMMA ConfirmStep ==
    ASSUME DeviceInv, NEW q \in Confirm, FindUserCode(q) \/ MarkAuthorized(q)
    PROVE  DeviceInv'
<1>t. /\ device \in [Device -> DeviceRow] /\ confirm \in [Confirm -> ConfirmJob]
      /\ confirm[q] \in ConfirmJob /\ told \in [Device -> SUBSET DeviceUser]
      /\ exchanged \in [Device -> Nat]
  BY DEF DeviceInv, DeviceTypeOK
<1>1. CASE FindUserCode(q)
  <2>1. PICK d \in Device, u \in DeviceUser :
           confirm' = [confirm EXCEPT ![q] = [at |-> "update", device |-> d, user |-> u]]
    BY <1>1 DEF FindUserCode
  <2>2. [at |-> "update", device |-> d, user |-> u] \in ConfirmJob
    BY DEF ConfirmJob
  <2>3. UNCHANGED <<device, owner, poll, exchanged, atStart, told>>
    BY <1>1 DEF FindUserCode, deviceGhosts
  <2>4. DeviceTypeOK'
    BY <1>t, <2>1, <2>2, <2>3 DEF DeviceInv, DeviceTypeOK
  <2>5. \A r \in Confirm : ConfirmTrue(r)'
    BY <1>t, <2>1 DEF DeviceInv, ConfirmTrue
  <2> QED BY <2>3, <2>4, <2>5 DEF DeviceInv, DeviceTrue, PollTrue
<1>2. CASE MarkAuthorized(q)
  <2>1. PICK d \in Device : d = confirm[q].device
    BY <1>2 DEF MarkAuthorized, DeviceInv, ConfirmTrue
  <2>2. PICK u : u = confirm[q].user
    OBVIOUS
  <2>3. PICK r : r = [device[d] EXCEPT !.authorized = TRUE, !.user = u]
    OBVIOUS
  <2>4. device[d] \in DeviceRow /\ u \in DeviceUser \cup {NoDevice}
    BY <1>t, <2>2 DEF ConfirmJob
  <2>5. /\ r \in DeviceRow
        /\ r.status = device[d].status /\ r.used = device[d].used /\ r.user = u
    BY <2>3, <2>4 DEF DeviceRow
  <2>6. PICK x : x = [confirm[q] EXCEPT !.at = "done"]
    OBVIOUS
  <2>7. x \in ConfirmJob /\ x.at = "done"
    BY <1>t, <2>6 DEF ConfirmJob
  <2>8. /\ device' = device \/ device' = [device EXCEPT ![d] = r]
        /\ confirm' = [confirm EXCEPT ![q] = x]
        /\ told' = [told EXCEPT ![d] = @ \cup {u}]
        /\ UNCHANGED <<owner, poll, exchanged, atStart>>
    BY <1>2, <2>1, <2>2, <2>3, <2>6 DEF MarkAuthorized
  <2>9. told' \in [Device -> SUBSET DeviceUser]
    <3>1. u \in DeviceUser
      BY <1>2, <2>2 DEF MarkAuthorized, DeviceInv, ConfirmTrue
    <3> QED BY <1>t, <2>8, <3>1
  <2>10. DeviceTypeOK'
    BY <1>t, <2>5, <2>7, <2>8, <2>9 DEF DeviceInv, DeviceTypeOK
  <2>11. \A c \in Confirm : ConfirmTrue(c)'
    BY <1>t, <2>7, <2>8 DEF DeviceInv, ConfirmTrue
  <2>12. ASSUME NEW e \in Device PROVE DeviceTrue(e)'
    BY <1>t, <2>5, <2>8, <2>12 DEF DeviceInv, DeviceTrue
  <2>13. \A e \in Device : /\ told[e] \subseteq told'[e]
                           /\ device[e].status # "unborn" => device'[e].status # "unborn"
    BY <1>t, <2>5, <2>8
  <2>14. \A p \in Poll : PollTrue(p)'
    BY <2>8, <2>13, PollLemma DEF DeviceInv
  <2> QED BY <2>10, <2>11, <2>12, <2>14 DEF DeviceInv
<1> QED BY <1>1, <1>2

\* So does a poll.
LEMMA PollStep ==
    ASSUME DeviceInv, NEW p \in Poll,
           ReadDevice(p) \/ MarkDevice(p) \/ IssueToDevice(p) \/ RejectPoll(p)
    PROVE  DeviceInv'
<1>t. /\ device \in [Device -> DeviceRow] /\ poll \in [Poll -> PollJob]
      /\ poll[p] \in PollJob /\ owner \in [Device -> Poll \cup {NoDevice}]
      /\ exchanged \in [Device -> Nat] /\ atStart \in [Poll -> Nat]
  BY DEF DeviceInv, DeviceTypeOK
<1>1. CASE ReadDevice(p)
  <2>1. PICK d, x :
           /\ d \in Device
           /\ x = IF FoundUnused(d) /\ ClientMatches(d) /\ device[d].authorized
                  THEN [at |-> "mark", device |-> d, user |-> device[d].user, answer |-> "none"]
                  ELSE [at |-> "done", device |-> d, user |-> NoDevice, answer |-> "error"]
           /\ poll' = [poll EXCEPT ![p] = x]
           /\ atStart' = [atStart EXCEPT ![p] = exchanged[d]]
    BY <1>1 DEF ReadDevice
  <2>2. device[d] \in DeviceRow
    BY <1>t, <2>1
  <2>3. /\ x \in PollJob /\ x.device = d
        /\ x.at \in {"mark", "issue"} \/ x.answer = "tokens" =>
             FoundUnused(d) /\ device[d].authorized /\ x.user = device[d].user
    BY <2>1, <2>2 DEF PollJob, DeviceRow
  <2>4. UNCHANGED <<device, owner, confirm, exchanged, told>>
    BY <1>1 DEF ReadDevice
  <2>5. DeviceTypeOK'
    BY <1>t, <2>1, <2>3, <2>4 DEF DeviceInv, DeviceTypeOK
  <2>6. PollTrue(p)'
    BY <1>t, <2>1, <2>3, <2>4 DEF DeviceInv, DeviceTrue, PollTrue, FoundUnused
  <2>7. ASSUME NEW r \in Poll, r # p PROVE PollTrue(r)'
    BY <1>t, <2>1, <2>4, <2>7 DEF DeviceInv, PollTrue
  <2> QED BY <2>4, <2>5, <2>6, <2>7 DEF DeviceInv, DeviceTrue, ConfirmTrue
<1>2. CASE MarkDevice(p)
  <2>1. PICK x : x = [poll[p] EXCEPT !.at = "issue"]
    OBVIOUS
  <2>2. /\ x \in PollJob /\ x.device = poll[p].device /\ x.user = poll[p].user
        /\ x.answer = poll[p].answer
    BY <1>t, <2>1 DEF PollJob
  <2>3. /\ poll' = [poll EXCEPT ![p] = x] /\ poll[p].at = "mark"
        /\ owner' = [owner EXCEPT ![poll[p].device] = p]
        /\ UNCHANGED <<device, confirm, exchanged, atStart, told>>
    BY <1>2, <2>1 DEF MarkDevice, deviceGhosts
  <2>4. DeviceTypeOK'
    BY <1>t, <2>2, <2>3 DEF DeviceInv, DeviceTypeOK
  <2>5. ASSUME NEW r \in Poll PROVE PollTrue(r)'
    BY <1>t, <2>2, <2>3, <2>5 DEF DeviceInv, PollTrue
  <2> QED BY <2>3, <2>4, <2>5 DEF DeviceInv, DeviceTrue, ConfirmTrue
<1>3. CASE IssueToDevice(p)
  <2>1. PICK d \in Device : d = poll[p].device
    BY <1>3 DEF IssueToDevice, DeviceInv, PollTrue
  <2>2. PICK x, r : /\ x = [poll[p] EXCEPT !.at = "done", !.answer = "tokens"]
                    /\ r = [device[d] EXCEPT !.used = TRUE]
    OBVIOUS
  <2>3. device[d] \in DeviceRow
    BY <1>t
  <2>4. /\ x \in PollJob /\ x.device = poll[p].device /\ x.user = poll[p].user
        /\ r \in DeviceRow /\ r.status = device[d].status /\ r.used
        /\ r.authorized = device[d].authorized /\ r.user = device[d].user
    BY <1>t, <2>2, <2>3 DEF PollJob, DeviceRow
  <2>5. /\ poll' = [poll EXCEPT ![p] = x] /\ poll[p].at = "issue"
        /\ device' = [device EXCEPT ![d] = r]
        /\ owner' = [owner EXCEPT ![d] = NoDevice]
        /\ exchanged' = [exchanged EXCEPT ![d] = @ + 1]
        /\ UNCHANGED <<confirm, atStart, told>>
    BY <1>3, <2>1, <2>2 DEF IssueToDevice, PollEnds
  <2>6. DeviceTypeOK'
    BY <1>t, <2>4, <2>5 DEF DeviceInv, DeviceTypeOK
  <2>7. ASSUME NEW s \in Poll PROVE PollTrue(s)'
    BY <1>t, <2>1, <2>4, <2>5, <2>7 DEF DeviceInv, PollTrue
  <2>8. device[d].status # "unborn"
    BY <2>1, <2>5 DEF DeviceInv, PollTrue
  <2>9. ASSUME NEW e \in Device PROVE DeviceTrue(e)'
    BY <1>t, <2>4, <2>5, <2>8, <2>9 DEF DeviceInv, DeviceTrue
  <2> QED BY <2>5, <2>6, <2>7, <2>9 DEF DeviceInv, ConfirmTrue
<1>4. CASE RejectPoll(p)
  <2>1. PICK x : x = [poll[p] EXCEPT !.at = "done", !.answer = "error"]
    OBVIOUS
  <2>2. x \in PollJob /\ x.at = "done" /\ x.answer = "error"
    BY <1>t, <2>1 DEF PollJob
  <2>3. /\ poll' = [poll EXCEPT ![p] = x]
        /\ owner' = [d \in Device |-> IF owner[d] = p THEN NoDevice ELSE owner[d]]
        /\ UNCHANGED <<device, confirm, exchanged, atStart, told>>
    BY <1>4, <2>1 DEF RejectPoll, PollEnds, deviceGhosts
  <2>4. DeviceTypeOK'
    BY <1>t, <2>2, <2>3 DEF DeviceInv, DeviceTypeOK
  <2>5. ASSUME NEW r \in Poll PROVE PollTrue(r)'
    BY <1>t, <2>2, <2>3, <2>5 DEF DeviceInv, PollTrue
  <2> QED BY <2>3, <2>4, <2>5 DEF DeviceInv, DeviceTrue, ConfirmTrue
<1> QED BY <1>1, <1>2, <1>3, <1>4

\* So do a new device code, and one that expires.
LEMMA DeviceRowStep ==
    ASSUME DeviceInv, NEW d \in Device, AuthorizeDevice(d) \/ ExpireDevice(d)
    PROVE  DeviceInv'
<1>t. device \in [Device -> DeviceRow] /\ device[d] \in DeviceRow /\ told \in [Device -> SUBSET DeviceUser]
  BY DEF DeviceInv, DeviceTypeOK
<1>1. PICK r \in DeviceRow :
         /\ device' = [device EXCEPT ![d] = r] /\ r.status # "unborn"
         /\ \/ device[d].status = "unborn" /\ ~r.authorized
            \/ /\ device[d].status = "live" /\ r.used = device[d].used
               /\ r.authorized = device[d].authorized /\ r.user = device[d].user
  <2>1. CASE AuthorizeDevice(d)
    <3>1. PICK c \in DeviceClient :
             device' = [device EXCEPT ![d] = [status |-> "live", client |-> c, used |-> FALSE,
                                              authorized |-> FALSE, user |-> NoDevice]]
      BY <2>1 DEF AuthorizeDevice
    <3>2. PICK r : r = [status |-> "live", client |-> c, used |-> FALSE, authorized |-> FALSE,
                        user |-> NoDevice]
      OBVIOUS
    <3>3. r \in DeviceRow /\ r.status # "unborn" /\ ~r.authorized
      BY <3>2 DEF DeviceRow
    <3> QED BY <2>1, <3>1, <3>2, <3>3 DEF AuthorizeDevice
  <2>2. CASE ExpireDevice(d)
    <3>1. PICK r : r = [device[d] EXCEPT !.status = "expired"]
      OBVIOUS
    <3>2. /\ r \in DeviceRow /\ r.status # "unborn" /\ r.used = device[d].used
          /\ r.authorized = device[d].authorized /\ r.user = device[d].user
      BY <1>t, <3>1 DEF DeviceRow
    <3> QED BY <2>2, <3>1, <3>2 DEF ExpireDevice
  <2> QED BY <2>1, <2>2
<1>2. UNCHANGED <<owner, poll, confirm, exchanged, atStart, told>>
  BY DEF AuthorizeDevice, ExpireDevice, deviceGhosts
<1>3. DeviceTypeOK'
  BY <1>t, <1>1, <1>2 DEF DeviceInv, DeviceTypeOK
<1>4. ASSUME NEW e \in Device PROVE DeviceTrue(e)'
  BY <1>t, <1>1, <1>2, <1>4 DEF DeviceInv, DeviceTrue
<1>5. \A e \in Device : told[e] \subseteq told'[e]
                        /\ (device[e].status # "unborn" => device'[e].status # "unborn")
  BY <1>t, <1>1, <1>2
<1>6. \A p \in Poll : PollTrue(p)'
  BY <1>2, <1>5, PollLemma DEF DeviceInv
<1> QED BY <1>2, <1>3, <1>4, <1>6 DEF DeviceInv, ConfirmTrue

\* The invariant of the device flow.
THEOREM DeviceInvariance == DeviceSpec => []DeviceInv
<1>1. DeviceInit => DeviceInv
  <2> SUFFICES ASSUME DeviceInit PROVE DeviceInv
    OBVIOUS
  <2>1. DeviceTypeOK
    BY DEF DeviceInit, DeviceTypeOK, DeviceRow, PollJob, ConfirmJob
  <2> QED BY <2>1 DEF DeviceInit, DeviceInv, DeviceTrue, PollTrue, ConfirmTrue
<1>2. DeviceInv /\ [DeviceNext]_deviceVars => DeviceInv'
  <2>1. DeviceInv /\ UNCHANGED deviceVars => DeviceInv'
    BY DEF deviceVars, deviceGhosts, DeviceInv, DeviceTypeOK, DeviceTrue, PollTrue, ConfirmTrue
  <2> QED BY <2>1, ConfirmStep, PollStep, DeviceRowStep DEF DeviceNext
<1> QED BY <1>1, <1>2, PTL DEF DeviceSpec

\* DeviceCodeFlow::execute answers tokens for a user whose confirmation was answered, and
\* refuses every poll that comes after an answered exchange; overlapping polls it may answer.
THEOREM SpentDevices == DeviceSpec => [](DeviceTypeOK /\ ExchangedDeviceRefused)
<1>1. DeviceInv => DeviceTypeOK /\ ExchangedDeviceRefused
  BY DEF DeviceInv, PollTrue, ExchangedDeviceRefused
<1> QED BY <1>1, DeviceInvariance, PTL


-----------------------------------------------------------------------------
(* PermissionGrant: a ticket is exchanged for one RPT, and an upgrade      *)
(* leaves the RPT that it replaces revoked.                                *)

\* A ticket exchanged for an RPT was consumed by a grant, unless an administrator closed it.
Settled(t) == ticket[t].used /\ (t \notin closed => ticket[t].granted)

TicketTrue(t) ==
    /\ ticket[t].status # "unborn" => ticket[t].access \in Access
    /\ minted[t] <= 1
    /\ minted[t] = 1 => ticket[t].status # "unborn" /\ Settled(t)

\* What a request holds: a ticket that exists, and one that it has consumed alone and
\* exchanged for nothing yet when it is about to issue; an RPT that was not revoked when it
\* came, and is when the upgrade has been answered.
GrantTrue(g) ==
    /\ grant[g].at \in {"deny", "consume"} => grant[g].ticket # Nil
    /\ grant[g].ticket # Nil => ticket[grant[g].ticket].status # "unborn"
    /\ grant[g].at = "issue" /\ grant[g].ticket # Nil =>
          minted[grant[g].ticket] = 0 /\ Settled(grant[g].ticket)
    /\ grant[g].at = "revoke" => grant[g].previous # Nil
    /\ grant[g].previous # Nil =>
          /\ rpt[grant[g].previous].status # "unborn" /\ grant[g].previous \notin deadAtStart[g]
          /\ grant[g].answer = "token" => rpt[grant[g].previous].revoked
    /\ grant[g].at # "done" => grant[g].answer = "none"
    /\ grant[g].at \notin {"new", "done"} => grant[g].party \in Party

OneIssuer ==
    \A g, h \in Grant :
       /\ grant[g].at = "issue" /\ grant[h].at = "issue"
       /\ grant[g].ticket = grant[h].ticket /\ grant[g].ticket # Nil
       => g = h

PermissionInv ==
    /\ PermissionTypeOK
    /\ \A t \in Ticket : TicketTrue(t)
    /\ \A g \in Grant : GrantTrue(g)
    /\ OneIssuer

\* A step that unsettles no ticket and brings back no RPT.
RowsKept ==
    /\ \A t \in Ticket : /\ ticket[t].status # "unborn" => ticket'[t].status # "unborn"
                         /\ Settled(t) => Settled(t)'
    /\ \A r \in Rpt : /\ rpt[r].status # "unborn" => rpt'[r].status # "unborn"
                      /\ rpt[r].status # "unborn" /\ rpt[r].revoked => rpt'[r].revoked

\* What is true of a request holds after a step that leaves its row alone and keeps the
\* permission rows.
LEMMA GrantKept ==
    ASSUME PermissionTypeOK, NEW g \in Grant, GrantTrue(g), RowsKept,
           grant'[g] = grant[g], deadAtStart'[g] = deadAtStart[g],
           grant[g].at = "issue" /\ grant[g].ticket # Nil
             => minted'[grant[g].ticket] = minted[grant[g].ticket]
    PROVE  GrantTrue(g)'
<1>1. /\ grant[g].ticket \in Ticket \cup {Nil} /\ grant[g].previous \in Rpt \cup {Nil}
  BY DEF PermissionTypeOK, GrantJob
<1>2. CASE grant[g].ticket = Nil
  BY <1>1, <1>2 DEF GrantTrue, RowsKept
<1>3. CASE grant[g].ticket # Nil
  BY <1>1, <1>3 DEF GrantTrue, RowsKept
<1> QED BY <1>2, <1>3

\* A step of one request that keeps what the others rely on keeps the invariant.
LEMMA OneGrant ==
    ASSUME PermissionInv, NEW g \in Grant, NEW x \in GrantJob, grant' = [grant EXCEPT ![g] = x],
           PermissionTypeOK', RowsKept, \A t \in Ticket : TicketTrue(t)', GrantTrue(g)',
           \A h \in Grant : h # g => deadAtStart'[h] = deadAtStart[h],
           \A h \in Grant : /\ h # g /\ grant[h].at = "issue" /\ grant[h].ticket # Nil
                            => /\ minted'[grant[h].ticket] = minted[grant[h].ticket]
                               /\ x.at = "issue" => x.ticket # grant[h].ticket
    PROVE  PermissionInv'
<1>1. grant \in [Grant -> GrantJob]
  BY DEF PermissionInv, PermissionTypeOK
<1>2. ASSUME NEW h \in Grant, h # g PROVE GrantTrue(h)'
  <2>1. grant'[h] = grant[h]
    BY <1>1, <1>2
  <2> QED BY <1>2, <2>1, GrantKept DEF PermissionInv
<1>3. OneIssuer'
  BY <1>1 DEF PermissionInv, OneIssuer
<1> QED BY <1>2, <1>3 DEF PermissionInv

\* A request that has been answered holds its previous RPT alone.
LEMMA EndedType ==
    ASSUME PermissionTypeOK, NEW g \in Grant, NEW answer \in {"none", "error", "token"}
    PROVE  [IdleGrant EXCEPT !.at = "done", !.answer = answer, !.previous = grant[g].previous]
             \in GrantJob
<1>1. grant[g].previous \in Rpt \cup {Nil}
  BY DEF PermissionTypeOK, GrantJob
<1> QED BY <1>1 DEF IdleGrant, GrantJob

\* A request that ends, with nothing changed, or with its ticket used up.
LEMMA EndStep ==
    ASSUME PermissionInv, NEW g \in Grant, NEW answer \in {"error", "token"}, GrantEnds(g, answer),
           PermissionTypeOK', RowsKept, \A t \in Ticket : TicketTrue(t)',
           UNCHANGED <<minted, deadAtStart>>,
           answer = "token" /\ grant[g].previous # Nil => rpt'[grant[g].previous].revoked
    PROVE  PermissionInv'
<1>1. PICK x : x = [IdleGrant EXCEPT !.at = "done", !.answer = answer,
                                     !.previous = grant[g].previous]
  OBVIOUS
<1>2. grant' = [grant EXCEPT ![g] = x]
  BY <1>1 DEF GrantEnds
<1>3. x \in GrantJob
  BY <1>1, EndedType DEF PermissionInv
<1>4. /\ x.at = "done" /\ x.answer = answer /\ x.ticket = Nil
      /\ x.previous = grant[g].previous
  BY <1>1 DEF IdleGrant
<1>5. grant'[g] = x /\ grant[g].previous \in Rpt \cup {Nil}
  BY <1>2 DEF PermissionInv, PermissionTypeOK, GrantJob
<1>6. GrantTrue(g)'
  BY <1>4, <1>5 DEF GrantTrue, PermissionInv, RowsKept
<1> QED BY <1>2, <1>3, <1>4, <1>6, OneGrant


\* A request reads its previous RPT, its ticket, or what the party is entitled to.
LEMMA ReadStep ==
    ASSUME PermissionInv, NEW g \in Grant, ReadPrevious(g) \/ ReadTicket(g) \/ Entitlement(g)
    PROVE  PermissionInv'
<1>t. /\ grant \in [Grant -> GrantJob] /\ grant[g] \in GrantJob
      /\ rpt \in [Rpt -> RptRow] /\ ticket \in [Ticket -> TicketRow]
      /\ deadAtStart \in [Grant -> SUBSET Rpt]
  BY DEF PermissionInv, PermissionTypeOK
<1>1. UNCHANGED <<allowed, ticket, rpt, closed, minted>>
  BY DEF ReadPrevious, ReadTicket, Entitlement, permissionGhosts
<1>2. RowsKept /\ \A t \in Ticket : TicketTrue(t)'
  BY <1>1 DEF RowsKept, Settled, TicketTrue, PermissionInv
<1>3. ASSUME NEW x \in GrantJob, grant' = [grant EXCEPT ![g] = x], x.at # "issue" \/ x.ticket = Nil,
             deadAtStart' \in [Grant -> SUBSET Rpt],
             \A h \in Grant : h # g => deadAtStart'[h] = deadAtStart[h], GrantTrue(g)'
      PROVE  PermissionInv'
  <2>1. PermissionTypeOK'
    BY <1>t, <1>1, <1>3 DEF PermissionInv, PermissionTypeOK
  <2> QED BY <1>1, <1>2, <1>3, <2>1, OneGrant
<1>4. CASE ReadPrevious(g)
  <2>1. PICK p, r, x :
           /\ p \in Party
           /\ grant' = [grant EXCEPT ![g] = x]
           /\ \/ x = [IdleGrant EXCEPT !.at = "ticket", !.party = p]
              \/ /\ r \in Rpt /\ rpt[r].status # "unborn" /\ Upgradable(r)
                 /\ x = [IdleGrant EXCEPT !.at = "ticket", !.party = p, !.previous = r,
                                          !.kept = rpt[r].permissions]
              \/ x = [IdleGrant EXCEPT !.at = "done", !.answer = "error"]
    BY <1>4 DEF ReadPrevious
  <2>2. deadAtStart' = [deadAtStart EXCEPT ![g] = {s \in Rpt : rpt[s].revoked}]
    BY <1>4 DEF ReadPrevious
  <2>3. \A s \in Rpt : rpt[s].permissions \subseteq Access
    BY <1>t DEF RptRow
  <2>4. /\ x \in GrantJob /\ x.at \in {"ticket", "done"} /\ x.ticket = Nil
        /\ x.at = "ticket" => x.party = p
        /\ x.previous # Nil => /\ x.previous \in Rpt /\ rpt[x.previous].status # "unborn"
                               /\ ~rpt[x.previous].revoked
        /\ x.at # "done" => x.answer = "none"
        /\ x.answer # "token"
    BY <2>1, <2>3 DEF IdleGrant, GrantJob, Upgradable
  <2>5. /\ deadAtStart' \in [Grant -> SUBSET Rpt]
        /\ \A h \in Grant : h # g => deadAtStart'[h] = deadAtStart[h]
        /\ deadAtStart'[g] = {s \in Rpt : rpt[s].revoked}
    BY <1>t, <2>2
  <2>6. grant'[g] = x
    BY <1>t, <2>1
  <2>7. GrantTrue(g)'
    BY <1>1, <2>1, <2>4, <2>5, <2>6 DEF GrantTrue
  <2> QED BY <1>3, <2>1, <2>4, <2>5, <2>7
<1>5. CASE ReadTicket(g)
  <2>0. grant[g].at = "ticket" /\ UNCHANGED deadAtStart
    BY <1>5 DEF ReadTicket, permissionGhosts
  <2>1. CASE GrantEnds(g, "error")
    <3>1. PermissionTypeOK'
      <4>1. PICK x : x = [IdleGrant EXCEPT !.at = "done", !.answer = "error",
                                           !.previous = grant[g].previous]
        OBVIOUS
      <4>2. x \in GrantJob
        BY <4>1, EndedType DEF PermissionInv
      <4>3. grant' = [grant EXCEPT ![g] = x]
        BY <2>1, <4>1 DEF GrantEnds
      <4> QED BY <1>1, <2>0, <4>2, <4>3 DEF PermissionInv, PermissionTypeOK
    <3> QED BY <1>1, <1>2, <2>0, <2>1, <3>1, EndStep
  <2>2. ASSUME NEW t \in Ticket, ticket[t].status # "unborn",
               grant' = [grant EXCEPT ![g].at = "evaluate", ![g].ticket = t,
                                      ![g].requested = {ticket[t].access}]
        PROVE  PermissionInv'
    <3>1. PICK x : x = [grant[g] EXCEPT !.at = "evaluate", !.ticket = t,
                                        !.requested = {ticket[t].access}]
      OBVIOUS
    <3>2. ticket[t].access \in Access
      BY <2>2 DEF PermissionInv, TicketTrue
    <3>3. /\ x \in GrantJob /\ x.at = "evaluate" /\ x.ticket = t /\ x.previous = grant[g].previous
          /\ x.answer = grant[g].answer /\ x.party = grant[g].party
      BY <1>t, <3>1, <3>2 DEF GrantJob
    <3>4. grant' = [grant EXCEPT ![g] = x] /\ grant'[g] = x
      BY <1>t, <2>2, <3>1
    <3>5. GrantTrue(g)'
      BY <1>1, <2>0, <2>2, <3>3, <3>4 DEF GrantTrue, PermissionInv
    <3> QED BY <1>3, <1>t, <2>0, <3>3, <3>4, <3>5
  <2>3. ASSUME NEW asked \in SUBSET Access,
               grant' = [grant EXCEPT ![g].at = "evaluate", ![g].requested = asked]
        PROVE  PermissionInv'
    <3>1. PICK x : x = [grant[g] EXCEPT !.at = "evaluate", !.requested = asked]
      OBVIOUS
    <3>3. /\ x \in GrantJob /\ x.at = "evaluate" /\ x.ticket = grant[g].ticket
          /\ x.previous = grant[g].previous
          /\ x.answer = grant[g].answer /\ x.party = grant[g].party
      BY <1>t, <3>1 DEF GrantJob
    <3>4. grant' = [grant EXCEPT ![g] = x] /\ grant'[g] = x
      BY <1>t, <2>3, <3>1
    <3>5. GrantTrue(g)'
      BY <1>1, <2>0, <3>3, <3>4 DEF GrantTrue, PermissionInv
    <3> QED BY <1>3, <1>t, <2>0, <3>3, <3>4, <3>5
  <2> QED BY <1>5, <2>1, <2>2, <2>3 DEF ReadTicket
<1>6. CASE Entitlement(g)
  <2>0. grant[g].at = "new" /\ UNCHANGED deadAtStart
    BY <1>6 DEF Entitlement, permissionGhosts
  <2>1. PICK p \in Party, granted \in SUBSET Access :
           grant' = [grant EXCEPT ![g] =
              IF granted = {} THEN [IdleGrant EXCEPT !.at = "done", !.answer = "error"]
              ELSE [IdleGrant EXCEPT !.at = "issue", !.party = p, !.requested = granted]]
    <3>1. PICK p \in Party :
             LET granted == {a \in Access : <<p, a>> \in allowed} IN
             grant' = [grant EXCEPT ![g] =
                IF granted = {} THEN [IdleGrant EXCEPT !.at = "done", !.answer = "error"]
                ELSE [IdleGrant EXCEPT !.at = "issue", !.party = p, !.requested = granted]]
      BY <1>6 DEF Entitlement
    <3>2. {a \in Access : <<p, a>> \in allowed} \in SUBSET Access
      OBVIOUS
    <3> QED BY <3>1, <3>2
  <2>x. PICK x : x = IF granted = {} THEN [IdleGrant EXCEPT !.at = "done", !.answer = "error"]
                     ELSE [IdleGrant EXCEPT !.at = "issue", !.party = p, !.requested = granted]
    OBVIOUS
  <2>2. /\ x \in GrantJob /\ x.at \in {"issue", "done"} /\ x.ticket = Nil /\ x.previous = Nil
        /\ x.at # "done" => x.answer = "none" /\ x.party = p
    BY <2>x DEF IdleGrant, GrantJob
  <2>3. grant' = [grant EXCEPT ![g] = x] /\ grant'[g] = x
    BY <1>t, <2>1, <2>x
  <2>4. GrantTrue(g)'
    BY <2>2, <2>3 DEF GrantTrue
  <2> QED BY <1>3, <1>t, <2>0, <2>2, <2>3, <2>4
<1> QED BY <1>4, <1>5, <1>6


\* A ticket that is used up keeps its row's type; one found active was exchanged for nothing.
LEMMA ConsumedType ==
    ASSUME PermissionTypeOK, NEW t \in Ticket, NEW decision \in BOOLEAN, Consumed(t, decision)
    PROVE  /\ ticket' \in [Ticket -> TicketRow]
           /\ \A u \in Ticket : u # t => ticket'[u] = ticket[u]
           /\ ticket'[t].status = ticket[t].status /\ ticket'[t].access = ticket[t].access
           /\ ticket'[t].used /\ ticket'[t].granted = decision
<1>1. ticket \in [Ticket -> TicketRow] /\ ticket[t] \in TicketRow
  BY DEF PermissionTypeOK
<1>2. PICK r : r = [ticket[t] EXCEPT !.used = TRUE, !.granted = decision]
  OBVIOUS
<1>3. /\ r \in TicketRow /\ r.status = ticket[t].status /\ r.access = ticket[t].access
      /\ r.used /\ r.granted = decision
  BY <1>1, <1>2 DEF TicketRow
<1>4. ticket' = [ticket EXCEPT ![t] = r]
  BY <1>2 DEF Consumed
<1> QED BY <1>1, <1>3, <1>4

\* Consuming an active ticket unsettles none.
LEMMA ActiveConsumed ==
    ASSUME PermissionInv, NEW t \in Ticket, NEW decision \in BOOLEAN, TicketActive(t),
           Consumed(t, decision), UNCHANGED <<rpt, closed, minted>>
    PROVE  /\ RowsKept /\ \A u \in Ticket : TicketTrue(u)'
           /\ minted[t] = 0
<1>1. minted[t] = 0
  <2>1. minted[t] \in Nat /\ minted[t] <= 1 /\ (minted[t] = 1 => Settled(t))
    BY DEF PermissionInv, PermissionTypeOK, TicketTrue
  <2>2. ~Settled(t)
    BY DEF TicketActive, Settled
  <2> QED BY <2>1, <2>2
<1>2. RowsKept
  <2>1. ASSUME NEW u \in Ticket
        PROVE  /\ ticket[u].status # "unborn" => ticket'[u].status # "unborn"
               /\ Settled(u) => Settled(u)'
    BY ConsumedType DEF PermissionInv, Settled, TicketActive
  <2> QED BY <2>1 DEF RowsKept
<1>3. ASSUME NEW u \in Ticket PROVE TicketTrue(u)'
  <2>1. CASE u = t
    BY <1>1, <2>1, ConsumedType DEF PermissionInv, TicketTrue
  <2>2. CASE u # t
    BY <2>2, ConsumedType DEF PermissionInv, TicketTrue, Settled
  <2> QED BY <2>1, <2>2
<1> QED BY <1>1, <1>2, <1>3

\* Requests keep their type when one ends, or goes on.
LEMMA GrantEndsType ==
    ASSUME PermissionTypeOK, NEW g \in Grant, NEW answer \in {"error", "token"}, GrantEnds(g, answer)
    PROVE  grant' \in [Grant -> GrantJob]
<1>1. PICK x : x = [IdleGrant EXCEPT !.at = "done", !.answer = answer,
                                     !.previous = grant[g].previous]
  OBVIOUS
<1>2. x \in GrantJob
  BY <1>1, EndedType
<1>3. grant' = [grant EXCEPT ![g] = x]
  BY <1>1 DEF GrantEnds
<1> QED BY <1>2, <1>3 DEF PermissionTypeOK

\* A request that goes on keeps all of its row but its place.
LEMMA GrantGoesType ==
    ASSUME PermissionTypeOK, NEW g \in Grant,
           NEW step \in {"deny", "consume", "issue", "revoke"}, GrantGoes(g, step),
           NEW x, x = [grant[g] EXCEPT !.at = step]
    PROVE  /\ x \in GrantJob /\ grant' = [grant EXCEPT ![g] = x] /\ grant'[g] = x
           /\ x.at = step /\ x.party = grant[g].party /\ x.previous = grant[g].previous
           /\ x.ticket = grant[g].ticket /\ x.answer = grant[g].answer
<1>1. grant \in [Grant -> GrantJob] /\ grant[g] \in GrantJob
  BY DEF PermissionTypeOK
<1>2. grant' = [grant EXCEPT ![g] = x]
  BY DEF GrantGoes
<1>3. /\ x \in GrantJob
      /\ x.at = step /\ x.party = grant[g].party /\ x.previous = grant[g].previous
      /\ x.ticket = grant[g].ticket /\ x.answer = grant[g].answer
  BY <1>1 DEF GrantJob
<1> QED BY <1>1, <1>2, <1>3

\* A request evaluates what is asked, uses its ticket up, or fails.
LEMMA DecideStep ==
    ASSUME PermissionInv, NEW g \in Grant,
           Evaluate(g) \/ ConsumeDenied(g) \/ ConsumeGranted(g) \/ GrantFails(g)
    PROVE  PermissionInv'
<1>t. /\ PermissionTypeOK /\ grant[g].ticket \in Ticket \cup {Nil} /\ GrantTrue(g)
  BY DEF PermissionInv, PermissionTypeOK, GrantJob
<1>1. UNCHANGED <<allowed, rpt, closed, minted, deadAtStart>>
  BY DEF Evaluate, ConsumeDenied, ConsumeGranted, GrantFails, permissionGhosts
<1>2. ASSUME UNCHANGED ticket
      PROVE  RowsKept /\ \A t \in Ticket : TicketTrue(t)'
  BY <1>1, <1>2 DEF RowsKept, Settled, TicketTrue, PermissionInv
<1>3. ASSUME UNCHANGED ticket, GrantEnds(g, "error") PROVE PermissionInv'
  <2>1. PermissionTypeOK'
    BY <1>t, <1>1, <1>3, GrantEndsType DEF PermissionTypeOK
  <2> QED BY <1>1, <1>2, <1>3, <2>1, EndStep
<1>4. ASSUME NEW step \in {"deny", "consume", "issue"}, UNCHANGED ticket, GrantGoes(g, step),
             grant[g].at = "evaluate", step \in {"deny", "consume"} <=> grant[g].ticket # Nil
      PROVE  PermissionInv'
  <2>1. PICK x : x = [grant[g] EXCEPT !.at = step]
    OBVIOUS
  <2>2. /\ x \in GrantJob /\ grant' = [grant EXCEPT ![g] = x] /\ grant'[g] = x
        /\ x.at = step /\ x.party = grant[g].party /\ x.previous = grant[g].previous
        /\ x.ticket = grant[g].ticket /\ x.answer = grant[g].answer
    BY <1>t, <1>4, <2>1, GrantGoesType
  <2>3. PermissionTypeOK'
    BY <1>t, <1>1, <1>4, <2>2 DEF PermissionTypeOK
  <2>4. GrantTrue(g)'
    BY <1>t, <1>1, <1>4, <2>2 DEF GrantTrue
  <2> QED BY <1>1, <1>2, <1>4, <2>2, <2>3, <2>4, OneGrant
<1>5. CASE Evaluate(g)
  BY <1>5, <1>3, <1>4 DEF Evaluate
<1>6. CASE ConsumeDenied(g)
  <2>1. PICK t \in Ticket : t = grant[g].ticket
    BY <1>6, <1>t DEF ConsumeDenied, GrantTrue
  <2>2. ASSUME TicketActive(t), Consumed(t, FALSE), GrantEnds(g, "error") PROVE PermissionInv'
    <3>1. PermissionTypeOK'
      BY <1>t, <1>1, <2>2, ConsumedType, GrantEndsType DEF PermissionTypeOK
    <3> QED BY <1>1, <2>2, <3>1, ActiveConsumed, EndStep
  <2> QED BY <1>6, <1>3, <2>1, <2>2 DEF ConsumeDenied
<1>7. CASE ConsumeGranted(g)
  <2>1. PICK t \in Ticket : t = grant[g].ticket
    BY <1>7, <1>t DEF ConsumeGranted, GrantTrue
  <2>2. ASSUME TicketActive(t), Consumed(t, TRUE), GrantGoes(g, "issue"), grant[g].at = "consume"
        PROVE  PermissionInv'
    <3>1. PICK x : x = [grant[g] EXCEPT !.at = "issue"]
      OBVIOUS
    <3>2. /\ x \in GrantJob /\ grant' = [grant EXCEPT ![g] = x] /\ grant'[g] = x
          /\ x.at = "issue" /\ x.party = grant[g].party /\ x.previous = grant[g].previous
          /\ x.ticket = grant[g].ticket /\ x.answer = grant[g].answer
      BY <1>t, <2>2, <3>1, GrantGoesType
    <3>3. /\ ticket' \in [Ticket -> TicketRow] /\ Settled(t)'
          /\ ticket'[t].status = ticket[t].status
      BY <1>t, <2>2, ConsumedType DEF Settled
    <3>4. PermissionTypeOK'
      BY <1>t, <1>1, <3>2, <3>3 DEF PermissionTypeOK
    <3>5. RowsKept /\ minted[t] = 0 /\ \A u \in Ticket : TicketTrue(u)'
      BY <1>1, <2>2, ActiveConsumed
    <3>6. GrantTrue(g)'
      BY <1>t, <1>1, <2>1, <2>2, <3>2, <3>3, <3>5 DEF GrantTrue
    <3>7. ASSUME NEW h \in Grant, grant[h].at = "issue", grant[h].ticket = t PROVE FALSE
      BY <2>1, <2>2, <3>7, PermissionAssumption DEF PermissionInv, GrantTrue, Settled, TicketActive
    <3> QED BY <1>1, <2>1, <3>2, <3>4, <3>5, <3>6, <3>7, OneGrant
  <2> QED BY <1>7, <1>3, <2>1, <2>2 DEF ConsumeGranted
<1>8. CASE GrantFails(g)
  BY <1>8, <1>3 DEF GrantFails
<1> QED BY <1>5, <1>6, <1>7, <1>8

\* A request issues an RPT, then revokes the one that it replaces.
LEMMA IssueStep ==
    ASSUME PermissionInv, NEW g \in Grant, IssueRpt(g) \/ RevokePrevious(g)
    PROVE  PermissionInv'
<1>t. /\ PermissionTypeOK /\ grant[g] \in GrantJob /\ GrantTrue(g)
      /\ rpt \in [Rpt -> RptRow] /\ minted \in [Ticket -> Nat]
      /\ grant[g].ticket \in Ticket \cup {Nil} /\ grant[g].previous \in Rpt \cup {Nil}
      /\ grant \in [Grant -> GrantJob]
  BY DEF PermissionInv, PermissionTypeOK, GrantJob
<1>1. CASE IssueRpt(g)
  <2>1. PICK r, x :
           /\ r \in Rpt /\ rpt[r].status = "unborn"
           /\ x = [status |-> "live", revoked |-> FALSE,
                   permissions |-> grant[g].requested \cup grant[g].kept,
                   party |-> grant[g].party]
           /\ rpt' = [rpt EXCEPT ![r] = x]
    BY <1>1 DEF IssueRpt
  <2>2. x \in RptRow /\ x.status = "live"
    <3>1. /\ grant[g].requested \subseteq Access /\ grant[g].kept \subseteq Access
          /\ grant[g].party \in Party \cup {Nil}
      BY <1>t DEF GrantJob
    <3> QED BY <2>1, <3>1 DEF RptRow
  <2>3. /\ UNCHANGED <<allowed, ticket, closed, deadAtStart>> /\ grant[g].at = "issue"
        /\ minted' = [t \in Ticket |-> minted[t] + (IF t = grant[g].ticket THEN 1 ELSE 0)]
    BY <1>1 DEF IssueRpt
  <2>4. /\ minted' \in [Ticket -> Nat]
        /\ \A t \in Ticket : /\ t # grant[g].ticket => minted'[t] = minted[t]
                             /\ t = grant[g].ticket => minted'[t] = minted[t] + 1
    BY <1>t, <2>3
  <2>5. RowsKept
    BY <1>t, <2>1, <2>2, <2>3 DEF RowsKept, Settled
  <2>6. ASSUME NEW t \in Ticket PROVE TicketTrue(t)'
    <3>1. CASE t = grant[g].ticket
      <4>1. /\ minted[t] = 0 /\ Settled(t) /\ ticket[t].status # "unborn"
            /\ ticket[t].status # "unborn" => ticket[t].access \in Access
        BY <1>t, <2>3, <3>1, PermissionAssumption DEF GrantTrue, PermissionInv, TicketTrue
      <4>2. minted'[t] = 1
        BY <2>4, <3>1, <4>1
      <4> QED BY <2>3, <4>1, <4>2 DEF TicketTrue, Settled
    <3>2. CASE t # grant[g].ticket
      BY <2>3, <2>4, <3>2 DEF PermissionInv, TicketTrue, Settled
    <3> QED BY <3>1, <3>2
  <2>7. \A h \in Grant : h # g /\ grant[h].at = "issue" /\ grant[h].ticket # Nil
                           => minted'[grant[h].ticket] = minted[grant[h].ticket]
    <3>1. ASSUME NEW h \in Grant, h # g, grant[h].at = "issue", grant[h].ticket # Nil
          PROVE  grant[h].ticket \in Ticket /\ grant[h].ticket # grant[g].ticket
      <4>1. grant[h].ticket \in Ticket \cup {Nil}
        BY <1>t DEF GrantJob
      <4> QED BY <2>3, <3>1, <4>1 DEF PermissionInv, OneIssuer
    <3> QED BY <2>4, <3>1
  <2>8. CASE grant[g].previous = Nil /\ GrantEnds(g, "token")
    <3>1. PICK y : y = [IdleGrant EXCEPT !.at = "done", !.answer = "token",
                                         !.previous = grant[g].previous]
      OBVIOUS
    <3>2. y \in GrantJob
      BY <1>t, <3>1, EndedType
    <3>3. /\ y.at = "done" /\ y.ticket = Nil /\ y.previous = Nil
      BY <2>8, <3>1 DEF IdleGrant
    <3>4. grant' = [grant EXCEPT ![g] = y] /\ grant'[g] = y
      BY <1>t, <2>8, <3>1 DEF GrantEnds
    <3>5. PermissionTypeOK'
      BY <1>t, <2>1, <2>2, <2>3, <2>4, <3>2, <3>4 DEF PermissionTypeOK
    <3>6. GrantTrue(g)'
      BY <3>3, <3>4 DEF GrantTrue
    <3> QED BY <2>3, <2>5, <2>6, <2>7, <3>2, <3>3, <3>4, <3>5, <3>6, OneGrant
  <2>9. CASE grant[g].previous # Nil /\ GrantGoes(g, "revoke")
    <3>1. PICK y : y = [grant[g] EXCEPT !.at = "revoke"]
      OBVIOUS
    <3>2. /\ y \in GrantJob /\ grant' = [grant EXCEPT ![g] = y] /\ grant'[g] = y
          /\ y.at = "revoke" /\ y.party = grant[g].party /\ y.previous = grant[g].previous
          /\ y.ticket = grant[g].ticket /\ y.answer = grant[g].answer
      BY <1>t, <2>9, <3>1, GrantGoesType
    <3>3. PermissionTypeOK'
      BY <1>t, <2>1, <2>2, <2>3, <2>4, <3>2 DEF PermissionTypeOK
    <3>4. rpt'[grant[g].previous].status # "unborn"
      BY <1>t, <2>5, <2>9 DEF GrantTrue, RowsKept
    <3>5. GrantTrue(g)'
      BY <1>t, <2>3, <2>9, <3>2, <3>4 DEF GrantTrue
    <3> QED BY <2>3, <2>5, <2>6, <2>7, <3>2, <3>3, <3>5, OneGrant
  <2> QED BY <1>1, <2>8, <2>9 DEF IssueRpt
<1>2. CASE RevokePrevious(g)
  <2>1. PICK r \in Rpt : r = grant[g].previous
    BY <1>t, <1>2 DEF RevokePrevious, GrantTrue
  <2>2. PICK x : x = [rpt[r] EXCEPT !.revoked = TRUE]
    OBVIOUS
  <2>3. rpt[r] \in RptRow
    BY <1>t
  <2>4. x \in RptRow /\ x.status = rpt[r].status /\ x.revoked
    BY <2>2, <2>3 DEF RptRow
  <2>5. /\ rpt' = [rpt EXCEPT ![r] = x] /\ GrantEnds(g, "token")
        /\ UNCHANGED <<allowed, ticket, closed, minted, deadAtStart>>
    BY <1>2, <2>1, <2>2 DEF RevokePrevious, ReplacedRevoked, permissionGhosts
  <2>6. RowsKept /\ \A t \in Ticket : TicketTrue(t)'
    BY <1>t, <2>4, <2>5 DEF RowsKept, Settled, TicketTrue, PermissionInv
  <2>7. PermissionTypeOK'
    BY <1>t, <2>4, <2>5, GrantEndsType DEF PermissionTypeOK
  <2>8. rpt'[grant[g].previous].revoked
    BY <1>t, <2>1, <2>4, <2>5
  <2> QED BY <2>5, <2>6, <2>7, <2>8, EndStep
<1> QED BY <1>1, <1>2


\* The rest of the system: policies, new tickets, what an administrator closes, revokes, and
\* what expires.
LEMMA PermissionRestStep ==
    ASSUME PermissionInv,
           \/ \E p \in Party, a \in Access : ChangePolicies(p, a)
           \/ \E t \in Ticket : CreateTicket(t) \/ CloseTicket(t) \/ ExpireTicket(t)
           \/ \E r \in Rpt : RevokeRpt(r) \/ ExpireRpt(r)
    PROVE  PermissionInv'
<1>t. /\ PermissionTypeOK /\ rpt \in [Rpt -> RptRow] /\ ticket \in [Ticket -> TicketRow]
  BY DEF PermissionInv, PermissionTypeOK
<1>1. UNCHANGED <<grant, minted, deadAtStart>>
  BY DEF ChangePolicies, CreateTicket, CloseTicket, ExpireTicket, RevokeRpt, ExpireRpt,
         permissionGhosts
<1>2. ASSUME PermissionTypeOK', RowsKept, \A t \in Ticket : TicketTrue(t)' PROVE PermissionInv'
  BY <1>1, <1>2, GrantKept DEF PermissionInv, OneIssuer
<1>3. ASSUME NEW p \in Party, NEW a \in Access, ChangePolicies(p, a) PROVE PermissionInv'
  <2>1. UNCHANGED <<ticket, rpt, closed>> /\ allowed' \subseteq Party \X Access
    BY <1>t, <1>3 DEF ChangePolicies, permissionGhosts, PermissionTypeOK
  <2>2. PermissionTypeOK'
    BY <1>t, <1>1, <2>1 DEF PermissionTypeOK
  <2> QED BY <1>1, <1>2, <2>1, <2>2 DEF RowsKept, Settled, TicketTrue, PermissionInv
<1>4. ASSUME NEW t \in Ticket, CloseTicket(t) PROVE PermissionInv'
  <2>1. /\ Consumed(t, FALSE) /\ closed' = closed \cup {t} /\ UNCHANGED <<allowed, rpt>>
    BY <1>4 DEF CloseTicket
  <2>2. PermissionTypeOK'
    BY <1>t, <1>1, <2>1, ConsumedType DEF PermissionTypeOK
  <2>3. ASSUME NEW u \in Ticket
        PROVE  /\ ticket[u].status # "unborn" => ticket'[u].status # "unborn"
               /\ Settled(u) => Settled(u)'
               /\ TicketTrue(u)'
    <3>0. /\ TicketTrue(u) /\ minted'[u] = minted[u] /\ closed \subseteq closed'
          /\ ticket'[u].status = ticket[u].status /\ ticket'[u].access = ticket[u].access
      BY <1>t, <1>1, <2>1, ConsumedType DEF PermissionInv
    <3>1. CASE u = t
      <4>1. ticket'[u].used /\ u \in closed'
        BY <1>t, <2>1, <3>1, ConsumedType
      <4> QED BY <3>0, <4>1 DEF Settled, TicketTrue
    <3>2. CASE u # t
      <4>1. ticket'[u] = ticket[u] /\ (u \in closed' <=> u \in closed)
        BY <1>t, <2>1, <3>2, ConsumedType
      <4> QED BY <3>0, <4>1 DEF Settled, TicketTrue
    <3> QED BY <3>1, <3>2
  <2> QED BY <1>2, <2>1, <2>2, <2>3 DEF RowsKept
<1>5. ASSUME NEW t \in Ticket, CreateTicket(t) \/ ExpireTicket(t) PROVE PermissionInv'
  <2>1. PICK r \in TicketRow :
           /\ ticket' = [ticket EXCEPT ![t] = r] /\ r.status # "unborn" /\ r.access \in Access
           /\ \/ ticket[t].status = "unborn"
              \/ r.used = ticket[t].used /\ r.granted = ticket[t].granted
    <3>1. CASE CreateTicket(t)
      <4>1. PICK a, p, r :
               /\ a \in Access /\ p \in Party \cup {Nil}
               /\ r = [status |-> "live", access |-> a, used |-> FALSE, granted |-> FALSE,
                       requester |-> p]
               /\ ticket' = [ticket EXCEPT ![t] = r]
        BY <3>1 DEF CreateTicket
      <4>2. r \in TicketRow /\ r.status # "unborn" /\ r.access \in Access
        BY <4>1 DEF TicketRow
      <4> QED BY <3>1, <4>1, <4>2 DEF CreateTicket
    <3>2. CASE ExpireTicket(t)
      <4>1. PICK r : r = [ticket[t] EXCEPT !.status = "expired"]
        OBVIOUS
      <4>2. ticket[t] \in TicketRow
        BY <1>t
      <4>3. /\ r \in TicketRow /\ r.status # "unborn" /\ r.access = ticket[t].access
            /\ r.used = ticket[t].used /\ r.granted = ticket[t].granted
        BY <4>1, <4>2 DEF TicketRow
      <4>4. ticket[t].access \in Access
        BY <3>2 DEF ExpireTicket, PermissionInv, TicketTrue
      <4> QED BY <3>2, <4>1, <4>3, <4>4 DEF ExpireTicket
    <3> QED BY <1>5, <3>1, <3>2
  <2>2. UNCHANGED <<allowed, rpt, closed>>
    BY <1>5 DEF CreateTicket, ExpireTicket, permissionGhosts
  <2>3. PermissionTypeOK'
    BY <1>t, <1>1, <2>1, <2>2 DEF PermissionTypeOK
  <2>4. ticket[t].status = "unborn" => minted[t] = 0
    <3>1. minted[t] \in Nat /\ TicketTrue(t)
      BY DEF PermissionInv, PermissionTypeOK
    <3> QED BY <3>1 DEF TicketTrue
  <2>5. \A u \in Ticket : ticket[u].status = "unborn" => \A h \in Grant : grant[h].ticket # u
    BY PermissionAssumption DEF PermissionInv, GrantTrue
  <2>6. ASSUME NEW u \in Ticket PROVE TicketTrue(u)'
    BY <1>t, <1>1, <2>1, <2>2, <2>4, <2>6 DEF TicketTrue, Settled, PermissionInv
  <2>7. ASSUME NEW h \in Grant PROVE GrantTrue(h)'
    <3>1. grant[h].ticket \in Ticket \cup {Nil} /\ GrantTrue(h)
      BY DEF PermissionInv, PermissionTypeOK, GrantJob
    <3>2. grant[h].ticket # Nil => /\ ticket'[grant[h].ticket].status # "unborn"
                                   /\ Settled(grant[h].ticket) => Settled(grant[h].ticket)'
      BY <1>t, <1>1, <2>1, <2>2, <2>5, <3>1 DEF GrantTrue, Settled
    <3> QED BY <1>1, <2>2, <3>1, <3>2 DEF GrantTrue
  <2> QED BY <1>1, <2>3, <2>6, <2>7 DEF PermissionInv, OneIssuer
<1>6. ASSUME NEW r \in Rpt, RevokeRpt(r) \/ ExpireRpt(r) PROVE PermissionInv'
  <2>1. PICK x, y : /\ x = [rpt[r] EXCEPT !.revoked = TRUE]
                    /\ y = [rpt[r] EXCEPT !.status = "expired"]
    OBVIOUS
  <2>2. rpt[r] \in RptRow
    BY <1>t
  <2>3. /\ x \in RptRow /\ x.status = rpt[r].status /\ x.revoked
        /\ y \in RptRow /\ y.status # "unborn" /\ y.revoked = rpt[r].revoked
    BY <2>1, <2>2 DEF RptRow
  <2>4. /\ rpt' = [rpt EXCEPT ![r] = x] \/ rpt' = [rpt EXCEPT ![r] = y]
        /\ UNCHANGED <<allowed, ticket, closed>>
    BY <1>6, <2>1 DEF RevokeRpt, ExpireRpt, permissionGhosts
  <2>5. PermissionTypeOK'
    BY <1>t, <1>1, <2>3, <2>4 DEF PermissionTypeOK
  <2>6. RowsKept /\ \A t \in Ticket : TicketTrue(t)'
    BY <1>t, <1>1, <2>3, <2>4 DEF RowsKept, Settled, TicketTrue, PermissionInv
  <2> QED BY <1>2, <2>5, <2>6
<1> QED BY <1>3, <1>4, <1>5, <1>6

\* The invariant of tickets and RPTs.
THEOREM PermissionInvariance == PermissionSpec => []PermissionInv
<1>1. PermissionInit => PermissionInv
  <2> SUFFICES ASSUME PermissionInit PROVE PermissionInv
    OBVIOUS
  <2>1. IdleGrant \in GrantJob /\ IdleGrant.at = "new" /\ IdleGrant.ticket = Nil
        /\ IdleGrant.previous = Nil /\ IdleGrant.answer = "none"
    BY DEF IdleGrant, GrantJob
  <2>2. PermissionTypeOK
    BY <2>1 DEF PermissionInit, PermissionTypeOK, TicketRow, RptRow
  <2> QED BY <2>1, <2>2 DEF PermissionInit, PermissionInv, TicketTrue, GrantTrue, OneIssuer
<1>2. PermissionInv /\ [PermissionNext]_permissionVars => PermissionInv'
  <2>1. PermissionInv /\ UNCHANGED permissionVars => PermissionInv'
    <3> SUFFICES ASSUME PermissionInv, UNCHANGED permissionVars PROVE PermissionInv'
      OBVIOUS
    <3>1. UNCHANGED <<allowed, ticket, rpt, grant, closed, minted, deadAtStart>>
      BY DEF permissionVars, permissionGhosts
    <3> QED BY <3>1 DEF PermissionInv, PermissionTypeOK, TicketTrue, GrantTrue, OneIssuer, Settled
  <2> QED BY <2>1, ReadStep, DecideStep, IssueStep, PermissionRestStep DEF PermissionNext
<1> QED BY <1>1, <1>2, PTL DEF PermissionSpec

\* A ticket is exchanged for one RPT, for none once a denial consumed it, however many
\* requests of uma_ticket_grant found it active.
THEOREM TicketOnce == PermissionSpec => [](PermissionTypeOK /\ TicketWorksOnce)
<1>1. PermissionInv => PermissionTypeOK /\ TicketWorksOnce
  BY DEF PermissionInv, TicketTrue, Settled, TicketWorksOnce
<1> QED BY <1>1, PermissionInvariance, PTL

\* An answered upgrade leaves the RPT it replaced revoked, and took none that was revoked.
THEOREM UpgradesReplace == PermissionSpec => []UpgradeReplaces
<1>1. PermissionInv => UpgradeReplaces
  BY DEF PermissionInv, GrantTrue, UpgradeReplaces
<1> QED BY <1>1, PermissionInvariance, PTL
=============================================================================
