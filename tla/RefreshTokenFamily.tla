------------------------- MODULE RefreshTokenFamily -------------------------
(***************************************************************************)
(* Refresh-token rotation, replay detection and every statement that       *)
(* revokes or deletes rows of the `sessions` table.                        *)
(*                                                                         *)
(* Each HTTP request is handled by a stateless instance over a PostgreSQL  *)
(* connection of its own (READ COMMITTED).  What matters of the database   *)
(* is modelled statement by statement: committed rows, row locks that are  *)
(* held until the transaction ends, the write set of an open transaction,  *)
(* and the UPDATE / DELETE over many rows, which fixes its candidate rows  *)
(* in a snapshot when the statement starts, waits for the lock of each of  *)
(* them and then tests the row again.  A row inserted after the snapshot   *)
(* is not a candidate.                                                     *)
(*                                                                         *)
(* All rows belong to one user.  A row created by a rotation is named by   *)
(* the request that creates it (the code draws a fresh UUID per request),  *)
(* and a refresh token is named by the row that stores its hash.           *)
(***************************************************************************)
EXTENDS Integers, FiniteSets

CONSTANTS
    Root,          \* rows created by a login: each starts a token family
    Request,       \* HTTP requests; each is handled once
    Client,        \* OAuth clients
    NoSession,     \* previous_session_id IS NULL
    NoFamily,      \* token_family_id IS NULL (such a row has no refresh token)
    Free,          \* a row lock nobody holds
    RootRow,       \* the row of each root
    RefreshLife,   \* now + 7 days, in ticks of the clock
    AccessLife,    \* now + 15 minutes
    IdlePolicies,  \* the idle lifetimes a realm's offline policy may have
    Kinds,         \* the kinds of request of this instance
    MaxClock       \* bound of the clock

Session == Root \cup Request

Row == [parent : Session \cup {NoSession}, family : Root \cup {NoFamily},
        client : Client, offline : BOOLEAN, expires : Nat,
        refreshExpires : Nat, offlineMax : Nat]

\* POST /token with grant_type=refresh_token; POST /revoke with the refresh or
\* the access token; revocation of one session by its owner or by an admin; and
\* the statements over all the rows of a user: logout (online rows), password
\* change (the other online rows), revocation of an application (one client),
\* MFA reset or required password update (every row); and the deletion of
\* expired rows.
AllKinds == {"refresh", "revoke_refresh", "revoke_access", "session",
             "logout", "others", "application", "user", "cleanup"}

\* The kinds that first look up one row by id, by hash or by token.
ByToken == {"revoke_refresh", "revoke_access", "session"}

\* The kinds whose statement is an UPDATE over token_family_id.
ByFamily == {"refresh"} \cup ByToken

ASSUME IdentityAssumption ==
    /\ Root # {}
    /\ Root \cap Request = {}
    /\ NoSession \notin Session
    /\ NoFamily \notin Root
    /\ Free \notin Request

\* The row a login creates: it starts its family or has none, and an offline
\* row never outlives its maximum (the realm policy has idle <= max).
ASSUME RootAssumption ==
    /\ RootRow \in [Root -> Row]
    /\ \A s \in Root :
          /\ RootRow[s].parent = NoSession
          /\ RootRow[s].family \in {s, NoFamily}
          /\ RootRow[s].offline => RootRow[s].refreshExpires <= RootRow[s].offlineMax

ASSUME BoundAssumption ==
    /\ RefreshLife \in Nat /\ AccessLife \in Nat /\ MaxClock \in Nat
    /\ IdlePolicies \subseteq Nat
    /\ Kinds \subseteq AllKinds

VARIABLES
    clock,          \* the time of the database and of the instances
    rows,           \* committed rows
    row,            \* the columns an UPDATE never changes
    revoked,        \* committed rows with revoked = TRUE
    familyRevoked,  \* ... with family_revoked = TRUE
    rotated,        \* ... with rotated_at set
    reused,         \* ... with reused_at set
    lock,           \* holder of each row's lock
    pc,             \* where each request is
    call,           \* its parameters
    todo,           \* candidate rows its statement has not reached yet
    tx,             \* the uncommitted writes of its transaction
    reply           \* what its caller was told

table == <<rows, revoked, familyRevoked, rotated, reused>>
vars == <<clock, table, row, lock, pc, call, todo, tx, reply>>

Call == [kind : AllKinds, token : Session, client : Client]

Places == {"idle", "check", "rotate", "issue", "lookup", "statement", "write", "done"}

AnyRoot == CHOOSE s \in Root : TRUE

NoWrites == [insert |-> {}, rotate |-> {}, reuse |-> {}, revoke |-> {}, delete |-> {}]

TypeOK ==
    /\ clock \in Nat
    /\ rows \subseteq Session
    /\ row \in [Session -> Row]
    /\ revoked \subseteq Session /\ familyRevoked \subseteq Session
    /\ rotated \subseteq Session /\ reused \subseteq Session
    /\ lock \in [Session -> Request \cup {Free}]
    /\ pc \in [Request -> Places]
    /\ call \in [Request -> Call]
    /\ todo \in [Request -> SUBSET Session]
    /\ tx \in [Request -> [insert : SUBSET Session, rotate : SUBSET Session,
                           reuse : SUBSET Session, revoke : SUBSET Session,
                           delete : SUBSET Session]]
    /\ reply \in [Request -> {"none", "issued", "ok", "ignored", "error"}]

-----------------------------------------------------------------------------
(* Reading the table.                                                      *)

Token(r) == call[r].token
Kind(r) == call[r].kind

\* Mutant: find_by_refresh_token_hash without NOT revoked.
PresentableRevoked(s) == s \in rows /\ row[s].family # NoFamily

\* refresh_token_hash = $1 AND NOT revoked
Presentable(s) == s \in rows /\ row[s].family # NoFamily /\ s \notin revoked

\* find_by_access_token_hash: NOT revoked AND expires_at > NOW()
AccessActive(s) == s \in rows /\ s \notin revoked /\ row[s].expires > clock

Unlocked(r, s) == lock[s] \in {Free, r}

\* The expiry test of both phases: the idle expiry or the offline maximum passed.
Expired(s) ==
    \/ row[s].refreshExpires <= clock
    \/ row[s].offline /\ row[s].offlineMax <= clock

\* revoke_family is called when the row has a family, revoke when it has none.
RevokesFamily(r) == Kind(r) \in ByFamily /\ row[Token(r)].family # NoFamily

\* Mutant: the theft response revokes by user instead of by family.
SameUser(s, t) == row[t].family = NoFamily => s = t

\* token_family_id = $1, or id = $1 for a row without a family.
SameGrant(s, t) ==
    IF row[t].family = NoFamily THEN s = t ELSE row[s].family = row[t].family

\* The WHERE clause of the statement of request r.
Matches(r, s) ==
    /\ s \in rows
    /\ CASE Kind(r) \in ByFamily -> SameGrant(s, Token(r))
         [] Kind(r) = "logout" -> ~row[s].offline /\ s \notin revoked
         [] Kind(r) = "others" -> s # Token(r) /\ ~row[s].offline /\ s \notin revoked
         [] Kind(r) = "application" -> row[s].client = call[r].client /\ s \notin revoked
         [] Kind(r) = "user" -> s \notin revoked
         [] Kind(r) = "cleanup" ->
              IF row[s].offline THEN row[s].offlineMax < clock
              ELSE row[s].refreshExpires < clock

-----------------------------------------------------------------------------
(* The end of a request.                                                   *)

\* Mutant: the connection returns to its pool with its transaction open.
KeepLocks(r) == [s \in Session |-> lock[s]]

Release(r) == [s \in Session |-> IF lock[s] = r THEN Free ELSE lock[s]]

\* ROLLBACK, explicit or implied by the loss of the connection, and the answer.
Finish(r, answer) ==
    /\ pc' = [pc EXCEPT ![r] = "done"]
    /\ reply' = [reply EXCEPT ![r] = answer]
    /\ lock' = Release(r)
    /\ todo' = [todo EXCEPT ![r] = {}]
    /\ tx' = [tx EXCEPT ![r] = NoWrites]
    /\ UNCHANGED <<clock, table, row, call>>

Answer(r) == IF Kind(r) # "refresh" THEN "ok"
             ELSE IF tx[r].insert = {} THEN "error" ELSE "issued"

\* COMMIT: the write set becomes visible and every lock is released at once.
Commit(r) ==
    /\ pc[r] = "write" /\ todo[r] = {}
    /\ rows' = (rows \cup tx[r].insert) \ tx[r].delete
    /\ revoked' = (revoked \cup tx[r].revoke) \ tx[r].delete
    /\ familyRevoked' =
          (familyRevoked \cup (IF RevokesFamily(r) THEN tx[r].revoke ELSE {}))
             \ tx[r].delete
    /\ rotated' = (rotated \cup tx[r].rotate) \ tx[r].delete
    /\ reused' = (reused \cup tx[r].reuse) \ tx[r].delete
    /\ lock' = Release(r)
    /\ pc' = [pc EXCEPT ![r] = "done"]
    /\ reply' = [reply EXCEPT ![r] = Answer(r)]
    /\ tx' = [tx EXCEPT ![r] = NoWrites]
    /\ UNCHANGED <<clock, row, call, todo>>

-----------------------------------------------------------------------------
(* A request arrives.  A caller can only present a token that was issued;  *)
(* parameters a kind does not read are fixed.                              *)

WithToken == {"refresh", "others"} \cup ByToken
WithClient == {"refresh", "revoke_refresh", "revoke_access", "application"}

Start(r) ==
    /\ pc[r] = "idle"
    /\ \E c \in Call :
          /\ c.kind \in Kinds
          /\ IF c.kind \in WithToken THEN c.token \in rows ELSE c.token = AnyRoot
          /\ c.kind \in WithClient \/ c.client = RootRow[AnyRoot].client
          /\ call' = [call EXCEPT ![r] = c]
          /\ pc' = [pc EXCEPT ![r] =
                IF c.kind = "refresh" THEN "check"
                ELSE IF c.kind \in ByToken THEN "lookup" ELSE "statement"]
    /\ UNCHANGED <<clock, table, row, lock, todo, tx, reply>>

-----------------------------------------------------------------------------
(* RefreshTokenFlow::execute, phase 1: replay detection in its own         *)
(* transaction.                                                            *)

\* The row is unknown or revoked, in either phase.
RejectToken(r) ==
    /\ pc[r] \in {"check", "rotate"}
    /\ ~Presentable(Token(r))
    /\ Finish(r, "error")

\* Mutant: SELECT without FOR UPDATE.
ReadsUnlocked(r) == Presentable(Token(r))

\* SELECT ... FOR UPDATE returns the row.
Locks(r) == Presentable(Token(r)) /\ Unlocked(r, Token(r))

RejectClient(r) ==
    /\ pc[r] \in {"check", "rotate"}
    /\ Locks(r)
    /\ row[Token(r)].client # call[r].client
    /\ Finish(r, "error")

Checked(r) == Locks(r) /\ row[Token(r)].client = call[r].client

\* An expired token revokes its family; a rotated one is a replay: the row is
\* marked reused and its family revoked.
CheckRevokes(r) ==
    /\ pc[r] = "check" /\ Checked(r)
    /\ Expired(Token(r)) \/ Token(r) \in rotated
    /\ lock' = [lock EXCEPT ![Token(r)] = r]
    /\ tx' = [tx EXCEPT ![r].reuse = IF Expired(Token(r)) THEN {} ELSE {Token(r)}]
    /\ pc' = [pc EXCEPT ![r] = "statement"]
    /\ UNCHANGED <<clock, table, row, call, todo, reply>>

\* No theft: ROLLBACK releases the lock, phase 2 begins.
CheckPasses(r) ==
    /\ pc[r] = "check" /\ Checked(r)
    /\ ~Expired(Token(r)) /\ Token(r) \notin rotated
    /\ pc' = [pc EXCEPT ![r] = "rotate"]
    /\ UNCHANGED <<clock, table, row, lock, call, todo, tx, reply>>

(* Phase 2: rotation.                                                      *)

\* The state is read again under the lock.
MayRotate(r) == Checked(r) /\ Token(r) \notin rotated /\ ~Expired(Token(r))

RotateRejects(r) ==
    /\ pc[r] = "rotate" /\ Checked(r) /\ ~MayRotate(r)
    /\ Finish(r, "error")

RotateLocks(r) ==
    /\ pc[r] = "rotate" /\ MayRotate(r)
    /\ lock' = [lock EXCEPT ![Token(r)] = r]
    /\ pc' = [pc EXCEPT ![r] = "issue"]
    /\ UNCHANGED <<clock, table, row, call, todo, tx, reply>>

\* The user is gone or disabled, its organization or the client is disabled, or
\* signing fails: every change is rolled back.
IssueDenied(r) ==
    /\ pc[r] = "issue"
    /\ Finish(r, "error")

Earlier(a, b) == IF a <= b THEN a ELSE b

\* Mutants: the idle policy alone bounds an offline row; the new row loses the
\* offline flag; the new row takes the id of the old one as its family.
SuccessorUncapped(p, idle) ==
    [row[p] EXCEPT !.parent = p, !.expires = clock + AccessLife,
                   !.refreshExpires = clock + (IF row[p].offline THEN idle ELSE RefreshLife)]

SuccessorOnline(p, idle) ==
    [row[p] EXCEPT !.parent = p, !.expires = clock + AccessLife, !.offline = FALSE,
                   !.refreshExpires = clock + RefreshLife]

SuccessorOfParent(p, idle) ==
    [row[p] EXCEPT !.parent = p, !.family = p, !.expires = clock + AccessLife,
                   !.refreshExpires = clock + RefreshLife]

\* The new row: same family, client and offline maximum; the idle lifetime is
\* the one the realm's policy has at this moment.
Successor(p, idle) ==
    [row[p] EXCEPT !.parent = p,
                   !.expires = clock + AccessLife,
                   !.refreshExpires = IF row[p].offline
                                      THEN Earlier(clock + idle, row[p].offlineMax)
                                      ELSE clock + RefreshLife]

\* Mutant: mark_rotated is forgotten.
IssueUnmarked(r) ==
    /\ pc[r] = "issue"
    /\ \E idle \in IdlePolicies :
          row' = [row EXCEPT ![r] = Successor(Token(r), idle)]
    /\ tx' = [tx EXCEPT ![r].insert = {r}]
    /\ pc' = [pc EXCEPT ![r] = "write"]
    /\ UNCHANGED <<clock, table, lock, call, todo, reply>>

\* INSERT of the new row and mark_rotated of the old one.
Issue(r) ==
    /\ pc[r] = "issue"
    /\ \E idle \in IdlePolicies :
          row' = [row EXCEPT ![r] = Successor(Token(r), idle)]
    /\ tx' = [tx EXCEPT ![r].insert = {r}, ![r].rotate = {Token(r)}]
    /\ pc' = [pc EXCEPT ![r] = "write"]
    /\ UNCHANGED <<clock, table, lock, call, todo, reply>>

-----------------------------------------------------------------------------
(* Revocation of the family of one row.                                    *)

\* The row is not found, or belongs to another client: RFC 7009 answers 200,
\* the session endpoints 404.
LookupNothing(r) ==
    /\ pc[r] = "lookup"
    /\ \/ Kind(r) = "revoke_refresh" /\ ~Presentable(Token(r))
       \/ Kind(r) = "revoke_refresh" /\ Locks(r) /\ row[Token(r)].client # call[r].client
       \/ Kind(r) = "revoke_access"
            /\ ~(AccessActive(Token(r)) /\ row[Token(r)].client = call[r].client)
       \/ Kind(r) = "session" /\ Token(r) \notin rows
    /\ Finish(r, IF Kind(r) = "session" THEN "error" ELSE "ignored")

\* Only the lookup by refresh token takes the row's lock.
LookupFinds(r) ==
    /\ pc[r] = "lookup"
    /\ \/ /\ Kind(r) = "revoke_refresh" /\ Checked(r)
          /\ lock' = [lock EXCEPT ![Token(r)] = r]
       \/ /\ Kind(r) = "revoke_access"
          /\ AccessActive(Token(r)) /\ row[Token(r)].client = call[r].client
          /\ UNCHANGED lock
       \/ /\ Kind(r) = "session" /\ Token(r) \in rows
          /\ UNCHANGED lock
    /\ pc' = [pc EXCEPT ![r] = "statement"]
    /\ UNCHANGED <<clock, table, row, call, todo, tx, reply>>

-----------------------------------------------------------------------------
(* One UPDATE or DELETE over many rows.                                    *)

\* The statement starts: its snapshot fixes the candidate rows.
BeginStatement(r) ==
    /\ pc[r] = "statement"
    /\ todo' = [todo EXCEPT ![r] = {s \in rows : Matches(r, s)}]
    /\ pc' = [pc EXCEPT ![r] = "write"]
    /\ UNCHANGED <<clock, table, row, lock, call, tx, reply>>

\* Mutant: the statement skips rows another transaction has locked.
UpdateUnlockedRow(r) ==
    /\ pc[r] = "write"
    /\ \E s \in todo[r] :
          /\ todo' = [todo EXCEPT ![r] = @ \ {s}]
          /\ lock' = IF Unlocked(r, s) THEN [lock EXCEPT ![s] = r] ELSE lock
          /\ tx' = IF ~Matches(r, s) \/ ~Unlocked(r, s) THEN tx
                   ELSE IF Kind(r) = "cleanup" THEN [tx EXCEPT ![r].delete = @ \cup {s}]
                   ELSE [tx EXCEPT ![r].revoke = @ \cup {s}]
    /\ UNCHANGED <<clock, table, row, pc, call, reply>>

\* A candidate row is locked and its latest version tested again.
UpdateRow(r) ==
    /\ pc[r] = "write"
    /\ \E s \in todo[r] :
          /\ Unlocked(r, s)
          /\ todo' = [todo EXCEPT ![r] = @ \ {s}]
          /\ lock' = [lock EXCEPT ![s] = r]
          /\ tx' = IF ~Matches(r, s) THEN tx
                   ELSE IF Kind(r) = "cleanup" THEN [tx EXCEPT ![r].delete = @ \cup {s}]
                   ELSE [tx EXCEPT ![r].revoke = @ \cup {s}]
    /\ UNCHANGED <<clock, table, row, pc, call, reply>>

-----------------------------------------------------------------------------
(* Failures.                                                               *)

InProgress(r) == pc[r] \notin {"idle", "done"}

\* The instance or its connection is lost: the database rolls back.
Crash(r) == InProgress(r) /\ Finish(r, "none")

\* The rows r waits for: none of them can be locked now.
Waiting(r) == pc[r] = "write" /\ todo[r] # {} /\ \A s \in todo[r] : ~Unlocked(r, s)
Holders(r) == {lock[s] : s \in todo[r]}

\* revoke_handler and logout_handler discard the error of their statement
\* (let _ = ...) and answer as if it had succeeded.
Discards == {"revoke_refresh", "revoke_access", "logout"}

\* The deadlock detector aborts one transaction of a cycle; COMMIT then rolls back.
DeadlockVictim(r) ==
    /\ \E cycle \in SUBSET Request :
          r \in cycle /\ \A q \in cycle : Waiting(q) /\ Holders(q) \subseteq cycle
    /\ Finish(r, IF Kind(r) \in Discards THEN "ignored" ELSE "error")

Tick == clock < MaxClock /\ clock' = clock + 1
        /\ UNCHANGED <<table, row, lock, pc, call, todo, tx, reply>>

-----------------------------------------------------------------------------
Init ==
    /\ clock = 0
    /\ rows = Root
    /\ row = [s \in Session |-> IF s \in Root THEN RootRow[s] ELSE RootRow[AnyRoot]]
    /\ revoked = {} /\ familyRevoked = {} /\ rotated = {} /\ reused = {}
    /\ lock = [s \in Session |-> Free]
    /\ pc = [r \in Request |-> "idle"]
    /\ call = [r \in Request |-> [kind |-> "refresh", token |-> AnyRoot,
                                  client |-> RootRow[AnyRoot].client]]
    /\ todo = [r \in Request |-> {}]
    /\ tx = [r \in Request |-> NoWrites]
    /\ reply = [r \in Request |-> "none"]

\* A step of the handler or of the database on its behalf.
Step(r) ==
    \/ RejectToken(r) \/ RejectClient(r)
    \/ CheckRevokes(r) \/ CheckPasses(r)
    \/ RotateRejects(r) \/ RotateLocks(r)
    \/ IssueDenied(r) \/ Issue(r)
    \/ LookupNothing(r) \/ LookupFinds(r)
    \/ BeginStatement(r) \/ UpdateRow(r) \/ Commit(r)

Next ==
    \/ \E r \in Request : Start(r) \/ Step(r) \/ Crash(r) \/ DeadlockVictim(r)
    \/ Tick

Spec == Init /\ [][Next]_vars

\* The instance runs a request it has started and the deadlock detector runs;
\* nothing makes a caller start one, an instance crash or the clock advance.
Fairness == \A r \in Request : WF_vars(Step(r)) /\ WF_vars(DeadlockVictim(r))

FairSpec == Spec /\ Fairness

-----------------------------------------------------------------------------
(* Properties.                                                             *)

\* A refresh token is redeemed at most once: no row has two successors, however
\* many requests present it at the same time, crash or are retried.
OneSuccessor ==
    \A s, t \in rows :
       row[s].parent # NoSession /\ row[s].parent = row[t].parent => s = t

\* A token family has one current row ("the current active row for every online
\* or offline token family"): rotation is atomic, so a crash never leaves the old
\* and the new token both usable, or neither.
OneCurrentRow ==
    \A s, t \in rows \ rotated :
       row[s].family # NoFamily /\ row[s].family = row[t].family => s = t

\* A replay that was detected revoked the replayed token and the token issued for
\* it, whatever rotations were in flight.
ReplayRevokesSuccessor ==
    \A s \in reused :
       s \in revoked /\ \A t \in rows : row[t].parent = s => t \in revoked

\* "If rotated token is reused, entire family revoked."
ReplayRevokesFamily ==
    \A s \in reused : \A t \in rows : row[t].family = row[s].family => t \in revoked

\* "Revoke all active sessions for a user": after a required password update or an
\* MFA reset that succeeded, no earlier login of the user is alive, rotated or not.
SweepEndsEverySession ==
    \A r \in Request : reply[r] = "ok" /\ Kind(r) = "user" => rows \subseteq revoked

\* An offline grant never outlives the maximum fixed at login, however often it is
\* rotated and whatever the idle policy becomes.
OfflineMaximum ==
    \A s \in rows :
       LET root == RootRow[row[s].family]
       IN  row[s].family # NoFamily /\ root.offline => row[s].refreshExpires <= root.offlineMax

Commits(r) == pc[r] = "write" /\ pc'[r] = "done" /\ todo[r] = {}

\* Logout and password change keep the grants approved for offline access: they
\* revoke no row of a family whose login asked for one, however often rotated.
LogoutKeepsOffline ==
    [][\A r \in Request : Commits(r) /\ Kind(r) \in {"logout", "others"} =>
          \A s \in revoked' \ revoked :
             row[s].family # NoFamily => ~RootRow[row[s].family].offline]_vars

\* A replayed or expired refresh token costs its own family only.
TheftStaysInFamily ==
    [][\A r \in Request : Commits(r) /\ Kind(r) = "refresh" =>
          \A s \in revoked' \ revoked : row[s].family = row[Token(r)].family]_vars

\* A revocation that committed ("ok") took effect on the row it named, and no request
\* brings that row back; it may have been deleted.  Of a revocation whose error was
\* discarded ("ignored": it lost a deadlock and was told 200) nothing is said.
AnsweredRevocation ==
    \A r \in Request :
       reply[r] = "ok" /\ Kind(r) \in ByToken => Token(r) \in revoked \/ Token(r) \notin rows

\* The table implements the contract: what its committed rows say is a sequence of
\* redemptions, revocations and deletions, each in one instant.
Contract == INSTANCE RefreshTokenContract WITH
    issued <- rows,
    heir <- {<<row[s].parent, s>> : s \in rows \ Root},
    spent <- rotated,
    dead <- revoked

ImplementsContract == Contract!Spec

\* Every request that starts is answered or its connection is lost: row locks and
\* multi-row updates never leave two requests waiting for each other for ever.
EveryRequestEnds == \A r \in Request : InProgress(r) ~> pc[r] = "done"
=============================================================================
