----------------------------- MODULE UserAccount -----------------------------
(***************************************************************************)
(* One account: its row in users, its linked identities, its required      *)
(* actions, and the links sent to its owner by email.                      *)
(*                                                                         *)
(* Almost every handler reads the whole row, changes some columns of its   *)
(* copy and writes the whole row back (UserRepo::update); a workflow       *)
(* writes single columns.  A handler commits statement by statement except *)
(* the confirmation of a reset and of a verification, which are            *)
(* transactions.  Each request is served once.                             *)
(***************************************************************************)
EXTENDS Naturals, FiniteSets

CONSTANTS
    AccountRequest,   \* HTTP requests about the account
    Email,            \* addresses
    Password,         \* local passwords
    NoPassword,       \* password_hash is NULL
    Identity,         \* external identities
    ResetLink,        \* rows of password_reset_tokens
    VerifyLink,       \* rows of email_verification_tokens
    RecoveryLink,     \* rows of account_recovery_tokens
    NoLink,           \* a request without a link
    RequiredAction,   \* verify_email, update_profile, configure_mfa, update_password
    AccountScenes     \* bound: the sets of kinds of requests that arrive together

JobKinds == {"none", "profile", "password", "forced", "details", "admin", "reset", "verify",
             "recover", "unlink", "assign", "mfa"}

ASSUME AccountAssumption ==
    /\ NoPassword \notin Password
    /\ NoLink \notin ResetLink \cup VerifyLink \cup RecoveryLink
    /\ ResetLink \cap (VerifyLink \cup RecoveryLink) = {}
    /\ VerifyLink \cap RecoveryLink = {}
    /\ Identity # {} /\ "update_password" \in RequiredAction
    /\ AccountScenes \subseteq SUBSET JobKinds

Link == ResetLink \cup VerifyLink \cup RecoveryLink

VARIABLES
    row,        \* the row of users
    linked,     \* its federated_identities
    required,   \* its user_required_actions
    factor,     \* whether it has a second factor
    signedIn,   \* whether browser sessions of earlier sign-ins are alive
    link,       \* the status of each link
    sentTo,     \* the address a verification link was sent to
    job,        \* each request
    scene,      \* the kinds of requests that arrive
    proved,     \* ghost: addresses verified by a link or vouched for by an administrator
    spent,      \* ghost: links a request has used and answered for
    late,       \* ghost: the links that were spent before a request arrived
    twice,      \* ghost: links used by a request that arrived after they were spent
    unmarked,   \* ghost: recovery links whose mark_used failed or was never reached
    rivals,     \* ghost: two requests to unlink an identity overlapped
    reverted    \* ghost: a stale copy of the row took its password away

accountGhosts == <<proved, spent, late, twice, unmarked, rivals, reverted>>
accountData == <<row, linked, required, factor, signedIn, link, sentTo>>
accountVars == <<accountData, job, scene, accountGhosts>>

UserRow == [email : Email, verified : BOOLEAN, password : Password \cup {NoPassword},
            complete : BOOLEAN, enabled : BOOLEAN, deleted : BOOLEAN]
JobPlaces == {"new", "write", "settle", "mark", "check", "unlink", "sweep", "complete",
              "clear", "insert", "done"}
Job == [at : JobPlaces, kind : JobKinds, copy : UserRow, link : Link \cup {NoLink},
        todo : SUBSET RequiredAction]

AccountTypeOK ==
    /\ row \in UserRow
    /\ linked \subseteq Identity
    /\ required \subseteq RequiredAction
    /\ factor \in BOOLEAN /\ signedIn \in BOOLEAN
    /\ link \in [Link -> {"unborn", "live", "used", "expired"}]
    /\ sentTo \in [VerifyLink -> Email]
    /\ job \in [AccountRequest -> Job]
    /\ proved \subseteq Email
    /\ spent \subseteq Link /\ twice \subseteq Link /\ unmarked \subseteq RecoveryLink
    /\ late \in [AccountRequest -> SUBSET Link]
    /\ rivals \in BOOLEAN /\ reverted \in BOOLEAN
    /\ scene \in AccountScenes

-----------------------------------------------------------------------------
At(r, place) == job[r].at = place
Arrives(r) == At(r, "new")

\* What a request holds before it has read the row, and once it is answered.
NoCopy == [email |-> CHOOSE e \in Email : TRUE, verified |-> FALSE, password |-> NoPassword,
           complete |-> FALSE, enabled |-> FALSE, deleted |-> TRUE]

Move(r, place) ==
    job' = [job EXCEPT ![r].at = place, ![r].copy = IF place = "done" THEN NoCopy ELSE @]

\* Mutant of Written: the statement misses its deleted_at IS NULL.
WrittenAlways(copy) == [copy EXCEPT !.deleted = FALSE]

\* The statement UserRepo::update writes every column but deleted_at, where deleted_at
\* is NULL.
Written(copy) == IF row.deleted THEN row ELSE [copy EXCEPT !.deleted = FALSE]

NoteReverted ==
    reverted' = (reverted \/ (row.password # NoPassword /\ row'.password = NoPassword))

\* find_by_id sees a row that is not deleted.
Found == ~row.deleted
ActiveAccount == Found /\ row.enabled

\* A request arrives, reads what it needs and goes on with a copy of the row.
Enter(r, kind, place, copy, l, todo) ==
    /\ Arrives(r) /\ kind \in scene
    /\ job' = [job EXCEPT ![r] = [at |-> place, kind |-> kind, copy |-> copy, link |-> l,
                                  todo |-> todo]]
    /\ late' = [late EXCEPT ![r] = spent]
    /\ rivals' = (rivals \/ /\ kind = "unlink"
                            /\ \E q \in AccountRequest :
                                  job[q].kind = "unlink" /\ ~At(q, "done"))
    /\ UNCHANGED <<scene, proved, spent, twice, unmarked, reverted>>

-----------------------------------------------------------------------------
(* Links sent by email.                                                    *)

Uses(l) == IF l \in ResetLink THEN "reset" ELSE IF l \in VerifyLink THEN "verify" ELSE "recover"

\* A link is stored and mailed; nothing revokes the links sent before.
Sent(l) ==
    /\ link[l] = "unborn" /\ Found
    /\ Uses(l) \in scene
    /\ link' = [link EXCEPT ![l] = "live"]
    /\ UNCHANGED <<scene, row, linked, required, factor, signedIn, job, accountGhosts>>

\* password_reset_request_handler.
SendReset(l) == row.enabled /\ Sent(l) /\ UNCHANGED sentTo

\* email_verification_request_handler.
SendVerification(l) ==
    /\ row.enabled /\ ~row.verified
    /\ Sent(l)
    /\ sentTo' = [sentTo EXCEPT ![l] = row.email]

\* initiate_account_recovery, by an administrator, of a disabled account as well.
InitiateRecovery(l) == Sent(l) /\ UNCHANGED sentTo

ExpireLink(l) ==
    /\ link[l] = "live"
    /\ link' = [link EXCEPT ![l] = "expired"]
    /\ UNCHANGED <<scene, row, linked, required, factor, signedIn, sentTo, job, accountGhosts>>

\* Mutant of Redeemable: the lookup misses its used_at IS NULL.
RedeemableUsed(l) == link[l] \in {"live", "used"}

\* find_by_token_hash: not used and not expired.  No lock is taken.
Redeemable(l) == link[l] = "live"

\* The use of a link is answered; it is a second use when the request arrived after
\* an earlier one was answered.
Spend(r) ==
    LET l == job[r].link IN
    /\ spent' = spent \cup {l}
    /\ twice' = IF l \in late[r] THEN twice \cup {l} ELSE twice

\* password_reset_confirm_handler: the link and the account are read in a transaction.
ReadReset(r) ==
    \E l \in ResetLink, p \in Password :
        /\ Redeemable(l) /\ Found
        /\ Enter(r, "reset", "settle", [row EXCEPT !.password = p], l, {})
        /\ UNCHANGED accountData

\* email_verification_confirm_handler: the link must be for the present address.
ReadVerification(r) ==
    \E l \in VerifyLink :
        /\ Redeemable(l) /\ Found /\ row.email = sentTo[l]
        /\ Enter(r, "verify", "settle", [row EXCEPT !.verified = TRUE], l, {})
        /\ UNCHANGED accountData

\* Mutant of SettleLink: a verification only sets the flag of the row it finds.
SettleFlagOnly(r) ==
    /\ At(r, "settle")
    /\ row' = IF job[r].kind = "verify" THEN [row EXCEPT !.verified = TRUE]
              ELSE Written(job[r].copy)
    /\ link' = [link EXCEPT ![job[r].link] = "used"]
    /\ Move(r, "done")
    /\ Spend(r)
    /\ proved' = IF job[r].kind = "verify" THEN proved \cup {sentTo[job[r].link]} ELSE proved
    /\ NoteReverted
    /\ UNCHANGED <<scene, linked, required, factor, signedIn, sentTo, late, unmarked, rivals>>

\* The row is written and the link marked used, unconditionally, then COMMIT.
SettleLink(r) ==
    /\ At(r, "settle")
    /\ row' = Written(job[r].copy)
    /\ link' = [link EXCEPT ![job[r].link] = "used"]
    /\ Move(r, "done")
    /\ Spend(r)
    /\ proved' = IF job[r].kind = "verify" THEN proved \cup {sentTo[job[r].link]} ELSE proved
    /\ NoteReverted
    /\ UNCHANGED <<scene, linked, required, factor, signedIn, sentTo, late, unmarked, rivals>>

\* The statement fails or the connection is lost: ROLLBACK.
AbandonLink(r) ==
    /\ At(r, "settle")
    /\ Move(r, "done")
    /\ UNCHANGED <<scene, accountData, accountGhosts>>

\* confirm_account_recovery: no transaction.
ReadRecovery(r) ==
    \E l \in RecoveryLink, p \in Password :
        /\ Redeemable(l) /\ Found
        /\ Enter(r, "recover", "write", [row EXCEPT !.password = p], l, {})
        /\ UNCHANGED accountData

\* mark_used, whose error is only logged.
MarkRecovery(r) ==
    /\ At(r, "mark")
    /\ \/ link' = [link EXCEPT ![job[r].link] = "used"] /\ unmarked' = unmarked
       \/ link' = link /\ unmarked' = unmarked \cup {job[r].link}
    /\ Move(r, "done")
    /\ Spend(r)
    /\ UNCHANGED <<scene, row, linked, required, factor, signedIn, sentTo, proved, late, rivals,
                   reverted>>

-----------------------------------------------------------------------------
(* The account console.                                                    *)

\* update_profile_handler: a new address needs the local password and is unverified.
ReadProfile(r) ==
    \E e \in Email, c \in BOOLEAN :
        /\ ActiveAccount
        /\ e # row.email => row.password # NoPassword
        /\ Enter(r, "profile", "write",
                 [row EXCEPT !.email = e, !.verified = row.verified /\ e = row.email,
                             !.complete = c], NoLink, {})
        /\ UNCHANGED accountData

\* change_password_handler.
ReadPassword(r) ==
    \E p \in Password \ {row.password} :
        /\ ActiveAccount /\ row.password # NoPassword
        /\ Enter(r, "password", "write", [row EXCEPT !.password = p], NoLink, {})
        /\ UNCHANGED accountData

\* unlink_identity_handler: the account is read, then its identities, then one goes.
ReadUnlink(r) ==
    /\ ActiveAccount
    /\ Enter(r, "unlink", "check", row, NoLink, {})
    /\ UNCHANGED accountData

\* Mutant of CheckMethods: it only refuses when no identity is left.
CheckNoMethods(r) ==
    /\ At(r, "check")
    /\ IF job[r].copy.password = NoPassword /\ Cardinality(linked) < 1
       THEN Move(r, "done")
       ELSE Move(r, "unlink")
    /\ UNCHANGED <<scene, accountData, accountGhosts>>

CheckMethods(r) ==
    /\ At(r, "check")
    /\ IF job[r].copy.password = NoPassword /\ Cardinality(linked) <= 1
       THEN Move(r, "done")
       ELSE Move(r, "unlink")
    /\ UNCHANGED <<scene, accountData, accountGhosts>>

Unlink(r) ==
    /\ At(r, "unlink")
    /\ \E i \in Identity : linked' = linked \ {i}
    /\ Move(r, "done")
    /\ UNCHANGED <<scene, row, required, factor, signedIn, link, sentTo, accountGhosts>>

-----------------------------------------------------------------------------
(* Required actions, completed with the action token of a sign-in.         *)

\* password_handler: only while the update is required, and with another password.
ReadForced(r) ==
    \E p \in Password \ {row.password} :
        /\ Found /\ "update_password" \in required
        /\ Enter(r, "forced", "write", [row EXCEPT !.password = p], NoLink, {})
        /\ UNCHANGED accountData

\* profile_handler.
ReadDetails(r) ==
    /\ Found
    /\ Enter(r, "details", "write", [row EXCEPT !.complete = TRUE], NoLink, {})
    /\ UNCHANGED accountData

\* complete_mfa_handler.
ReadFactor(r) ==
    /\ Found /\ factor
    /\ Enter(r, "mfa", "complete", row, NoLink, {})
    /\ UNCHANGED accountData

Completes(kind) == CASE kind = "forced" -> "update_password"
                     [] kind = "details" -> "update_profile"
                     [] kind = "mfa" -> "configure_mfa"

Complete(r) ==
    /\ At(r, "complete")
    /\ required' = required \ {Completes(job[r].kind)}
    /\ Move(r, "done")
    /\ UNCHANGED <<scene, row, linked, factor, signedIn, link, sentTo, accountGhosts>>

-----------------------------------------------------------------------------
(* Administrators and workflows.                                           *)

\* users.rs update: any columns; the verified flag stays unless it is given.
ReadAdmin(r) ==
    \E e \in Email, v, n \in BOOLEAN :
        /\ Found
        /\ Enter(r, "admin", "write",
                 [row EXCEPT !.email = e, !.verified = v, !.enabled = n], NoLink, {})
        /\ UNCHANGED accountData

\* users.rs delete sets deleted_at alone; the workflow action delete_user and the removal
\* of a managed member of an organization also disable the account.
DeleteUser ==
    /\ \E n \in {row.enabled, FALSE} : row' = [row EXCEPT !.deleted = TRUE, !.enabled = n]
    /\ UNCHANGED <<scene, linked, required, factor, signedIn, link, sentTo, job, accountGhosts>>

\* The workflow actions disable_user and enable_user write one column.
SetEnabled ==
    /\ Found
    /\ \E n \in BOOLEAN : row' = [row EXCEPT !.enabled = n]
    /\ UNCHANGED <<scene, linked, required, factor, signedIn, link, sentTo, job, accountGhosts>>

\* replace_required_actions: a DELETE, then one INSERT for each action.
ReadAssign(r) ==
    \E s \in SUBSET RequiredAction :
        /\ Found
        /\ Enter(r, "assign", "clear", row, NoLink, s)
        /\ UNCHANGED accountData

ClearRequired(r) ==
    /\ At(r, "clear")
    /\ required' = {}
    /\ Move(r, IF job[r].todo = {} THEN "done" ELSE "insert")
    /\ UNCHANGED <<scene, row, linked, factor, signedIn, link, sentTo, accountGhosts>>

InsertRequired(r) ==
    /\ At(r, "insert")
    /\ \E a \in job[r].todo :
          /\ required' = required \cup {a}
          /\ job' = [job EXCEPT ![r].todo = @ \ {a},
                                ![r].at = IF job[r].todo = {a} THEN "done" ELSE "insert"]
    /\ UNCHANGED <<scene, row, linked, factor, signedIn, link, sentTo, accountGhosts>>

\* reset_mfa: the credentials go, then every session.
ResetFactor(r) ==
    /\ Found
    /\ factor' = FALSE
    /\ Enter(r, "mfa", "sweep", row, NoLink, {})
    /\ UNCHANGED <<row, linked, required, signedIn, link, sentTo>>

-----------------------------------------------------------------------------
(* The statements handlers share.                                          *)

\* UserRepo::update, outside a transaction.
WriteRow(r) ==
    /\ At(r, "write")
    /\ row' = Written(job[r].copy)
    /\ Move(r, CASE job[r].kind \in {"password", "forced"} -> "sweep"
                 [] job[r].kind = "details" -> "complete"
                 [] job[r].kind = "recover" -> "mark"
                 [] OTHER -> "done")
    /\ proved' = IF job[r].kind = "admin" /\ job[r].copy.verified
                 THEN proved \cup {job[r].copy.email} ELSE proved
    /\ NoteReverted
    /\ UNCHANGED <<scene, linked, required, factor, signedIn, link, sentTo, spent, late, twice,
                   unmarked, rivals>>

\* revoke_other_user_sessions, or revoke_by_user_id.
SweepSessions(r) ==
    /\ At(r, "sweep")
    /\ signedIn' = FALSE
    /\ Move(r, IF job[r].kind = "forced" THEN "complete" ELSE "done")
    /\ UNCHANGED <<scene, row, linked, required, factor, link, sentTo, accountGhosts>>

\* The instance or its connection is lost, or a statement fails: the handler answers an
\* error, and what it has committed stays.
LoseRequest(r) ==
    /\ job[r].at \in {"write", "sweep", "complete", "mark", "check", "unlink", "clear", "insert"}
    /\ Move(r, "done")
    /\ unmarked' = IF At(r, "mark") THEN unmarked \cup {job[r].link} ELSE unmarked
    /\ UNCHANGED <<scene, accountData, proved, spent, late, twice, rivals, reverted>>

-----------------------------------------------------------------------------
\* An account whose address is not verified, with a local password or with two
\* external identities.
AccountInit ==
    /\ \E e \in Email, p \in Password :
          \/ row = [email |-> e, verified |-> FALSE, password |-> p, complete |-> FALSE,
                    enabled |-> TRUE, deleted |-> FALSE] /\ linked = {}
          \/ row = [email |-> e, verified |-> FALSE, password |-> NoPassword,
                    complete |-> FALSE, enabled |-> TRUE, deleted |-> FALSE]
             /\ linked = Identity
    /\ scene \in AccountScenes
    /\ required \in {{}, {"update_password"}}
    /\ factor = TRUE /\ signedIn = TRUE
    /\ link = [l \in Link |-> "unborn"]
    /\ sentTo = [l \in VerifyLink |-> row.email]
    /\ job = [r \in AccountRequest |-> [at |-> "new", kind |-> "none", copy |-> NoCopy,
                                        link |-> NoLink, todo |-> {}]]
    /\ proved = {} /\ spent = {} /\ twice = {} /\ unmarked = {}
    /\ late = [r \in AccountRequest |-> {}]
    /\ rivals = FALSE /\ reverted = FALSE

AccountStep(r) ==
    \/ ReadReset(r) \/ ReadVerification(r) \/ SettleLink(r) \/ AbandonLink(r)
    \/ ReadRecovery(r) \/ MarkRecovery(r)
    \/ ReadProfile(r) \/ ReadPassword(r) \/ ReadUnlink(r) \/ CheckMethods(r) \/ Unlink(r)
    \/ ReadForced(r) \/ ReadDetails(r) \/ ReadFactor(r) \/ Complete(r)
    \/ ReadAdmin(r) \/ ReadAssign(r) \/ ClearRequired(r) \/ InsertRequired(r) \/ ResetFactor(r)
    \/ WriteRow(r) \/ SweepSessions(r) \/ LoseRequest(r)

AccountNext ==
    \/ \E r \in AccountRequest : AccountStep(r)
    \/ \E l \in ResetLink : SendReset(l)
    \/ \E l \in VerifyLink : SendVerification(l)
    \/ \E l \in RecoveryLink : InitiateRecovery(l)
    \/ \E l \in Link : ExpireLink(l)
    \/ DeleteUser \/ SetEnabled

AccountSpec == AccountInit /\ [][AccountNext]_accountVars

-----------------------------------------------------------------------------
(* Properties.                                                             *)

\* An address counts as verified only if a link sent to it was used or an administrator
\* vouched for it, however verifications, profile changes and edits interleave: the row
\* is written whole, so the flag never meets an address it was not read with.
VerifiedAddressWasProved == row.verified => row.email \in proved

\* A request that comes when a use of its link has been answered is refused, but for a
\* recovery link that could not be marked.  Requests that come before that, all at once,
\* may all succeed.
SpentLinkRefused == twice \subseteq unmarked

\* "The console prevents removal of the last available sign-in method", as long as no
\* two requests to unlink overlap and no request that read the row before a password was
\* set writes its copy back.
MethodLeft == row.password = NoPassword /\ linked = {} => rivals \/ reverted

\* A deleted account is not brought back or changed by a request that read it before: at
\* most a further deletion disables it as well.
DeletedForGood ==
    [][row.deleted => row' \in {row, [row EXCEPT !.enabled = FALSE]}]_accountVars
=============================================================================
