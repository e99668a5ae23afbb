# OpenID Connect WASI Hub: formal models

TLA+ models of the stateful core of the hub, checked with TLC, and theorems about
every one of them, proved with TLAPS. The sources are those under
`src/`; `PROJECT.json` maps every definition to the lines it stands for.

The server is a set of stateless instances (WASI components or native processes)
over one PostgreSQL database. Every request takes a connection of its own, nothing
runs in the background, and isolation is READ COMMITTED. So all the concurrency of
the system is concurrency of SQL statements: what a model needs is which statements
share a transaction, which take row locks, and what is read before and used after.
That is the level of detail of every module here.

## 1. The system

Each entry says what a component keeps, what it does, what is hard about it and what
should hold.

| Component | State | Operations | What is hard, and what should hold |
|---|---|---|---|
| Refresh-token rotation (`flows/refresh_token.rs`, `session_repo.rs`) | `sessions`: revoked, family_revoked, rotated_at, reused_at, expiries | redeem, detect replay, expire | two transactions per request with the lock released in between; at most one successor, one current row per family |
| Revocation and logout (`endpoints/revoke.rs`, `logout.rs`, `account.rs`, admin `users.rs`, `audit.rs`) | the same rows | revoke a token, a session, an application, a user; logout; cleanup | UPDATEs over many rows race with an INSERT; errors are discarded; offline grants survive logout |
| Workflows (`workflow_repo.rs`, admin `workflows.rs`) | `workflows`, `workflow_executions` | activate, schedule, run due, retry, cancel, delete | no transaction around a run, no claim of an execution; order and completeness |
| CIBA (`flows/ciba.rs`, `endpoints/ciba.rs`, `ciba_repo.rs`) | `ciba_authentication_requests` | request, decide, poll, clean up | polls together, decisions on two devices; one exchange, for what was decided |
| Authorization endpoint, pushed requests, consent, code exchange (`authorize.rs`, `par.rs`, `flows/authorization_code.rs`, `user_consent_repo.rs`) | codes, pushed requests, consents, consent pages | push, authorize, consent, exchange | statements on their own, discarded errors; one-time use, no code without consent |
| Device flow (`flows/device_code.rs`) | `device_codes` | request, confirm, poll | a read without a lock before the mark |
| Sign-in and second factors (`flows/password.rs`, `mfa.rs`, `mfa_repo.rs`) | authenticator, passkeys, recovery codes, ceremonies | sign in, enrol, renew, reset | locks that hold in one handler and not in the other; codes work once, no factor is skipped |
| Account, links, required actions (`account.rs`, `account_recovery.rs`, `password_reset.rs`, `email_verification.rs`, `required_actions.rs`, `user_repo.rs`) | the user row, links, linked identities | edit, verify, reset, recover, unlink, delete | whole-row writes of stale copies; a verified address was proved, a deleted account stays deleted |
| Organizations, invitations (`organization_repo.rs`) | members, invitations, managed accounts | invite, accept, remove, delete | reads before deletions; one use, accounts follow the organization |
| Roles, composites, groups (`role_composite_repo.rs`, ...) | role graph | include, assign, delete | check and insert; no cycle, soft deletion spares the rest |
| API keys (`oidc-apikey`) | keys | create, verify, rotate, revoke | rotation is two statements; a key was good when it was used |
| Social login (`social_login.rs`) | states, linked subjects | initiate, callback | no transaction; one account per subject |
| Authorization services (`authorization_services.rs`) | tickets, RPTs | ask, exchange, upgrade, revoke | decisions from earlier reads; one use |
| Client policies and registration (`client_policies.rs`, `clients.rs`, `registration.rs`) | clients, policies, profiles | create, edit, register, assign | three reads and a write of the whole row; no write against a standing policy |
| Token use (`token_exchange.rs`, `jwt_bearer.rs`, `client_credentials.rs`, `introspect.rs`, `userinfo.rs`) | sessions, clients, users | exchange, assert, inspect | reads on several connections; spent tokens stay spent |
| Realms and secrets (`realms.rs`, `audit.rs`, `state.rs`) | realms, keys, providers, cached services | create, edit, delete, re-encrypt | in-place encryption against edits; every secret stays readable |
| SAML (`saml.rs`, `saml_repo.rs`) | pending requests, replays, realm key | answer, broker, log out | one-time rows marked late and swept; one session per assertion |
| Directory federation (`federation.rs`, `direct_ldap.rs`) | links, imported accounts, groups | synchronise, sign in | find by address, write later; local accounts are not taken over |
| Migrations and development stacks (`oidc-migrate`, `oidc-dev`, `oidc-wasm-dev`) | `_migrations`, processes, runtime file | migrate, seed, start, stop | crashes, two runners; recorded is applied once |
| Token formats, middleware, settings, console | | | see section 6 |

Components interact through the database only, with three exceptions in code: any
handler that records an audit event calls `WorkflowRepo::dispatch_event`, which
activates workflows and runs what is due on the spot; an approval of CIBA writes the
user's consent; and every account operation that changes a credential ends with a
sweep over `sessions`. The first is in `WorkflowExecution` (a run at any moment), the
second in `BackchannelAuth`, the third in `RefreshTokenFamily` (the kinds `others`,
`logout` and `user`) and, as the flag `signedIn`, in `UserAccount`.

## 2. The modules

| Module | Models | Kind |
|---|---|---|
| `RefreshTokenContract` | what the token endpoint promises: redeem, revoke, forget, each in one instant | abstract specification |
| `RefreshTokenFamily` | the `sessions` table and every statement on it | detailed specification |
| `WorkflowExecution` | the executions of one workflow for one user | specification |
| `BackchannelAuth` | CIBA requests, decisions, polls and the consent they write | specification |
| `UserAccount`, `SignIn`, `AuthorizationCode`, `DeviceGrant`, `RoleGraph`, `Organization`, `ApiKey`, `SocialLogin`, `PermissionGrant` | what users and applications ask of the provider | specifications, run by `MCServices` |
| `ClientRegistry`, `TokenUse`, `RealmKeys`, `SamlLogin`, `DirectorySync`, `DevStack` | what the provider is run with | specifications, run by `MCPlatform` |
| `MCDeferred` | `WorkflowExecution` and `BackchannelAuth` in one run | model checking |
| `MC...` | constants and bounds of small instances | model checking |
| `RefreshTokenFamilyProofs` | rotation, replay, revocation, and the refinement of the contract | proofs |
| `WorkflowExecutionProofs`, `BackchannelAuthProofs` | the module of that name | proofs |
| `GrantProofs` | `AuthorizationCode`, `DeviceGrant`, `PermissionGrant` | proofs |
| `AccountProofs` | `UserAccount`, `Organization`, `SocialLogin` | proofs |
| `SignInProofs` | `SignIn` | proofs |
| `ServicesProofs` | `RoleGraph`, `ApiKey`, and the composition `MCServices` | proofs |
| `PlatformProofs` | the six platform components and the composition `MCPlatform` | proofs |

### RefreshTokenFamily

State: `rows` are the committed rows; `row` their immutable columns; `revoked`,
`familyRevoked`, `rotated` and `reused` the committed flags; `lock` the row locks;
and for each request its place (`pc`), parameters (`call`), the rows its statement has
not reached (`todo`), the uncommitted writes (`tx`) and the answer (`reply`).

Actions of a refresh: `RejectToken` / `RejectClient` / `CheckRevokes` / `CheckPasses`
are phase 1 of `RefreshTokenFlow::execute` (find FOR UPDATE, expiry, replay, ROLLBACK),
`RotateRejects` / `RotateLocks` / `IssueDenied` / `Issue` are phase 2, `Commit` ends
either. The other requests are `LookupNothing` / `LookupFinds` (find one row) and
`BeginStatement` / `UpdateRow` / `Commit` (one UPDATE or DELETE over many rows).

The model of PostgreSQL is explicit and external to `src/`: a statement over many rows
takes its candidates from a snapshot when it starts, then locks them one by one in any
order and tests the latest version of each again (READ COMMITTED); a row inserted
later is not a candidate; locks last to the end of the transaction; a cycle of waiting
transactions loses one of them, any (`DeadlockVictim`); a lost connection rolls back
(`Crash`). `revoke_handler` and `logout_handler` discard the errors of their statements
(`let _ = ...`): `Discards` makes a revocation that did not happen answer "ignored".

Abstractions: all rows belong to one user; a row is named by the request that inserts
it (the code draws a fresh UUID); a token is named by the row that stores its hash;
signing, user, client and organization checks are the choice `IssueDenied`. The commit
of a request and its answer are one step, so a lost answer looks like an answer the
caller does not use, and any later request may present the same token again.

### WorkflowExecution

State: the rows `exec` (status, current_step, attempts, next_run_at, created_at), the
ghost `first` (when each action was first performed), the workflow's `workflow` and
`lastScheduled`, and for each caller its place and the copies it holds: `due` (the ids
it fetched), `cur`, `at` (current_step) and `now`.

Every statement commits on its own, so each is an action: `Insert`, `ReadSchedule`,
`Enqueue`, `Stamp`, `Fetch`, `Find`, `FindWorkflow`, `FinishCancelled`, `Claim`, `Act`,
`ActFails` + `Fail`, `Complete`, `Wait`, `Advance`, `Retry`, `Cancel`, `Update`,
`Delete` + `Sweep`. `ProcessError` is an error inside `process`, which `run_due`
counts and passes over; `Crash` is a lost instance or an error anywhere else. When
`dispatch_event` is called inside the transaction of another handler the whole run
becomes one transaction: its behaviours are among those of the model. The partial
unique index is the guard `MayBeActive`.

Left out: edits of the steps of a workflow whose executions wait, batches over several
users, the effect of each action, and the audit record that follows each statement
(its failure is `ProcessError`).

### BackchannelAuth

State: `request` (status, interval, last poll, ACR, expiry of each row), `lock`,
`consent` (the scopes of the one row of the user and the client), `sessions` (one
element for each exchange), and the progress of each `poll` and `decision`.

A poll is one transaction: one of the `Select...` actions takes the row with FOR UPDATE
and settles the outcome, `CommitPoll` makes the writes visible; a `Result` error rolls
back (`Refuse`). A decision commits statement by statement: `StartDecision` (find and
the ACR test), `ReadConsent`, `WriteConsent`, `Decide`. The clock scales seconds: with
`Interval = 1`, `Penalty = 2`, `Longest = 2` the limit of the interval is reached by
one slow_down. A poll that waits for the lock keeps the start of its transaction
(`began`), because `NOW()` does. The `ping` notification is left out.

### The service components

They share a form. A component's rows are functions from names to records; each
request is a record with its place in the handler and what it has read; an action is
one statement (or one transaction) with the code up to the next, so whatever runs in
between runs in between. A request is served once, a handler that fails or a lost
instance is an action of its own, and time is the ageing of rows, except where the
code compares two times. Ghost variables remember what a property needs of the past.

- `UserAccount`: the row of one user. `ReadRow`/`WriteRow`-style handlers keep their copy
  and write it whole (`UserRepo::update`, whose WHERE clause is `Written`). Reset,
  verification and recovery links are born, redeemed, marked and aged; `unlink`,
  `assign`, `mfa`, `password`, `forced`, `details`, `admin` are the other kinds of requests.
- `SignIn`: `PasswordFlow::execute` is one transaction with row locks (`holder`); enrolment,
  renewal and reset commit statement by statement and wait for those locks. An
  authenticator code is a pair of a secret and a 30-second step.
- `AuthorizationCode`: `authorize_inner` statement by statement, the consent page with its
  five-minute token (`forms`), and the exchange, which holds the row of the code.
- `DeviceGrant`: polls, confirmations and the UPDATE that waits for a poll's transaction.
- `RoleGraph`: inclusion is a check (`CheckInclusion`, over the live closure as the
  recursive query computes it) and an INSERT; deletion is soft; `Effective` is what
  `find_effective` returns.
- `Organization`: acceptance, removal and deletion are transactions that read first.
- `ApiKey`: verification reads the row and then the clock; rotation marks and then creates.
- `SocialLogin`: the callback has no transaction; the upstream answers any subject. The two
  looks for a second factor can fail, in opposite senses (`FactorsFound`): a failed look for
  an authenticator finds none, one for passkeys finds some.
- `PermissionGrant`: what the policies decide is the relation `allowed`, changed at will.

### The platform components

- `ClientRegistry`: a client is the set of its features, a profile the set it allows; a write
  reads the row, the profiles, the policies, decides, and stores. `held` is the set of
  rules that have been in force since a request began.
- `TokenUse`: authentication, verification and issue on separate connections; rows change in
  between.
- `RealmKeys`: a stored secret is a plain value encrypted `layers` times. `audit.rs` encrypts
  what it cannot decrypt, row by row, beside edits and deletions.
- `SamlLogin`: pending rows, assertions and replay rows age and are swept; the realm's key is
  created by whoever first needs it (`ReadSamlKey`, `StoreSamlKey`, `RereadSamlKey`).
- `DirectorySync`: a synchronisation imports entries statement by statement, a sign-in imports
  one in its transaction; administrators move and delete accounts meanwhile.
- `DevStack`: commands are processes that can be killed at any step; PostgreSQL releases
  the advisory lock and rolls back the open migration of a killed one. `stop` kills by name
  (`KilledByName`): the processes of `start` and every proxy, not the wasmtime of `wasm`.

## 3. The runs

| Run | Instance | Shows |
|---|---|---|
| `family` | two scenes. Races: 4 requests of 5 kinds on one family, no clock. Life: 3 requests of all 9 kinds on an offline family and a browser row, clock to 2, idle policy 1 or 3 | `OneSuccessor`, `OneCurrentRow`, `ReplayRevokesSuccessor`, `ImplementsContract`, `OfflineMaximum`, `AnsweredRevocation`, `LogoutKeepsOffline`, `TheftStaysInFamily` |
| `family_liveness` | 3 requests of 2 clients, 4 kinds, an online family, clock to 1, fairness | `EveryRequestEnds` |
| `family_replay` | 3 requests | violates `ReplayRevokesFamily` |
| `family_sweep` | 2 requests | violates `SweepEndsEverySession` |
| `deferred` | a workflow: 2 executions, 3 actions, 2 callers, 2 failures, clock to 2; or CIBA: 1 request, 3 polls, 2 decisions, clock to 3 | `InOrder`, `CompletedDidAll`, `EndedWhenUnhandled`; `ExchangedOnce`, `TokensMatchDecision`, `SlowDownsAccumulate` |
| `workflow_delay`, `workflow_cancel` | 1 execution, 2 callers | violate `DelayRespected`, `CancelledStaysCancelled` |
| `ciba_consent` | 2 requests, 2 decisions | violates `ApprovalRecordsConsent` |
| `device_polls` | 2 polls | violates `OneSessionPerDevice` |
| `social_state` | 2 callbacks | violates `StateConsumedOnce` |
| `services` | nine components, each alone | the sixteen properties below |
| `platform` | six components, each alone | the eight properties below |

`services`:

| Property | Of | Says |
|---|---|---|
| `VerifiedAddressWasProved` | `UserAccount` | a verified address was reached by a link or vouched for by an administrator |
| `DeletedForGood` | `UserAccount` | no stale copy brings a deleted account back |
| `MethodLeft` | `UserAccount` | some way to sign in is left, unless two requests to unlink overlapped or a stale write took a new password away |
| `FactorsUsedOnce` | `SignIn` | recovery codes and authenticator codes are accepted once, but for the two exceptions it names |
| `SupersededCodesDead` | `SignIn` | a replaced batch of recovery codes is dead once the replacement was answered |
| `SignInsComplete` | `SignIn` | no tokens without the second factor the account had; a ceremony lets one sign-in through and takes its limit of attempts |
| `SpentIsRefused` | `UserAccount`, `SocialLogin`, `AuthorizationCode`, `DeviceGrant` | a request that comes when a use of the link, the state, the pushed request or the device code has been answered is refused, unless its mark was lost; overlapping uses are not refused |
| `UsedAtMostOnce` | `AuthorizationCode`, `PermissionGrant`, `Organization` | an authorization code, a permission ticket and an invitation are used once, overlapping requests included |
| `CodeNeedsApproval` | `AuthorizationCode` | no code or token for scopes that were not approved at some moment of the request |
| `NoRoleContainsItself`, `DeletionSparesOthers` | `RoleGraph` | no cycle but from overlapping additions; a deletion takes the deleted role and no more |
| `AccountsFollowOrganization` | `Organization` | managed accounts go with it, accounts of the realm never do |
| `KeyUseWasGood` | `ApiKey` | at one instant of the request the key was unrevoked, unexpired and within its grace |
| `SubjectHasOneAccount` | `SocialLogin` | a code is for the account the subject is linked to |
| `UpgradeReplaces` | `PermissionGrant` | an answered upgrade has revoked the previous RPT, which was alive |
| `TypesOK` | all | types |

`platform`:

| Property | Of | Says |
|---|---|---|
| `PoliciesHeldAtWrites` | `ClientRegistry` | no write stores a client that a rule in force all along forbids |
| `SpentTokensStaySpent` | `TokenUse` | a token revoked or expired at arrival is neither active nor gives claims; it is exchanged only where the code does not look (a revoked access or ID token, an expired refresh token) |
| `AnsweredClientsAuthenticated` | `TokenUse` | whoever is answered was, at one moment of the request, an enabled client with its current secret |
| `RealmKeysKept` | `RealmKeys`, `SamlLogin` | stored secrets decrypt to what was entered; a realm has one SAML key |
| `SamlUsedOnce` | `SamlLogin` | one session for an assertion and for a state, one answer for a request |
| `LocalAccountsKept` | `DirectorySync` | imports do not take over local accounts |
| `StacksSound` | `DevStack` | scripts are committed once exactly when recorded; a ready stack stands on a whole database and Ctrl-C leaves nothing |
| `PlatformTypesOK` | all | types |

Several properties carry an exception ("unless two requests overlapped", "unless the mark
was lost"). Each is as narrow as the code allows: the exception is a race that the code
does have, recorded by a ghost variable, and the property says that nothing else breaks
the promise. Two of these races have a run of their own beside the property, which ends
in the violation: `social_state` and `device_polls`, both beside
`SpentIsRefused`. The others stand in the property and, with the words of the
document that promises more, in section 5.

### Bounds

Two requests are enough for a double redemption; a replay in flight needs the first
rotation, a second one and the replay, so three, and the fourth adds a revocation.
The life scene needs a clock that passes the access lifetime (1), the refresh lifetime
and the offline maximum (2). A workflow of three actions is the shortest one in which
an action can be skipped between two that are not, with one delay (`Wait`) and one
step without (`Advance`); `MaxAttempts` bounds failures only, `Retry` has the code's
guard and no more; in `MCDeferred` actions fail while there is one execution, and then,
as while there are two (the second competes for the active place), the clock goes to 1,
the delay. Three polls contain two that are too soon and one that exchanges.

`MCDeferred`, `MCServices` and `MCPlatform` put components that share no state in one run: `focus`
is the component that takes the steps, the others rest in one initial state, so the states
are added and not multiplied. Within a component:

- requests and rows that are interchangeable start in the order of their numbers
  (`InOrder`), which removes renamings only;
- where a component has many kinds of requests, a scene (`...Scenes`) says which kinds
  arrive together: those that write what others read. Each scene has two requests, three
  where a third can come after two that overlapped;
- the conjuncts of `...Steps` marked "Bound" leave out combinations that do not meet, for
  instance an exchange beside the creation of another code, or keep counts small (one
  deleted role and three inclusions, the shortest cycle through a third role).

`MaxAttempts = 1` scales MAX_ATTEMPTS, the limit of wrong proofs of a ceremony;
`MaxTotpStep = 1` gives a clock with one tick, enough for a code ahead of its step.
Requests, polls, decisions and commands are handled once, so those instances stop:
`CHECK_DEADLOCK FALSE`. That requests on `sessions` do not wait for ever is
`family_liveness`.

### Fairness

`FairSpec` is used by `family_liveness` alone: an instance that received a request runs
it (WF on `Step(r)`), and PostgreSQL's deadlock detector runs (WF on
`DeadlockVictim(r)`). Nothing forces a caller to send a request, a crash, or the clock.
No other module promises progress: their handlers take at most a few row locks, in one
order (`SignIn`: authenticator, ceremony, recovery codes), the code has no background
process that would have to run, and whether a client comes back is up to the client.

### Where code and documents disagree

Seven runs end in a violation of what a document or a comment says:

1. `family_replay`: *"If rotated token is reused, entire family revoked"*
   (`plan/04-oidc-plan.md:162`). The UPDATE over the family does not see the row that
   a rotation of a later token is inserting, and that row survives. What does hold, and
   is proved, is the weaker `ReplayRevokesSuccessor`: the replayed token and the token
   issued for it are revoked.
2. `family_sweep`: *"Revoke all active sessions for a user"* (`session_repo.rs:146`),
   for the same reason.
3. `workflow_delay`: *"... or wait for a number of seconds before it begins"*
   (`docs/workflows.md:36`). Two runs fetch one due execution; when the first has moved
   it to waiting, the second claims it and performs the delayed action.
4. `workflow_cancel`: *"Cancelled means an administrator stopped the execution"*
   (`docs/workflows.md:107`). A run that had fetched it sets it running again. What
   does hold is `EndedWhenUnhandled`: without such a run it stays ended.
5. `ciba_consent`: *"Approval records consent for the displayed scopes"*
   (`docs/ciba.md:43`). Two approvals at the same time lose one set of scopes.
6. `device_polls`: *"`access_denied` if the device code was already used"*
   (`flows/device_code.rs:28`). Two polls that found it unused both open a session
   (`flows/device_code.rs:89`). What does hold is `SpentIsRefused`: a poll that
   comes after an exchange was answered gets nothing.
7. `social_state`: *"Atomically consume a valid social-login state"*
   (`social_login_state_repo.rs:53`). The id comes from a subquery without a lock; an UPDATE
   that waited for the row tests the id alone (line 64), and both callbacks go on. What does
   hold is `SpentIsRefused`: a callback that comes after the first was answered is refused.

## 4. The theorems

Every safety property and every action property that a passing run checks is also a
theorem, for any sets of requests, rows, names and kinds, and any limits. What a theorem
assumes of the constants is the named assumption of the component's module
(`AuthzAssumption` and so on), which TLC evaluates in the runs: that markers for "nothing"
name nothing, that limits are naturals, that the roles and the migrations are finitely
many. Two theorems about types assume one thing more, see below.

The proofs have one form. An invariant says of every request under way, at each place of
its handler, what it may still rely on of what it has read; the property is among its
conjuncts or follows from it. There is a lemma for each action, and frame lemmas (named
`...Stays`, `...Moves`, `...Beside`) for what every step leaves to the requests that do
not take it: whatever only goes one way in the database, a mark, a deletion, a link, is
what a stale copy can rely on. Where a property failed to be inductive for a reason in
the code, that reason is the exception in the property.

### Refresh tokens (`RefreshTokenFamilyProofs`)

| Theorem | States |
|---|---|
| `TypeCorrect` | `Spec => []TypeOK` |
| `Invariance` | `Spec => []IInv` |
| `RedeemedOnce` | `Spec => []OneSuccessor` |
| `OneCurrentPerFamily` | `Spec => []OneCurrentRow` |
| `Implementation` | `Spec => ImplementsContract`, the refinement of `RefreshTokenContract` |
| `ReplayRevokes` | `Spec => []ReplayRevokesSuccessor` |
| `Reach` | `Spec => []ReachInv` |
| `OfflineEnds`, `RevocationsHold` | `Spec => []OfflineMaximum`, `Spec => []AnsweredRevocation` |
| `OfflineSurvivesLogout`, `TheftIsContained` | `Spec => LogoutKeepsOffline`, `Spec => TheftStaysInFamily` |

`OneSuccessor` and `OneCurrentRow` are not inductive: they speak of committed rows,
while what protects them is in open transactions. `IInv` adds

- `NoTransaction`: outside a transaction a request has neither locks nor writes;
- `FlagsOfRows`: flags belong to rows, and a row's name belongs to a finished request;
- `WritesAreLocked`: a transaction holds the lock of every row it will change. Two
  rotations of one row therefore exclude each other until COMMIT;
- `RotationIsWhole`: the INSERT and mark_rotated are in the write set together, and the
  old row is presentable and not rotated for as long as they are;
- `ParentsAreRotated`: a committed row with a committed successor is rotated.

Then a COMMIT adds a successor only to a row that had none, and marks the one row of
the family that was current. The proof has a lemma for types, one for the steps that
commit nothing and one for COMMIT, with a case for each action. `Implementation` maps
COMMIT to `Redeem`, `Revoke` or `Forget`, according to the write set, and every other
step to a stutter. `ReplayRevokes` adds that a row's family is its parent's, that a
statement either revokes or deletes, and `ReplayCovers`: an open replay holds the lock
of the replayed row, and the successor of that row is among the rows its UPDATE has
revoked or has still to reach (it was committed before the row was seen rotated).

`ReachInv` says how far a statement reaches: a row keeps what its login fixed (the offline
flag and the maximum), a statement revokes rows its WHERE clause names and no others, and
a revocation under way still has its row to write, has written it, or found it gone. A
revocation that answers "ok" therefore held at its COMMIT, and a logout has no offline row to
write. `RevocationsHold` says nothing of a revocation whose error was discarded (section 5).

### Workflows and backchannel authentication

`WorkflowInv`: every action up to the stored `current_step` has been performed, and up to
each caller's copy of it too. Another caller may have moved the row since the copy was
read, but what has been performed stays performed, so a stale copy never says too much:
that is why `InOrder` and `CompletedDidAll` hold without any claim of an execution.
`EndedWhenUnhandled` follows step by step.

`BackchannelInv`: a poll that will answer with tokens holds the lock of a row that still
says what it read; an approved row has the decision of that level behind it; a session
too, and its row cannot be exchanged again. `SlowDownsAccumulate` counts polls, so the
invariant carries that the polls answered slow_down are finitely many, for any set `Poll`.

### Codes, tickets, accounts and sign-ins

- `AuthzInv`: an exchange holds the row of a live code, so a code is exchanged once
  (`CodesOnce`); a pushed request that is used and still live is one whose mark was lost, so
  a spent one is refused to whoever comes later (`SpentPushes`); what stands approved was approved at a moment of
  every request under way (`CodeNeedsApproval`).
- `DeviceInv`, `PermissionInv`: a device code is exchanged for a user who was told of it, and
  by polls that came before the first exchange was answered (`SpentDevices`); a ticket that will issue was consumed by one grant alone.
- `OrgInv`: a deletion of the organization has read every managed member there is, or an
  acceptance is recorded to have met it.
- `SocialInv`: past the state, a callback came before the state was consumed; past the link,
  its account is the linked one.
- `AccountInv`: every stale copy of the row that is going to be written holds an address
  with the flag that was proved for it, which is what makes a whole-row write harmless to
  `VerifiedAddressWasProved`. It is not harmless to `MethodLeft`: the proof needed the
  exception `reverted` (section 5).
- `MfaInv`: the ceremony a sign-in has read is locked by it and stays as it was; a recovery
  code that is there has not been used; an accepted authenticator code lies before the
  stored step or under an exception.
- `RoleInv`: what a cycle check found stays true until somebody else inserts, and the graph
  is acyclic unless two insertions overlapped. It rests on `ReachedIsLeast`: the recursive
  query returns the least set that holds its start and is closed under inclusion, in as
  many rounds as there are roles. The induction over its rounds is in set form
  (`SetInduction`), from the well-foundedness of < on the naturals, and the bound on the
  rounds from the cardinality of the sets the rounds add to.
- `KeyInv`: between the read of a key and the comparison with the clock, either the key was
  good when it was read or the copy the request holds makes the comparison refuse it
  (`GoodOrRefused`); a rotation that makes the row good again does not change that copy.

`ServicesProofs` ends with the composition that the run `services` checks: `ServicesSpec`
proves that its specification implies that of each component, with no restriction on the
instance, so the theorems of the components hold of it (`ServicesUseOnce`, `ServicesGrantWell`,
`ServicesSpentRefused`, `ServicesKeepPromises`, `ServicesKeepSteps`, `ServicesTypes`).

### The platform

- `ClientInv`: the row a request is about to write obeys every rule in force since the request
  began; profiles it has listed are those of these rules.
- `TokenInv`: what a token was when its request arrived it still is (`SpentTrue`), because
  revocation and expiry are for good; a request past its authentication was served by a
  client that was enabled and knew its secret.
- `RealmInv`: every value a request or a re-encryption holds is of a provider that exists and
  stays readable once it is written: at most one layer, unless the secret is empty.
- `SamlInv`: two calls about to open a session hold two states that are both marked already;
  two about to answer one request met a swept record. Uniqueness of sessions needs the
  marks of the states alone: the table of replayed assertions is a second line behind it.
- `DirInv`: until linking is allowed, entries are linked to accounts the directory made, and a
  job that holds an account holds such a one.
- `StackInv`: a connected runner holds the advisory lock for as long as it migrates, has
  everything it has passed recorded and is at a version that is not; a running process is
  one its command keeps or waits for. So the INSERT into `_migrations` meets no other
  record, and Ctrl-C on a ready stack leaves nothing, for any migrations and any number
  of commands.

`PlatformSpec` implies the specification of each component; `RealmsKeepKeys`,
`PlatformKeepsPromises` and `PlatformTypes` carry their theorems over. `SamlTyped`,
`StackTyped` and `PlatformTypes` assume that the calls, or the commands, are finitely many:
their type invariants bound a count by a cardinality, which has no value otherwise.

### Only model-checked

`EveryRequestEnds`: liveness under fairness, and the ENABLED in it, are out of the prover's
reach. The seven violations are counterexamples, found by TLC.

## 5. Observed while modelling

These are facts of the code that a reader of the models will meet, besides the seven of
section 3. They are stated in the models as exceptions or as plain behaviour. Where a
document promises more than the code keeps, its words are quoted.

- Revocation. *"Revocation makes tokens inactive immediately"* (`plan/04-oidc-plan.md:305`).
  Two revocations in one family can deadlock over its rows; `revoke_handler` discards the
  error of the one PostgreSQL aborts (`revoke.rs:93`) and answers 200 while its token is
  alive. In the model its answer is "ignored", and `AnsweredRevocation` is about the others.
- Sign-in. The audit event of a failed sign-in is created in the transaction the error
  rolls back (`flows/password.rs:260`), so the count for the lockout does not grow. *"An
  authenticator code cannot be reused after it has succeeded"*
  (`docs/multi-factor-authentication.md:33`): what is stored is the time of the sign-in, not
  the step of the code (`mfa_repo.rs:47`), so a code of the coming step is still ahead of it
  and is accepted again; so is one used before an enrolment that two requests finished.
  Both are exceptions of `FactorsUsedOnce`.
- Account. `UserRepo::update` writes the whole row: concurrent edits of other columns are
  lost, but never an address without its flag. *"The reset link is single-use"*
  (`docs/passwords-and-recovery.md:31`): two confirmations that found it unused both set a
  password (`password_reset.rs:188`). Recovery links are marked after the password, and a
  failure of the mark is only logged. *"The console prevents removal of the last available
  sign-in method"* (`docs/user-account-console.md:58`): two requests that counted two
  identities remove both (`account.rs:349`), and a stale write can take the last method too:
  a request that read the row of an account without a password, and writes it after a reset
  set one and the identity was unlinked, puts the absence of a password back.
- Social login. *"Never let an upstream login bypass locally enrolled second factors"*
  (`social_login.rs:441`): a failed look for an authenticator counts as none (line 445).
- Authorization. An error of the mark of a pushed request is discarded, and two browsers that
  present it together are both answered. A consent
  revoked between the two statements of a grant comes back. In a hybrid response
  `at_hash` is computed over the access token together with the parameters that follow it.
- Device flow. The row id of the client is compared with the public `client_id`
  (`flows/device_code.rs:54`), which is equal only for clients named by their id
  (`SelfNamed`).
- Roles. *"The console rejects a relationship that would make a role contain itself,
  including indirect cycles"* (`docs/client-and-composite-roles.md:31`): two inclusions that
  both searched before either inserted close one (`role_composite_repo.rs:17`). The query
  over a cycle still ends, because it is a UNION.
- Organizations. *"Removing a managed member or deleting the organization deletes that managed
  account"* (`docs/use-cases/organization-invitation-lifecycle.md:37`): an acceptance beside
  the deletion creates an account it has not read (`organization_repo.rs:274`). Social login
  does not look at whether the account or its organization is disabled.
- API keys. A rotated key whose grace period ended is found good again when its rotation
  is repeated, since the mark sets a new period (`api_key_repo.rs:131`).
- Permission tickets. Two overlapping upgrades of one RPT each leave a new one.
- Client policies. A profile can be deleted while a policy that names it is being stored;
  the policy then refuses every client. Scopes assigned to a client are not seen when
  the client itself is edited.
- Token use. The exchange of an access or ID token does not look at the session's
  revocation, that of a refresh token does not look at its age.
- Realms. Re-encryption can overwrite a secret changed since it was read, and encrypts the
  ciphertext of an empty secret a second time. A token service cached while the realm had
  no keys stays the global one. The keys of a realm are deleted before the realm.
- SAML. A logout by session index revokes one of the sessions that have it.
- Directories. A synchronisation goes on for a provider disabled meanwhile. One that is
  interrupted between the account and its link leaves an account that the entry cannot
  claim later, unless linking is allowed.
- Development. A start that fails half-way leaves the processes it had started; `stop`
  of the WASI launcher stops nothing; two seeds at once can create two API keys; the
  launchers, unlike `oidc-migrate`, do not refuse two migrations of one version.

## 6. Not modelled

- **Token formats and cryptography** (JWT, JWE, JARM, DPoP, mTLS, XML signatures): the
  content of messages, and mathematics outside TLA+. Where they decide, the model has
  an answer that may be refused.
- **LDAP, SPNEGO, SAML bindings, upstream providers, mail**: external services; the
  models let them answer anything.
- **Middleware**: a counter under a mutex and tests of a request.
- **Settings of realms and clients that nothing reads back, realm export and import,
  audit queries**: writes without a second reader.
- **Administration console**: a user interface over the administration API.
- **In modelled components**: edits of the steps of a running workflow and batches over
  several users; the notification of CIBA clients and of logout; the ten-minute challenges
  of required actions; domains and groups of organizations; the count behind the lockout;
  protocol mappers; smoke tests and builds of the launchers. Two overlapping `run_due`
  calls that enqueue the same batch of a schedule (`workflow_repo.rs:282`) need several
  users to be seen.

## 7. The plan

Done: rotation and revocation with contract and refinement; workflows; CIBA; the nine
service and the six platform components; and, of all of them and of their compositions,
every safety property the runs check, proved for every size of the instance.

Next, in this order:

1. Abstract specifications beside `RefreshTokenContract`: what the token endpoint promises of
   a one-time grant (issue once, revoke), with `AuthorizationCode` and `PermissionGrant`
   shown to implement it.
2. Workflows over several users, to see two `run_due` calls enqueue one batch of a schedule.
3. The parts of section 6 under "In modelled components", where they write what others read.
