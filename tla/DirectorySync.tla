----------------------------- MODULE DirectorySync -----------------------------
(***************************************************************************)
(* Accounts that come from a directory (LDAP, Active Directory, a gateway, *)
(* Kerberos).  An administrator's synchronization reads the directory in   *)
(* pages and imports entry by entry, statement by statement; a sign-in     *)
(* binds to the directory and imports its one entry in the transaction of  *)
(* the sign-in.  Both write the whole row of the local account.            *)
(***************************************************************************)
EXTENDS Integers, FiniteSets

CONSTANTS
    Entry,        \* entries of the directory, by their stable identifiers
    DirMail,      \* email addresses
    Account,      \* rows of users
    DirJob,       \* synchronizations and sign-ins; each runs once
    NoEntry,      \* nothing
    DirScenes     \* what happens together

ASSUME DirAssumption == NoEntry \notin Entry \cup DirMail \cup Account

VARIABLES
    directory,    \* the directory, outside the repository
    dirProvider,  \* the row of user_federation_providers
    account,      \* rows of users
    link,         \* rows of federated_directory_users: the account of an entry
    group,        \* whether the group the directory names has a row
    member,       \* rows of user_groups of that group
    dirJob,       \* where each job is and what it has read
    linking,      \* history: the provider was once allowed to link existing accounts
    dirScene

dirVars == <<directory, dirProvider, account, link, group, member, dirJob, linking, dirScene>>

EntryRow == [mail : DirMail, enabled : BOOLEAN, grouped : BOOLEAN]
NoRow == [mail |-> NoEntry, enabled |-> FALSE, grouped |-> FALSE]
AccountRow == [status : {"unborn", "live", "deleted"}, mail : DirMail \cup {NoEntry},
               enabled : BOOLEAN, origin : {"local", "directory"}]
ProviderSettings == [status : {"enabled", "disabled", "deleted"}, import : BOOLEAN,
                     link : BOOLEAN]
DirPlaces == {"new", "page", "link", "user", "mail", "write", "store", "group", "join",
              "commit", "done"}
DirWork == [kind : {"none", "sync", "login"}, at : DirPlaces, settings : ProviderSettings,
            rest : SUBSET Entry, page : [Entry -> EntryRow \cup {NoRow}],
            entry : Entry \cup {NoEntry}, account : Account \cup {NoEntry},
            outcome : {"none", "success", "failed", "admitted"}]

DirTypeOK ==
    /\ directory \in [Entry -> EntryRow]
    /\ dirProvider \in ProviderSettings
    /\ account \in [Account -> AccountRow]
    /\ link \in [Entry -> Account \cup {NoEntry}]
    /\ group \in BOOLEAN /\ member \subseteq Account
    /\ dirJob \in [DirJob -> DirWork]
    /\ linking \in BOOLEAN /\ dirScene \in DirScenes

-----------------------------------------------------------------------------
UnbornAccount == [status |-> "unborn", mail |-> NoEntry, enabled |-> FALSE, origin |-> "local"]
IdleDirJob(settings) ==
    [kind |-> "none", at |-> "new", settings |-> settings, rest |-> {},
     page |-> [e \in Entry |-> NoRow], entry |-> NoEntry, account |-> NoEntry, outcome |-> "none"]

Owners(mail) == {u \in Account : account[u].status = "live" /\ account[u].mail = mail}

\* UNIQUE (realm_id, email) counts deleted rows.
MailFree(mail, u) == \A v \in Account \ {u} : account[v].mail # mail
LinkFree(u, e) == \A f \in Entry \ {e} : link[f] # u

Now(q) == dirJob[q].page[dirJob[q].entry]
DirAt(q, place) == dirJob' = [dirJob EXCEPT ![q].at = place]
EndDir(q, outcome) == dirJob' = [dirJob EXCEPT ![q].at = "done", ![q].outcome = outcome]

\* A job that reads changes no row.
Read == UNCHANGED <<directory, dirProvider, account, link, group, member, linking, dirScene>>

\* apply_directory_values on the account's row, or on a new one.
Applied(q, u) ==
    [account EXCEPT ![u] = [status |-> IF @.status = "unborn" THEN "live" ELSE @.status,
        mail |-> Now(q).mail, enabled |-> Now(q).enabled,
        origin |-> IF @.status = "unborn" THEN "directory" ELSE @.origin]]

-----------------------------------------------------------------------------
\* user_federation::sync reads the provider (enabled or not), then page after page.
StartSync(q) ==
    /\ dirJob[q].at = "new" /\ "sync" \in dirScene
    /\ dirProvider.status # "deleted" /\ dirProvider.import
    /\ dirJob' = [dirJob EXCEPT ![q] = [IdleDirJob(dirProvider) EXCEPT
                        !.kind = "sync", !.at = "page", !.rest = Entry]]
    /\ Read

\* list_gateway_users or direct_ldap::list_users: some of the entries not yet listed.
ListPage(q, S) ==
    /\ dirJob[q].at = "page" /\ dirJob[q].page = [e \in Entry |-> NoRow]
    /\ S # {} /\ S \subseteq dirJob[q].rest
    /\ dirJob' = [dirJob EXCEPT ![q].rest = @ \ S,
            ![q].page = [e \in Entry |-> IF e \in S THEN directory[e] ELSE NoRow]]
    /\ Read

ImportNext(q, e) ==
    /\ dirJob[q].at = "page" /\ dirJob[q].page[e] # NoRow
    /\ dirJob' = [dirJob EXCEPT ![q].entry = e, ![q].at = "link"]
    /\ Read

\* record_sync.
FinishSync(q) ==
    /\ dirJob[q].at = "page" /\ dirJob[q].rest = {} /\ dirJob[q].page = [e \in Entry |-> NoRow]
    /\ EndDir(q, "success")
    /\ Read

\* authenticate_directory tries the enabled providers.
Tried == dirProvider.status = "enabled"

\* The directory accepts the password of exactly one entry.
Bind(q, e) ==
    /\ dirJob[q].at = "new" /\ "login" \in dirScene /\ Tried
    /\ dirJob' = [dirJob EXCEPT ![q] = [IdleDirJob(dirProvider) EXCEPT
                        !.kind = "login", !.at = "link", !.entry = e,
                        !.page = [f \in Entry |-> IF f = e THEN directory[e] ELSE NoRow]]]
    /\ Read

-----------------------------------------------------------------------------
\* import_user, for both: the link by external identifier.
FindLink(q) ==
    LET u == link[dirJob[q].entry] IN
    /\ dirJob[q].at = "link"
    /\ dirJob' = [dirJob EXCEPT ![q].account = u, ![q].at = IF u = NoEntry THEN "mail" ELSE "user"]
    /\ Read

WriteNext(q) == IF dirJob[q].kind = "login" THEN "commit" ELSE "write"

FindAccount(q) ==
    /\ dirJob[q].at = "user"
    /\ IF account[dirJob[q].account].status = "live" THEN DirAt(q, WriteNext(q))
       ELSE EndDir(q, "failed")
    /\ Read

\* Without a link, the account with the entry's address; a new one when there is none.
MayLinkAny(q, owners) == TRUE
MayLink(q, owners) == owners = {} \/ dirJob[q].settings.link

FindOwner(q) ==
    LET owners == Owners(Now(q).mail) IN
    /\ dirJob[q].at = "mail"
    /\ IF ~MayLink(q, owners) \/ (owners = {} /\ ~dirJob[q].settings.import)
       THEN EndDir(q, "failed")
       ELSE dirJob' = [dirJob EXCEPT ![q].at = WriteNext(q),
                ![q].account = IF owners = {} THEN NoEntry ELSE CHOOSE u \in owners : TRUE]
    /\ Read

\* The row the import writes: the one found, or one it inserts.
Target(q, u) ==
    IF dirJob[q].account # NoEntry THEN u = dirJob[q].account
    ELSE account[u].status = "unborn"

WriteAccount(q, u) ==
    /\ dirJob[q].at = "write" /\ Target(q, u)
    /\ IF MailFree(Now(q).mail, u)
       THEN /\ account' = IF account[u].status = "deleted" THEN account ELSE Applied(q, u)
            /\ dirJob' = [dirJob EXCEPT ![q].account = u, ![q].at = "store"]
       ELSE EndDir(q, "failed") /\ UNCHANGED account
    /\ UNCHANGED <<directory, dirProvider, link, group, member, linking, dirScene>>

\* upsert_link; UNIQUE (provider_id, user_id).
StoreLink(q) ==
    LET e == dirJob[q].entry  u == dirJob[q].account IN
    /\ dirJob[q].at = "store"
    /\ IF LinkFree(u, e)
       THEN link' = [link EXCEPT ![e] = u] /\ DirAt(q, IF Now(q).grouped THEN "group" ELSE "join")
       ELSE EndDir(q, "failed") /\ UNCHANGED link
    /\ UNCHANGED <<directory, dirProvider, account, group, member, linking, dirScene>>

\* sync_groups creates the group when a look-up finds none: another may have, meanwhile.
MakeGroup(q) ==
    /\ dirJob[q].at = "group"
    /\ \/ group' = TRUE /\ DirAt(q, "join")
       \/ group /\ EndDir(q, "failed") /\ UNCHANGED group
    /\ UNCHANGED <<directory, dirProvider, account, link, member, linking, dirScene>>

JoinGroup(q) ==
    /\ dirJob[q].at = "join"
    /\ member' = IF Now(q).grouped THEN member \cup {dirJob[q].account} ELSE member
    /\ dirJob' = [dirJob EXCEPT ![q].at = "page", ![q].account = NoEntry, ![q].entry = NoEntry,
                                ![q].page = [@ EXCEPT ![dirJob[q].entry] = NoRow]]
    /\ UNCHANGED <<directory, dirProvider, account, link, group, linking, dirScene>>

\* A sign-in's writes become visible together, or, when the account is disabled, a
\* constraint fails, or a later step of the sign-in does, not at all.
CommitLogin(q, u) ==
    LET e == dirJob[q].entry IN
    /\ dirJob[q].at = "commit" /\ Target(q, u)
    /\ Now(q).enabled /\ MailFree(Now(q).mail, u) /\ LinkFree(u, e)
    /\ account' = IF account[u].status = "deleted" THEN account ELSE Applied(q, u)
    /\ link' = [link EXCEPT ![e] = u]
    /\ group' = (group \/ Now(q).grouped)
    /\ member' = IF Now(q).grouped THEN member \cup {u} ELSE member
    /\ dirJob' = [dirJob EXCEPT ![q].account = u, ![q].at = "done", ![q].outcome = "admitted"]
    /\ UNCHANGED <<directory, dirProvider, linking, dirScene>>

\* The directory or a statement fails, or the handler is dropped.
FailDir(q) ==
    /\ dirJob[q].at \notin {"new", "done"}
    /\ EndDir(q, "failed")
    /\ Read

-----------------------------------------------------------------------------
\* The directory's administrators.
ChangeEntry(e, row) ==
    /\ "directory" \in dirScene /\ row # directory[e]
    /\ directory' = [directory EXCEPT ![e] = row]
    /\ UNCHANGED <<dirProvider, account, link, group, member, dirJob, linking, dirScene>>

\* user_federation::update and delete_provider.
ChangeProvider(settings) ==
    /\ "provider" \in dirScene /\ dirProvider.status # "deleted" /\ settings # dirProvider
    /\ dirProvider' = settings
    /\ linking' = (linking \/ settings.link)
    /\ UNCHANGED <<directory, account, link, group, member, dirJob, dirScene>>

\* Accounts made, moved to another address and deleted without the directory.
CreateAccount(u, mail) ==
    /\ "local" \in dirScene /\ account[u].status = "unborn" /\ MailFree(mail, u)
    /\ account' = [account EXCEPT ![u] = [status |-> "live", mail |-> mail, enabled |-> TRUE,
                                          origin |-> "local"]]
    /\ UNCHANGED <<directory, dirProvider, link, group, member, dirJob, linking, dirScene>>

MoveAccount(u, mail) ==
    /\ "local" \in dirScene /\ account[u].status = "live" /\ mail # account[u].mail
    /\ MailFree(mail, u)
    /\ account' = [account EXCEPT ![u].mail = mail]
    /\ UNCHANGED <<directory, dirProvider, link, group, member, dirJob, linking, dirScene>>

DeleteAccount(u) ==
    /\ "local" \in dirScene /\ account[u].status = "live"
    /\ account' = [account EXCEPT ![u].status = "deleted"]
    /\ UNCHANGED <<directory, dirProvider, link, group, member, dirJob, linking, dirScene>>

DirInit ==
    /\ directory \in [Entry -> EntryRow]
    /\ dirProvider \in [status : {"enabled"}, import : BOOLEAN, link : BOOLEAN]
    /\ account = [u \in Account |-> UnbornAccount]
    /\ link = [e \in Entry |-> NoEntry]
    /\ group = FALSE /\ member = {}
    /\ dirJob = [q \in DirJob |-> IdleDirJob(dirProvider)]
    /\ linking = dirProvider.link
    /\ dirScene \in DirScenes

DirNext ==
    \/ \E q \in DirJob :
          \/ StartSync(q) \/ FinishSync(q) \/ FindLink(q) \/ FindAccount(q) \/ FindOwner(q)
          \/ StoreLink(q) \/ MakeGroup(q) \/ JoinGroup(q) \/ FailDir(q)
          \/ \E S \in SUBSET Entry : ListPage(q, S)
          \/ \E e \in Entry : ImportNext(q, e) \/ Bind(q, e)
          \/ \E u \in Account : WriteAccount(q, u) \/ CommitLogin(q, u)
    \/ \E e \in Entry, row \in EntryRow : ChangeEntry(e, row)
    \/ \E settings \in ProviderSettings : ChangeProvider(settings)
    \/ \E u \in Account : DeleteAccount(u) \/ \E mail \in DirMail :
          CreateAccount(u, mail) \/ MoveAccount(u, mail)

DirSpec == DirInit /\ [][DirNext]_dirVars

-----------------------------------------------------------------------------
\* docs/user-federation.md: if a local account already owns an imported email, linking is
\* rejected, unless link_existing_users is set.  Imports that read an address and write an
\* account some statements later, beside each other and beside administrators who create,
\* move and delete accounts, never take over an account the directory did not make.
LocalAccountsKept ==
    ~linking => \A e \in Entry : link[e] # NoEntry => account[link[e]].origin = "directory"
=============================================================================
