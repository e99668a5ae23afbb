------------------------------- MODULE RealmKeys -------------------------------
(***************************************************************************)
(* Realms, their signing keys, and the secrets of their identity           *)
(* providers.  Secrets are stored encrypted; rows written before that was  *)
(* so hold them as they are, and a maintenance call encrypts what it       *)
(* cannot decrypt.  No handler here uses a transaction: every statement    *)
(* commits on its own.  The server keeps, for good, one token service per  *)
(* realm, made from the realm's keys or, when it reads none, from its own. *)
(***************************************************************************)
EXTENDS Integers, FiniteSets

CONSTANTS
    Realm,          \* rows of realms
    Provider,       \* rows of identity_providers
    Secret,         \* what administrators enter as a client secret
    Empty,          \* the secret of a provider created without one
    KeyPair,        \* the private keys of a realm
    RealmRequest,   \* requests; each is handled once
    NoRealm,        \* nothing
    RealmScenes     \* the kinds of requests that arrive together

ASSUME RealmAssumption ==
    Empty \in Secret /\ KeyPair \notin Secret /\ NoRealm \notin Realm \cup Provider

VARIABLES
    realm,        \* rows of realms
    keys,         \* rows of realm_signing_keys
    provider,     \* rows of identity_providers
    service,      \* realm_token_services: whose keys sign for each realm
    realmJob,     \* where each request is and what it has read
    entered,      \* history: the secrets entered for each provider
    realmScene    \* the kinds of requests of this behaviour

realmVars == <<realm, keys, provider, service, realmJob, entered, realmScene>>

RealmKinds == {"create", "settings", "policy", "delete", "ask", "provider", "reencrypt"}
Signers == {"none", "own", "global"}

\* A stored value: encrypted "layers" times.
Cipher == [plain : Secret \cup {KeyPair}, layers : 0 .. 2]
NoCipher == [plain |-> Empty, layers |-> 0]
RealmRow == [status : {"unborn", "live", "deleted"}, enabled : BOOLEAN, policy : 0 .. 1]
ProviderRow == [status : {"unborn", "live", "deleted"}, enabled : BOOLEAN, secret : Cipher]
RealmWork == [kind : RealmKinds \cup {"none"}, at : {"new", "keys", "write", "realm", "cache",
                                                     "secrets", "pairs", "done"},
              realm : Realm \cup {NoRealm}, row : RealmRow,
              provider : Provider \cup {NoRealm}, changed : ProviderRow, found : Signers,
              secrets : SUBSET (Provider \X Cipher), pairs : SUBSET (Realm \X Cipher)]

RealmTypeOK ==
    /\ realm \in [Realm -> RealmRow]
    /\ \A r \in Realm : keys[r] \subseteq Cipher /\ Cardinality(keys[r]) <= 1
    /\ provider \in [Provider -> ProviderRow]
    /\ service \in [Realm -> Signers]
    /\ realmJob \in [RealmRequest -> RealmWork]
    /\ entered \in [Provider -> SUBSET Secret]
    /\ realmScene \in RealmScenes

-----------------------------------------------------------------------------
UnbornRealm == [status |-> "unborn", enabled |-> FALSE, policy |-> 0]
UnbornProvider == [status |-> "unborn", enabled |-> FALSE, secret |-> NoCipher]
IdleRealmJob == [kind |-> "none", at |-> "new", realm |-> NoRealm, row |-> UnbornRealm,
                 provider |-> NoRealm, changed |-> UnbornProvider, found |-> "none",
                 secrets |-> {}, pairs |-> {}]

\* encrypt_sensitive_value and decrypt_sensitive_value: a ciphertext of nothing is too
\* short to be taken for one.
Encrypt(v) == [v EXCEPT !.layers = @ + 1]
Decrypts(v) == v.layers >= 1 /\ ~(v.layers = 1 /\ v.plain = Empty)
Sealed(plain) == Encrypt([plain |-> plain, layers |-> 0])

RealmAt(q, place) == realmJob' = [realmJob EXCEPT ![q].at = place]
StartRealm(q, kind) == realmJob[q].at = "new" /\ kind \in realmScene
Stores == <<realm, keys, provider, service, entered, realmScene>>

-----------------------------------------------------------------------------
\* realms::create: the name is free; the row is stored, then the keys.
CreateRealm(q, r) ==
    /\ StartRealm(q, "create") /\ realm[r].status = "unborn"
    /\ \E e \in BOOLEAN :
          realm' = [realm EXCEPT ![r] = [status |-> "live", enabled |-> e, policy |-> 0]]
    /\ realmJob' = [realmJob EXCEPT ![q].kind = "create", ![q].realm = r, ![q].at = "keys"]
    /\ UNCHANGED <<keys, provider, service, entered, realmScene>>

StoreKeys(q) ==
    LET r == realmJob[q].realm IN
    /\ realmJob[q].at = "keys"
    /\ keys' = [keys EXCEPT ![r] = {Sealed(KeyPair)}]
    /\ RealmAt(q, "done")
    /\ UNCHANGED <<realm, provider, service, entered, realmScene>>

\* The row is read, changed in memory, and written whole.
ReadRealm(q, r, kind, row) ==
    /\ StartRealm(q, kind) /\ realm[r].status = "live"
    /\ realmJob' = [realmJob EXCEPT ![q].kind = kind, ![q].realm = r, ![q].row = row,
                                    ![q].at = "write"]
    /\ UNCHANGED Stores

\* realms::update.
EditSettings(q, r) ==
    \E e \in BOOLEAN : ReadRealm(q, r, "settings", [realm[r] EXCEPT !.enabled = e])

\* update_password_policy.
EditPolicy(q, r) == ReadRealm(q, r, "policy", [realm[r] EXCEPT !.policy = 1 - @])

WriteRealm(q) ==
    LET r == realmJob[q].realm IN
    /\ realmJob[q].at = "write" /\ realmJob[q].kind \in {"settings", "policy"}
    /\ realm' = IF realm[r].status = "live" THEN [realm EXCEPT ![r] = realmJob[q].row] ELSE realm
    /\ RealmAt(q, "done")
    /\ UNCHANGED <<keys, provider, service, entered, realmScene>>

\* realms::delete: the keys go first; when that fails the realm is deleted all the same.
DeleteKeys(q, r) ==
    /\ StartRealm(q, "delete") /\ realm[r].status # "unborn"
    /\ \/ keys' = [keys EXCEPT ![r] = {}]
       \/ UNCHANGED keys
    /\ realmJob' = [realmJob EXCEPT ![q].kind = "delete", ![q].realm = r, ![q].at = "realm"]
    /\ UNCHANGED <<realm, provider, service, entered, realmScene>>

DeleteRealm(q) ==
    /\ realmJob[q].at = "realm"
    /\ realm' = [realm EXCEPT ![realmJob[q].realm].status = "deleted"]
    /\ RealmAt(q, "done")
    /\ UNCHANGED <<keys, provider, service, entered, realmScene>>

\* token_service_for_realm_with_issuer, on a miss.  No row and a failed read are one case;
\* keys that do not decrypt are an error, and nothing is cached.
AskService(q, r) ==
    /\ StartRealm(q, "ask") /\ realm[r].status # "unborn" /\ service[r] = "none"
    /\ \E found \in Signers :
          /\ found = "own" => \E k \in keys[r] : Decrypts(k)
          /\ found = "none" => \E k \in keys[r] : ~Decrypts(k)
          /\ realmJob' = [realmJob EXCEPT ![q].kind = "ask", ![q].realm = r, ![q].found = found,
                    ![q].at = IF found = "none" THEN "done" ELSE "cache"]
    /\ UNCHANGED Stores

CacheService(q) ==
    /\ realmJob[q].at = "cache"
    /\ service' = [service EXCEPT ![realmJob[q].realm] = realmJob[q].found]
    /\ RealmAt(q, "done")
    /\ UNCHANGED <<realm, keys, provider, entered, realmScene>>

-----------------------------------------------------------------------------
\* create_identity_provider encrypts the secret, or the empty one.
CreateProvider(p, s) ==
    /\ "provider" \in realmScene /\ provider[p].status = "unborn"
    /\ provider' = [provider EXCEPT ![p] = [status |-> "live", enabled |-> TRUE, secret |-> Sealed(s)]]
    /\ entered' = [entered EXCEPT ![p] = {s}]
    /\ UNCHANGED <<realm, keys, service, realmJob, realmScene>>

\* update_identity_provider: read, change, write whole; without a new secret the stored
\* one is written back.
ReadProvider(q, p) ==
    /\ StartRealm(q, "provider") /\ provider[p].status = "live"
    /\ \E e \in BOOLEAN, new \in {provider[p].secret} \cup {Sealed(s) : s \in Secret} :
          realmJob' = [realmJob EXCEPT ![q].kind = "provider", ![q].provider = p, ![q].at = "write",
                ![q].changed = [status |-> "live", enabled |-> e, secret |-> new]]
    /\ UNCHANGED Stores

WriteProvider(q) ==
    LET p == realmJob[q].provider IN
    /\ realmJob[q].at = "write" /\ realmJob[q].kind = "provider"
    /\ IF provider[p].status = "live"
       THEN /\ provider' = [provider EXCEPT ![p] = realmJob[q].changed]
            /\ entered' = [entered EXCEPT ![p] = @ \cup {realmJob[q].changed.secret.plain}]
       ELSE UNCHANGED <<provider, entered>>
    /\ RealmAt(q, "done")
    /\ UNCHANGED <<realm, keys, service, realmScene>>

DeleteProvider(p) ==
    /\ "provider" \in realmScene /\ provider[p].status = "live"
    /\ provider' = [provider EXCEPT ![p].status = "deleted"]
    /\ UNCHANGED <<realm, keys, service, realmJob, entered, realmScene>>

-----------------------------------------------------------------------------
\* reencrypt_legacy_secrets lists the providers, writes them one by one, lists the keys,
\* and writes those.  A row that fails is skipped.
LegacyUnchecked(rows) == rows
Legacy(rows) == {x \in rows : ~Decrypts(x[2])}

ListSecrets(q) ==
    /\ StartRealm(q, "reencrypt")
    /\ realmJob' = [realmJob EXCEPT ![q].kind = "reencrypt", ![q].at = "secrets",
            ![q].secrets = Legacy({<<p, provider[p].secret>> :
                                p \in {x \in Provider : provider[x].status = "live"}})]
    /\ UNCHANGED Stores

\* The update names the row alone: also one deleted or given a new secret meanwhile.
ReencryptSecret(q) ==
    /\ realmJob[q].at = "secrets"
    /\ \E x \in realmJob[q].secrets :
          /\ provider' = [provider EXCEPT ![x[1]].secret = Encrypt(x[2])]
          /\ realmJob' = [realmJob EXCEPT ![q].secrets = @ \ {x}]
    /\ UNCHANGED <<realm, keys, service, entered, realmScene>>

ListKeys(q) ==
    /\ realmJob[q].at = "secrets" /\ realmJob[q].secrets = {}
    /\ realmJob' = [realmJob EXCEPT ![q].at = "pairs",
            ![q].pairs = Legacy(UNION {{r} \X keys[r] : r \in Realm})]
    /\ UNCHANGED Stores

ReencryptKeys(q) ==
    /\ realmJob[q].at = "pairs"
    /\ \E x \in realmJob[q].pairs :
          /\ keys' = IF keys[x[1]] = {} THEN keys ELSE [keys EXCEPT ![x[1]] = {Encrypt(x[2])}]
          /\ realmJob' = [realmJob EXCEPT ![q].pairs = @ \ {x}]
    /\ UNCHANGED <<realm, provider, service, entered, realmScene>>

\* The rows are done; or a statement fails; or the handler is dropped.
EndRealmJob(q) ==
    /\ realmJob[q].at \notin {"new", "done"}
    /\ realmJob' = [realmJob EXCEPT ![q].at = "done", ![q].secrets = {}, ![q].pairs = {}]
    /\ UNCHANGED Stores

-----------------------------------------------------------------------------
\* Rows of the time before encryption hold their secrets as they are.
RealmInit ==
    /\ realm \in [Realm -> {UnbornRealm, [status |-> "live", enabled |-> TRUE, policy |-> 0]}]
    /\ keys \in [Realm -> {{}, {[plain |-> KeyPair, layers |-> 0]}, {Sealed(KeyPair)}}]
    /\ \A r \in Realm : realm[r].status = "unborn" => keys[r] = {}
    /\ provider \in [Provider -> {UnbornProvider} \cup
            [status : {"live"}, enabled : {TRUE}, secret : [plain : Secret, layers : 0 .. 1]]]
    /\ entered = [p \in Provider |->
            IF provider[p].status = "live" THEN {provider[p].secret.plain} ELSE {}]
    /\ service = [r \in Realm |-> "none"]
    /\ realmJob = [q \in RealmRequest |-> IdleRealmJob]
    /\ realmScene \in RealmScenes

RealmNext ==
    \/ \E q \in RealmRequest :
          \/ StoreKeys(q) \/ WriteRealm(q) \/ DeleteRealm(q) \/ CacheService(q)
          \/ WriteProvider(q) \/ EndRealmJob(q)
          \/ ListSecrets(q) \/ ReencryptSecret(q) \/ ListKeys(q) \/ ReencryptKeys(q)
          \/ \E r \in Realm :
                \/ CreateRealm(q, r) \/ EditSettings(q, r) \/ EditPolicy(q, r)
                \/ DeleteKeys(q, r) \/ AskService(q, r)
          \/ \E p \in Provider : ReadProvider(q, p)
    \/ \E p \in Provider : DeleteProvider(p) \/ \E s \in Secret : CreateProvider(p, s)

RealmSpec == RealmInit /\ [][RealmNext]_realmVars

-----------------------------------------------------------------------------
\* Encryption in place, run twice, at once, or cut off between two rows, against
\* administrators who change the same rows, wraps no secret twice: what decrypts a stored
\* secret yields one that was entered, and a realm's keys stay the realm's keys.  (Of the
\* empty secret this is not so: its ciphertext is taken for a secret of the time before.)
SecretsReadable ==
    /\ \A p \in Provider :
          provider[p].secret.plain # Empty =>
              provider[p].secret.layers <= 1 /\ provider[p].secret.plain \in entered[p]
    /\ \A r \in Realm : \A k \in keys[r] : k.plain = KeyPair /\ k.layers <= 1
=============================================================================
