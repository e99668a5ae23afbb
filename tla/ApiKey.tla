-------------------------------- MODULE ApiKey --------------------------------
(***************************************************************************)
(* API keys of the administration API: a key is created, authenticates     *)
(* requests, is rotated (a successor is minted and the old key stays valid *)
(* for a grace period) and is revoked.                                     *)
(*                                                                         *)
(* No handler opens a transaction: each statement commits alone, and a     *)
(* failure between two of them leaves the first one done.  Time is the age *)
(* of the two timestamps the code compares with the clock.                 *)
(***************************************************************************)
EXTENDS Naturals, FiniteSets

CONSTANTS
    Key,            \* rows of api_keys
    KeyRequest,     \* requests: authentications, revocations, rotations
    NoKey           \* no row

ASSUME KeyAssumption == NoKey \notin Key

VARIABLES
    key,            \* [Key -> row]
    keyJob,         \* [KeyRequest -> request]
    wasGood         \* ghost: requests during which their key was good at some instant

keyVars == <<key, keyJob, wasGood>>

KeyAge == {"never", "ahead", "past"}
KeyRow == [born : BOOLEAN, revoked : BOOLEAN,
           expires : KeyAge,        \* no expiry, in the future, passed
           grace : KeyAge]          \* never rotated, within the grace period, after it
KeyJob == [op : {"verify", "revoke", "rotate"},
           at : {"new", "find", "check", "update", "generate", "done"},
           key : Key \cup {NoKey}, grace : KeyAge, answer : {"none", "ok", "error"}]

KeyTypeOK ==
    /\ key \in [Key -> KeyRow]
    /\ keyJob \in [KeyRequest -> KeyJob]
    /\ wasGood \subseteq KeyRequest

UnbornKey == [born |-> FALSE, revoked |-> FALSE, expires |-> "never", grace |-> "never"]
IdleKeyJob == [op |-> "verify", at |-> "new", key |-> NoKey, grace |-> "never",
               answer |-> "none"]

-----------------------------------------------------------------------------
\* Ghost bookkeeping: the requests on good keys, whatever step has just been taken.
IsGood(k) == ~key'[k].revoked /\ key'[k].expires # "past" /\ key'[k].grace # "past"
NoteGoodKeys ==
    wasGood' = wasGood \cup {q \in KeyRequest : keyJob'[q].at # "new" /\ keyJob'[q].answer = "none"
                                                /\ IsGood(keyJob'[q].key)}

EndKeyJob(q, answer) ==
    keyJob' = [keyJob EXCEPT ![q] = [IdleKeyJob EXCEPT !.op = keyJob[q].op, !.at = "done",
                                                       !.answer = answer]]

\* generate_key: a fresh secret and prefix, unrevoked and unrotated.
Mint(k, expires) ==
    /\ ~key[k].born
    /\ key' = [key EXCEPT ![k] = [born |-> TRUE, revoked |-> FALSE, expires |-> expires,
                                  grace |-> "never"]]

CreateKey(k) ==
    /\ \E expires \in {"never", "ahead"} : Mint(k, expires)
    /\ UNCHANGED keyJob
    /\ NoteGoodKeys

\* A request names a key: by its raw value, or by its id for an administrator.
Arrive(q) ==
    /\ keyJob[q].at = "new"
    /\ \E k \in Key, op \in {"verify", "revoke", "rotate"} :
          /\ key[k].born
          /\ keyJob' = [keyJob EXCEPT ![q].op = op, ![q].key = k,
                          ![q].at = IF op = "verify" THEN "find" ELSE "update"]
    /\ UNCHANGED key
    /\ NoteGoodKeys

\* Mutant: find_by_prefix without NOT revoked.
FoundRevokedToo(k) == key[k].expires # "past"

\* find_by_prefix: NOT revoked AND not expired.
FoundByPrefix(k) == ~key[k].revoked /\ key[k].expires # "past"

FindKey(q) ==
    LET k == keyJob[q].key IN
    /\ keyJob[q].at = "find"
    /\ IF FoundByPrefix(k)
       THEN keyJob' = [keyJob EXCEPT ![q].at = "check", ![q].grace = key[k].grace]
       ELSE EndKeyJob(q, "error")
    /\ UNCHANGED key
    /\ NoteGoodKeys

\* verify_key, after the read: the expiry and the grace of the row as it was read, against
\* a clock that has gone on; the hash matches, the usage is counted.
CheckKey(q) ==
    LET k == keyJob[q].key IN
    /\ keyJob[q].at = "check"
    /\ EndKeyJob(q, IF key[k].expires # "past" /\ keyJob[q].grace # "past"
                    THEN "ok" ELSE "error")
    /\ UNCHANGED key
    /\ NoteGoodKeys

\* DELETE /api/keys/{id}.
RevokeKey(q) ==
    /\ keyJob[q].at = "update" /\ keyJob[q].op = "revoke"
    /\ key' = [key EXCEPT ![keyJob[q].key].revoked = TRUE]
    /\ EndKeyJob(q, "ok")
    /\ NoteGoodKeys

\* rotate_key, first statement: rotated_at = NOW() whatever the row holds, so a key that
\* is past its grace period is good again, and one that is revoked gets a successor.
MarkRotated(q) ==
    /\ keyJob[q].at = "update" /\ keyJob[q].op = "rotate"
    /\ key' = [key EXCEPT ![keyJob[q].key].grace = "ahead"]
    /\ keyJob' = [keyJob EXCEPT ![q].at = "generate"]
    /\ NoteGoodKeys

\* Second statement: the successor, which never expires.
GenerateSuccessor(q) ==
    /\ keyJob[q].at = "generate"
    /\ \E k \in Key : Mint(k, "never")
    /\ EndKeyJob(q, "ok")
    /\ NoteGoodKeys

\* A statement fails: what has been committed stays.
KeyRequestFails(q) ==
    /\ keyJob[q].at \in {"find", "check", "update", "generate"}
    /\ EndKeyJob(q, "error")
    /\ UNCHANGED key
    /\ NoteGoodKeys

\* The clock: an expiry or a grace period ends; a row read earlier ages with it.
ExpireKey(k) ==
    /\ key[k].expires = "ahead"
    /\ key' = [key EXCEPT ![k].expires = "past"]
    /\ UNCHANGED keyJob
    /\ NoteGoodKeys

GraceEnds(k) ==
    /\ key[k].grace = "ahead"
    /\ key' = [key EXCEPT ![k].grace = "past"]
    /\ keyJob' = [q \in KeyRequest |->
                    IF keyJob[q].key = k /\ keyJob[q].grace = "ahead"
                    THEN [keyJob[q] EXCEPT !.grace = "past"] ELSE keyJob[q]]
    /\ NoteGoodKeys

-----------------------------------------------------------------------------
KeyInit ==
    /\ key = [k \in Key |-> UnbornKey]
    /\ keyJob = [q \in KeyRequest |-> IdleKeyJob]
    /\ wasGood = {}

KeyNext ==
    \/ \E k \in Key : CreateKey(k) \/ ExpireKey(k) \/ GraceEnds(k)
    \/ \E q \in KeyRequest :
          Arrive(q) \/ FindKey(q) \/ CheckKey(q) \/ RevokeKey(q) \/ MarkRotated(q)
            \/ GenerateSuccessor(q) \/ KeyRequestFails(q)

KeySpec == KeyInit /\ [][KeyNext]_keyVars

-----------------------------------------------------------------------------
(* Properties.                                                             *)

\* A request is authenticated only by a key that was unrevoked, unexpired and within its
\* grace period at one and the same instant of the request, although the row is read
\* before the clock, and revocations and rotations overlap it.
KeyUseWasGood ==
    \A q \in KeyRequest :
        keyJob[q].op = "verify" /\ keyJob[q].answer = "ok" => q \in wasGood
=============================================================================
