------------------------------- MODULE SignIn --------------------------------
(***************************************************************************)
(* The sign-in of one user with a password and a second factor, beside the *)
(* handlers that enrol, replace and reset factors.                         *)
(*                                                                         *)
(* A sign-in (PasswordFlow::execute) is one transaction at READ COMMITTED: *)
(* its statements lock the authenticator, the ceremony and the recovery    *)
(* codes, and what it writes to them appears when it commits.  The other   *)
(* handlers commit statement by statement: FOR UPDATE makes them wait for  *)
(* the locks of a sign-in and holds nothing for the next statement.        *)
(***************************************************************************)
EXTENDS Naturals, FiniteSets

CONSTANTS
    MfaRequest,     \* HTTP requests
    Ceremony,       \* rows of mfa_ceremonies; an enrolment's row names its TOTP secret
    FirstSecret,    \* the secret of the authenticator the user starts with
    NoSecret,       \* no row in user_totp_credentials
    FirstBatch,     \* the recovery codes the user starts with
    NoMfa,          \* nobody, nothing
    MaxAttempts,    \* MAX_ATTEMPTS
    MaxTotpStep,    \* bound: the clock, in steps of 30 seconds
    MfaScenes       \* bound: the sets of kinds of requests that arrive together

MfaKinds == {"signin", "authenticator", "passkey", "codes", "reset"}

ASSUME MfaAssumption ==
    /\ FirstSecret \notin Ceremony /\ NoSecret \notin Ceremony \cup {FirstSecret}
    /\ FirstBatch \notin MfaRequest /\ NoMfa \notin MfaRequest \cup Ceremony \cup {FirstBatch}
    /\ MaxAttempts \in Nat \ {0} /\ MaxTotpStep \in Nat
    /\ MfaScenes \subseteq SUBSET MfaKinds

Secret == Ceremony \cup {FirstSecret}

\* A batch of recovery codes has the name of the request that wrote it, and is as good
\* as one of its codes: each code is used by itself.
Batch == MfaRequest \cup {FirstBatch}

\* The proof of a sign-in: none, a code of an authenticator for a step, a recovery code
\* or a passkey's signature.
Proof == {[with |-> "none"], [with |-> "passkey"]}
           \cup [with : {"totp"}, secret : Secret, step : 0 .. MaxTotpStep + 1]
           \cup [with : {"recovery"}, code : Batch]

Resource == {"totp", "codes"} \cup Ceremony

VARIABLES
    totp,       \* the authenticator: [secret, last], last = 1 + the step of last_used_at
    passkey,    \* whether the user has a passkey
    codes,      \* the unused recovery codes
    ceremony,   \* [Ceremony -> [status, purpose, attempts]]
    clock,      \* the time, in steps of 30 seconds
    holder,     \* [Resource -> the sign-in that holds the row lock]
    mfa,        \* each request
    mfaScene,   \* the kinds of requests that arrive
    redeemed,   \* ghost: [Batch -> how often a sign-in has used it]
    passed,     \* ghost: [Ceremony -> how many sign-ins it let through]
    accepted,   \* ghost: the authenticator codes accepted so far
    replayed,   \* ghost: those accepted again
    behind,     \* ghost: secrets with a code accepted that was ahead of the time stored for it
    saved,      \* ghost: [Secret -> how often it was enrolled]
    bare,       \* ghost: sign-ins that saw a moment without a second factor
    gained,     \* ghost: sign-ins during which an authenticator was enrolled
    superseded  \* ghost: batches a later replacement has been answered for

mfaGhosts == <<redeemed, passed, accepted, replayed, behind, saved, bare, gained, superseded>>
mfaData == <<totp, passkey, codes, ceremony>>
mfaVars == <<mfaData, clock, holder, mfa, mfaScene, mfaGhosts>>

Purposes == {"none", "login", "authenticator", "passkey"}
CeremonyRow == [status : {"unborn", "live", "used", "expired", "gone"}, purpose : Purposes,
                attempts : Nat, keys : BOOLEAN]
MfaPlaces == {"new", "factor", "keys", "verify", "proof", "pending", "fail", "save", "use",
              "count", "clear", "insert", "reset_keys", "reset_codes", "reset_ceremonies",
              "done"}
MfaJob == [at : MfaPlaces, kind : MfaKinds \cup {"none"}, proof : Proof,
           ceremony : Ceremony \cup {NoMfa}, began : 0 .. MaxTotpStep, had : BOOLEAN,
           won : BOOLEAN, older : SUBSET Batch, answer : {"none", "tokens", "other"}]

MfaTypeOK ==
    /\ totp \in [secret : Secret \cup {NoSecret}, last : 0 .. MaxTotpStep + 1]
    /\ passkey \in BOOLEAN
    /\ codes \subseteq Batch
    /\ ceremony \in [Ceremony -> CeremonyRow]
    /\ clock \in 0 .. MaxTotpStep
    /\ holder \in [Resource -> MfaRequest \cup {NoMfa}]
    /\ mfa \in [MfaRequest -> MfaJob]
    /\ mfaScene \in MfaScenes
    /\ redeemed \in [Batch -> Nat] /\ passed \in [Ceremony -> Nat]
    /\ accepted \subseteq Secret \X (0 .. MaxTotpStep + 1) /\ replayed \subseteq accepted
    /\ behind \subseteq Secret /\ saved \in [Secret -> Nat]
    /\ bare \subseteq MfaRequest /\ gained \subseteq MfaRequest /\ superseded \subseteq Batch

-----------------------------------------------------------------------------
Does(r, place) == mfa[r].at = place
Going(r, place) == mfa' = [mfa EXCEPT ![r].at = place]

Idle == [at |-> "new", kind |-> "none", proof |-> [with |-> "none"], ceremony |-> NoMfa,
         began |-> 0, had |-> FALSE, won |-> FALSE, older |-> {}, answer |-> "none"]

\* A request is answered: what it held in memory is gone.
Answered(r, answer) ==
    [mfa EXCEPT ![r] = [Idle EXCEPT !.at = "done", !.kind = mfa[r].kind, !.won = mfa[r].won,
                                    !.answer = answer]]

\* FOR UPDATE, UPDATE and DELETE wait for a transaction that holds the row.
Free(x, r) == holder[x] \in {NoMfa, r}
Lock(x, r) == holder' = [holder EXCEPT ![x] = r]
Unlocked(r) == [x \in Resource |-> IF holder[x] = r THEN NoMfa ELSE holder[x]]

HasTotp == totp.secret # NoSecret
Factors(t, k) == t.secret # NoSecret \/ k

\* What an action that changes the factors shows the sign-ins under way.
Watch ==
    bare' = IF Factors(totp', passkey') THEN bare
            ELSE bare \cup {r \in MfaRequest : mfa[r].kind = "signin" /\ ~Does(r, "done")}

Start(r, kind, place, proof, c) ==
    /\ Does(r, "new") /\ kind \in mfaScene
    /\ mfa' = [mfa EXCEPT ![r] =
                  [Idle EXCEPT !.at = place, !.kind = kind, !.proof = proof, !.ceremony = c,
                               !.began = IF kind = "signin" THEN clock ELSE 0,
                               !.older = IF kind = "signin" THEN {} ELSE codes]]
    /\ bare' = IF kind = "signin" /\ ~Factors(totp, passkey) THEN bare \cup {r} ELSE bare
    /\ UNCHANGED <<mfaData, clock, holder, mfaScene, redeemed, passed, accepted, replayed, behind,
                   saved, gained, superseded>>

\* valid_ceremony.
Valid(c, purpose) ==
    /\ ceremony[c].status = "live"
    /\ ceremony[c].purpose = purpose
    /\ ceremony[c].attempts < MaxAttempts

-----------------------------------------------------------------------------
(* A sign-in.  The password, the realm, the user and the client are good.  *)

\* The user has the codes of an authenticator once it is enrolled, and recovery codes once
\* they have been answered.
Known(p) ==
    /\ p.with = "totp" => p.secret \in {FirstSecret} \cup {s \in Secret : saved[s] > 0}
    /\ p.with = "recovery" => p.code \in {FirstBatch} \cup {q \in MfaRequest : Does(q, "done")}

SignInBegins(r) ==
    \E p \in Proof, c \in Ceremony \cup {NoMfa} :
        /\ Known(p)
        /\ p.with = "none" <=> c = NoMfa
        /\ Start(r, "signin", "factor", p, c)

After(r) == IF mfa[r].proof.with = "none" THEN "keys" ELSE "verify"

\* has_mfa: the authenticator is read and locked; without one the passkeys are read.
ReadTotp(r) ==
    /\ Does(r, "factor")
    /\ IF HasTotp
       THEN /\ Free("totp", r) /\ Lock("totp", r)
            /\ mfa' = [mfa EXCEPT ![r].at = After(r), ![r].had = TRUE]
       ELSE Going(r, "keys") /\ UNCHANGED holder
    /\ UNCHANGED <<mfaData, clock, mfaScene, mfaGhosts>>

\* Mutant: only an authenticator counts as a second factor.
ReadNoPasskeys(r) ==
    /\ Does(r, "keys") /\ ~mfa[r].had
    /\ Going(r, "pending")
    /\ UNCHANGED <<mfaData, clock, holder, mfaScene, mfaGhosts>>

ReadPasskeys(r) ==
    /\ Does(r, "keys") /\ ~mfa[r].had
    /\ mfa' = IF passkey
              THEN [mfa EXCEPT ![r].had = TRUE, ![r].at = After(r)]
              ELSE [mfa EXCEPT ![r].at = "pending"]
    /\ UNCHANGED <<mfaData, clock, holder, mfaScene, mfaGhosts>>

\* begin_login: without a proof a ceremony is stored and the transaction commits.
BeginLogin(r) ==
    /\ Does(r, "keys") /\ mfa[r].had
    /\ \E c \in Ceremony :
          /\ ceremony[c].status = "unborn"
          /\ ceremony' = [ceremony EXCEPT ![c] = [status |-> "live", purpose |-> "login",
                                                  attempts |-> 0, keys |-> passkey]]
    /\ mfa' = Answered(r, "other")
    /\ holder' = Unlocked(r)
    /\ UNCHANGED <<totp, passkey, codes, clock, mfaScene, mfaGhosts>>

\* Mutant: find_ceremony without FOR UPDATE.
OpenUnlocked(r) ==
    /\ Does(r, "verify")
    /\ Valid(mfa[r].ceremony, "login")
    /\ Going(r, "proof")
    /\ UNCHANGED <<mfaData, clock, holder, mfaScene, mfaGhosts>>

\* verify_login: the ceremony is read and locked; a bad one rolls the sign-in back.
OpenCeremony(r) ==
    LET c == mfa[r].ceremony IN
    /\ Does(r, "verify")
    /\ Free(c, r)
    /\ IF Valid(c, "login")
       THEN Lock(c, r) /\ Going(r, "proof")
       ELSE holder' = Unlocked(r) /\ mfa' = Answered(r, "other")
    /\ UNCHANGED <<mfaData, clock, mfaScene, mfaGhosts>>

\* Mutant: the code of the last step used is taken again.
TotpOfLastStep(p) ==
    /\ totp.secret = p.secret
    /\ p.step \in {clock, clock + 1} \/ p.step + 1 = clock
    /\ p.step + 1 >= totp.last

\* The code of the step before, the present or the next one, after the last one used.
GoodTotp(p) ==
    /\ totp.secret = p.secret
    /\ p.step \in {clock, clock + 1} \/ p.step + 1 = clock
    /\ p.step >= totp.last

\* Mutant: available_recovery_codes without FOR UPDATE.
NeedsTotp(p) == IF p.with = "totp" /\ HasTotp THEN {"totp"} ELSE {}

\* The statement that reads what the proof is checked against locks it.
Needs(p) == IF p.with = "totp" /\ HasTotp THEN {"totp"}
            ELSE IF p.with = "recovery" /\ codes # {} THEN {"codes"} ELSE {}

GoodProof(p, c) ==
    \/ p.with = "totp" /\ GoodTotp(p)
    \/ p.with = "recovery" /\ p.code \in codes
    \/ p.with = "passkey" /\ passkey /\ ceremony[c].keys

CheckProof(r) ==
    LET p == mfa[r].proof IN
    /\ Does(r, "proof")
    /\ \A x \in Needs(p) : Free(x, r)
    /\ IF GoodProof(p, mfa[r].ceremony)
       THEN /\ holder' = [x \in Resource |-> IF x \in Needs(p) THEN r ELSE holder[x]]
            /\ mfa' = [mfa EXCEPT ![r].at = "pending", ![r].won = TRUE]
            /\ UNCHANGED ceremony
       ELSE \* fail_ceremony, and COMMIT
            /\ ceremony' = [ceremony EXCEPT ![mfa[r].ceremony].attempts = @ + 1]
            /\ holder' = Unlocked(r)
            /\ mfa' = Answered(r, "other")
    /\ UNCHANGED <<totp, passkey, codes, clock, mfaScene, mfaGhosts>>

\* Mutant: touch_totp stores the step of the code, which may be ahead of the clock.
TouchedByCode(r) == [totp EXCEPT !.last = mfa[r].proof.step + 1]

\* touch_totp stores NOW(), the time at which the transaction began.
Touched(r) == [totp EXCEPT !.last = mfa[r].began + 1]

\* A required action remains, or tokens are issued: COMMIT.
CommitSignIn(r) ==
    LET p == mfa[r].proof
        c == mfa[r].ceremony
        by(kind) == mfa[r].won /\ p.with = kind
        code == <<p.secret, p.step>>
    IN
    /\ Does(r, "pending")
    /\ totp' = IF by("totp") THEN Touched(r) ELSE totp
    /\ codes' = IF by("recovery") THEN codes \ {p.code} ELSE codes
    /\ ceremony' = IF mfa[r].won THEN [ceremony EXCEPT ![c].status = "used"] ELSE ceremony
    /\ \E answer \in {"tokens", "other"} : mfa' = Answered(r, answer)
    /\ holder' = Unlocked(r)
    /\ redeemed' = IF by("recovery") THEN [redeemed EXCEPT ![p.code] = @ + 1] ELSE redeemed
    /\ passed' = IF mfa[r].won THEN [passed EXCEPT ![c] = @ + 1] ELSE passed
    /\ accepted' = IF by("totp") THEN accepted \cup {code} ELSE accepted
    /\ replayed' = IF by("totp") THEN replayed \cup ({code} \cap accepted) ELSE replayed
    /\ behind' = IF by("totp") /\ p.step > mfa[r].began THEN behind \cup {p.secret} ELSE behind
    /\ UNCHANGED <<passkey, clock, mfaScene, saved, bare, gained, superseded>>

-----------------------------------------------------------------------------
(* Enrolment, recovery codes and resets, statement by statement.           *)

\* totp_start_handler and webauthn_start_handler.
BeginEnrolment(c) ==
    /\ ceremony[c].status = "unborn"
    /\ \E purpose \in {"authenticator", "passkey"} \cap mfaScene :
          ceremony' = [ceremony EXCEPT ![c] = [status |-> "live", purpose |-> purpose,
                                               attempts |-> 0, keys |-> FALSE]]
    /\ UNCHANGED <<totp, passkey, codes, clock, holder, mfa, mfaScene, mfaGhosts>>

\* totp_finish_handler and webauthn_finish_handler: only a wrong code counts.
ReadEnrolment(r) ==
    \E c \in Ceremony, kind \in {"authenticator", "passkey"} :
        /\ Free(c, r) /\ Valid(c, kind)
        /\ \/ Start(r, kind, "save", [with |-> "none"], c)
           \/ kind = "authenticator" /\ Start(r, kind, "fail", [with |-> "none"], c)

FailEnrolment(r) ==
    /\ Does(r, "fail")
    /\ ceremony' = [ceremony EXCEPT ![mfa[r].ceremony].attempts = @ + 1]
    /\ mfa' = Answered(r, "other")
    /\ UNCHANGED <<totp, passkey, codes, clock, holder, mfaScene, mfaGhosts>>

\* save_totp or save_webauthn.
SaveFactor(r) ==
    LET c == mfa[r].ceremony IN
    /\ Does(r, "save")
    /\ \/ /\ mfa[r].kind = "authenticator" /\ Free("totp", r)
          /\ totp' = [secret |-> c, last |-> 0]
          /\ saved' = [saved EXCEPT ![c] = @ + 1]
          /\ gained' = gained \cup {q \in MfaRequest : mfa[q].kind = "signin"}
          /\ UNCHANGED passkey
       \/ /\ mfa[r].kind = "passkey"
          /\ passkey' = TRUE
          /\ UNCHANGED <<totp, saved, gained>>
    /\ Going(r, "use")
    /\ UNCHANGED <<codes, ceremony, clock, holder, mfaScene, redeemed, passed, accepted, replayed,
                   behind, bare, superseded>>

UseEnrolment(r) ==
    LET c == mfa[r].ceremony IN
    /\ Does(r, "use")
    /\ Free(c, r)
    /\ ceremony' = [ceremony EXCEPT ![c].status = IF @ = "gone" THEN @ ELSE "used"]
    /\ Going(r, IF mfa[r].kind = "authenticator" THEN "clear" ELSE "count")
    /\ UNCHANGED <<totp, passkey, codes, clock, holder, mfaScene, mfaGhosts>>

\* recovery_code_count: a passkey brings recovery codes only when there are none.
CountCodes(r) ==
    /\ Does(r, "count")
    /\ mfa' = IF codes = {} THEN [mfa EXCEPT ![r].at = "clear"] ELSE Answered(r, "other")
    /\ UNCHANGED <<mfaData, clock, holder, mfaScene, mfaGhosts>>

\* recovery_regenerate_handler.
Regenerate(r) ==
    /\ Factors(totp, passkey)
    /\ Free("totp", r)
    /\ Start(r, "codes", "clear", [with |-> "none"], NoMfa)

\* Mutant: a replacement leaves the older codes.
ClearNothing(r) ==
    /\ Does(r, "clear")
    /\ Going(r, "insert")
    /\ UNCHANGED <<mfaData, clock, holder, mfaScene, mfaGhosts>>

\* replace_recovery_codes: DELETE, then the INSERTs.
ClearCodes(r) ==
    /\ Does(r, "clear")
    /\ Free("codes", r)
    /\ codes' = {}
    /\ Going(r, "insert")
    /\ UNCHANGED <<totp, passkey, ceremony, clock, holder, mfaScene, mfaGhosts>>

InsertCodes(r) ==
    /\ Does(r, "insert")
    /\ codes' = codes \cup {r}
    /\ superseded' = superseded \cup mfa[r].older
    /\ mfa' = Answered(r, "other")
    /\ UNCHANGED <<totp, passkey, ceremony, clock, holder, mfaScene, redeemed, passed, accepted,
                   replayed, behind, saved, bare, gained>>

\* delete_totp_handler and delete_webauthn_handler; they ask for a session with MFA.
DeleteTotp ==
    /\ "codes" \in mfaScene
    /\ HasTotp /\ holder["totp"] = NoMfa
    /\ totp' = [secret |-> NoSecret, last |-> 0]
    /\ UNCHANGED <<passkey, codes, ceremony, clock, holder, mfa, mfaScene, redeemed, passed,
                   accepted, replayed, behind, saved, gained, superseded>>
    /\ Watch

DeletePasskey ==
    /\ mfaScene \cap {"codes", "passkey"} # {} /\ passkey
    /\ passkey' = FALSE
    /\ UNCHANGED <<totp, codes, ceremony, clock, holder, mfa, mfaScene, redeemed, passed, accepted,
                   replayed, behind, saved, gained, superseded>>
    /\ Watch

\* reset_user: four DELETEs.
ResetTotp(r) ==
    /\ Free("totp", r)
    /\ Does(r, "new") /\ "reset" \in mfaScene
    /\ totp' = [secret |-> NoSecret, last |-> 0]
    /\ mfa' = [mfa EXCEPT ![r] = [@ EXCEPT !.at = "reset_keys", !.kind = "reset"]]
    /\ UNCHANGED <<passkey, codes, ceremony, clock, holder, mfaScene, redeemed, passed, accepted,
                   replayed, behind, saved, gained, superseded>>
    /\ Watch

ResetPasskeys(r) ==
    /\ Does(r, "reset_keys")
    /\ passkey' = FALSE
    /\ Going(r, "reset_codes")
    /\ UNCHANGED <<totp, codes, ceremony, clock, holder, mfaScene, redeemed, passed, accepted,
                   replayed, behind, saved, gained, superseded>>
    /\ Watch

ResetCodes(r) ==
    /\ Does(r, "reset_codes")
    /\ Free("codes", r)
    /\ codes' = {}
    /\ Going(r, "reset_ceremonies")
    /\ UNCHANGED <<totp, passkey, ceremony, clock, holder, mfaScene, mfaGhosts>>

ResetCeremonies(r) ==
    /\ Does(r, "reset_ceremonies")
    /\ \A c \in Ceremony : Free(c, r)
    /\ ceremony' = [c \in Ceremony |-> IF ceremony[c].status = "unborn" THEN ceremony[c]
                                       ELSE [ceremony[c] EXCEPT !.status = "gone"]]
    /\ mfa' = Answered(r, "other")
    /\ UNCHANGED <<totp, passkey, codes, clock, holder, mfaScene, mfaGhosts>>

-----------------------------------------------------------------------------
(* Time and failure.                                                       *)

TotpTick ==
    /\ clock < MaxTotpStep
    /\ clock' = clock + 1
    /\ UNCHANGED <<mfaData, holder, mfa, mfaScene, mfaGhosts>>

ExpireCeremony(c) ==
    /\ ceremony[c].status = "live" /\ holder[c] = NoMfa
    /\ ceremony' = [ceremony EXCEPT ![c].status = "expired"]
    /\ UNCHANGED <<totp, passkey, codes, clock, holder, mfa, mfaScene, mfaGhosts>>

\* A statement fails or the instance is lost: a sign-in is rolled back, another handler
\* keeps what it has committed.
LoseMfa(r) ==
    /\ ~Does(r, "new") /\ ~Does(r, "done")
    /\ holder' = Unlocked(r)
    /\ mfa' = Answered(r, "other")
    /\ UNCHANGED <<mfaData, clock, mfaScene, mfaGhosts>>

-----------------------------------------------------------------------------
\* A user with an authenticator or a passkey, recovery codes, and two sign-ins whose
\* ceremony has been answered to the browser.
SignInInit ==
    /\ \/ totp = [secret |-> FirstSecret, last |-> 0] /\ passkey = FALSE
       \/ totp = [secret |-> NoSecret, last |-> 0] /\ passkey = TRUE
    /\ codes = {FirstBatch}
    /\ mfaScene \in MfaScenes
    /\ \E open \in SUBSET Ceremony :
          ceremony = [c \in Ceremony |->
                        IF c \in open
                        THEN [status |-> "live", purpose |-> "login", attempts |-> 0,
                              keys |-> passkey]
                        ELSE [status |-> "unborn", purpose |-> "none", attempts |-> 0,
                              keys |-> FALSE]]
    /\ clock = 0
    /\ holder = [x \in Resource |-> NoMfa]
    /\ mfa = [r \in MfaRequest |-> Idle]
    /\ redeemed = [b \in Batch |-> 0] /\ passed = [c \in Ceremony |-> 0]
    /\ accepted = {} /\ replayed = {} /\ behind = {}
    /\ saved = [s \in Secret |-> 0]
    /\ bare = {} /\ gained = {} /\ superseded = {}

SignInStep(r) ==
    \/ SignInBegins(r) \/ ReadTotp(r) \/ ReadPasskeys(r) \/ BeginLogin(r) \/ OpenCeremony(r)
    \/ CheckProof(r) \/ CommitSignIn(r)
    \/ ReadEnrolment(r) \/ FailEnrolment(r) \/ SaveFactor(r) \/ UseEnrolment(r) \/ CountCodes(r)
    \/ Regenerate(r) \/ ClearCodes(r) \/ InsertCodes(r)
    \/ ResetTotp(r) \/ ResetPasskeys(r) \/ ResetCodes(r) \/ ResetCeremonies(r)
    \/ LoseMfa(r)

SignInNext ==
    \/ \E r \in MfaRequest : SignInStep(r)
    \/ \E c \in Ceremony : BeginEnrolment(c) \/ ExpireCeremony(c)
    \/ DeleteTotp \/ DeletePasskey \/ TotpTick

SignInSpec == SignInInit /\ [][SignInNext]_mfaVars

-----------------------------------------------------------------------------
(* Properties.                                                             *)

\* A recovery code lets one sign-in through, however sign-ins with it race.
RecoveryCodeOnce == \A b \in Batch : redeemed[b] <= 1

\* "Replacing recovery codes invalidates the older ones": a code answered before a
\* replacement began is not accepted once the replacement has been answered, although
\* two replacements that overlap leave both their sets alive.
SupersededCodesDead ==
    [][\A b \in superseded : redeemed'[b] = redeemed[b]]_mfaVars

\* A ceremony of a sign-in lets one sign-in through, and takes at most MAX_ATTEMPTS
\* wrong proofs, in whatever order sign-ins that share it run.
LoginCeremonyHolds ==
    \A c \in Ceremony : ceremony[c].purpose = "login" =>
        passed[c] <= 1 /\ ceremony[c].attempts <= MaxAttempts

\* An authenticator code is accepted again only if a code was accepted that lay ahead of
\* the time stored for it, or the enrolment of its secret was finished twice.
AuthenticatorCodeOnce ==
    \A code \in replayed : code[1] \in behind \/ saved[code[1]] > 1

\* Tokens without a second factor: at some moment since the sign-in began the user had
\* none, or gained an authenticator between the two statements that look for one.
SecondFactorAsked ==
    \A r \in MfaRequest :
        mfa[r].kind = "signin" /\ mfa[r].answer = "tokens" /\ ~mfa[r].won
            => r \in bare \cup gained
=============================================================================
