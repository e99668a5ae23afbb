----------------------------- MODULE SignInProofs -----------------------------
(***************************************************************************)
(* Theorems about the sign-in and its second factor: recovery codes,       *)
(* authenticators, passkeys and the ceremonies that try them, for any      *)
(* number of ceremonies and of requests.                                   *)
(***************************************************************************)
EXTENDS MCServices, FiniteSetTheorems, TLAPS

-----------------------------------------------------------------------------
(* SignIn.                                                                 *)

SignInPlaces == {"factor", "keys", "verify", "proof", "pending"}

\* The fields of a request at its place.
PlaceTrue(r) ==
    /\ mfa[r].at # "done" => mfa[r].answer = "none"
    /\ mfa[r].at = "new" => mfa[r].kind = "none"
    /\ mfa[r].at \in SignInPlaces =>
          /\ mfa[r].kind = "signin"
          /\ mfa[r].proof.with # "none" => mfa[r].ceremony \in Ceremony
    /\ mfa[r].at \in {"verify", "proof"} => mfa[r].proof.with # "none"
    /\ mfa[r].won => mfa[r].at \in {"pending", "done"}
    /\ mfa[r].at = "pending" /\ mfa[r].won => mfa[r].proof.with # "none"

\* The ceremony that a sign-in has read is locked by it and stays as it was; that of an
\* enrolment keeps its purpose.
CeremonyTrue(r) ==
    LET c == mfa[r].ceremony IN
    /\ mfa[r].at = "proof" \/ (mfa[r].at = "pending" /\ mfa[r].won) =>
          /\ holder[c] = r /\ ceremony[c].status = "live" /\ ceremony[c].purpose = "login"
          /\ mfa[r].at = "proof" => ceremony[c].attempts < MaxAttempts
    /\ mfa[r].at \in {"fail", "save", "use"} =>
          /\ c \in Ceremony /\ ceremony[c].status # "unborn"
          /\ mfa[r].kind \in {"authenticator", "passkey"} /\ ceremony[c].purpose = mfa[r].kind

\* A ceremony that let a sign-in through is over.
PassedTrue(c) ==
    /\ passed[c] # 0 => passed[c] = 1 /\ ceremony[c].status \notin {"unborn", "live"}
    /\ ceremony[c].purpose = "login" => ceremony[c].attempts <= MaxAttempts

\* Won(r, kind): the sign-in r will commit with a proof of that kind.
Won(r, kind) == mfa[r].at = "pending" /\ mfa[r].won /\ mfa[r].proof.with = kind

\* Batches that were written.
WrittenBatch == {b \in Batch : b \in MfaRequest => mfa[b].at = "done"}

\* A code that is there has not been used, and a sign-in that will use one has locked it.
CodesTrue(r) ==
    /\ Won(r, "recovery") => holder["codes"] = r /\ mfa[r].proof.code \in codes
    /\ mfa[r].at = "insert" => mfa[r].older \cap codes = {}
    /\ mfa[r].older \subseteq WrittenBatch

RecoveryInv ==
    /\ codes \subseteq WrittenBatch /\ superseded \subseteq WrittenBatch
    /\ superseded \cap codes = {}
    /\ \A b \in Batch : /\ redeemed[b] <= 1
                        /\ b \in codes \/ b \notin WrittenBatch => redeemed[b] = 0
    /\ \A r \in MfaRequest : CodesTrue(r)

\* An authenticator code that was accepted is before the time stored with its secret, or
\* one of the exceptions holds.
TotpInv ==
    /\ totp.secret \in Ceremony => saved[totp.secret] >= 1
    /\ saved[FirstSecret] = 0
    /\ \A k \in accepted :
          /\ k[1] \in Ceremony => saved[k[1]] >= 1
          /\ \/ k[1] \in behind \/ saved[k[1]] > 1
             \/ totp.secret # k[1] \/ k[2] < totp.last
    /\ \A r \in MfaRequest : Won(r, "totp") =>
          /\ holder["totp"] = r /\ totp.secret = mfa[r].proof.secret
          /\ mfa[r].proof.step >= totp.last
    /\ AuthenticatorCodeOnce

\* What a sign-in has seen of the factors is recorded.
FactorTrue(r) ==
    /\ mfa[r].kind = "signin" /\ mfa[r].at # "done" /\ ~Factors(totp, passkey) => r \in bare
    /\ mfa[r].at = "keys" /\ ~mfa[r].had => ~HasTotp \/ r \in gained
    /\ mfa[r].at = "pending" /\ ~mfa[r].won => r \in bare \cup gained

PlacesInv == MfaTypeOK /\ \A r \in MfaRequest : PlaceTrue(r)
CeremoniesInv == (\A r \in MfaRequest : CeremonyTrue(r)) /\ \A c \in Ceremony : PassedTrue(c)
FactorsInv == (\A r \in MfaRequest : FactorTrue(r)) /\ SecondFactorAsked

MfaInv == PlacesInv /\ CeremoniesInv /\ RecoveryInv /\ TotpInv /\ FactorsInv

\* The types of a request.
LEMMA MfaTypes ==
    ASSUME MfaTypeOK, NEW r \in MfaRequest
    PROVE  /\ mfa[r] \in MfaJob /\ mfa[r].at \in MfaPlaces /\ mfa[r].kind \in MfaKinds \cup {"none"}
           /\ mfa[r].proof \in Proof /\ mfa[r].ceremony \in Ceremony \cup {NoMfa}
           /\ mfa[r].began \in 0 .. MaxTotpStep /\ mfa[r].had \in BOOLEAN /\ mfa[r].won \in BOOLEAN
           /\ mfa[r].older \in SUBSET Batch /\ mfa[r].answer \in {"none", "tokens", "other"}
BY DEF MfaTypeOK, MfaJob

\* The fields of a proof.
LEMMA ProofTypes ==
    ASSUME NEW p \in Proof
    PROVE  /\ p.with \in {"none", "passkey", "totp", "recovery"}
           /\ p.with = "totp" => p.secret \in Secret /\ p.step \in 0 .. MaxTotpStep + 1
           /\ p.with = "recovery" => p.code \in Batch
BY DEF Proof

\* The request r becomes x, and takes or gives back only locks that nobody else holds.
Acts(r, x) ==
    /\ x \in MfaJob /\ mfa' = [mfa EXCEPT ![r] = x]
    /\ holder' \in [Resource -> MfaRequest \cup {NoMfa}]
    /\ \A y \in Resource : holder'[y] = holder[y] \/ Free(y, r)

\* A request that a step leaves alone, with its locks.
Same(q) == mfa'[q] = mfa[q] /\ \A y \in Resource : holder[y] = q => holder'[y] = q

\* A request that acts leaves the others and their locks alone.
LEMMA OthersSame ==
    ASSUME MfaTypeOK, NEW r \in MfaRequest, NEW x, Acts(r, x)
    PROVE  /\ mfa' \in [MfaRequest -> MfaJob] /\ mfa'[r] = x
           /\ \A q \in MfaRequest : q # r => Same(q)
BY MfaAssumption DEF MfaTypeOK, Acts, Same, Free

\* The locks a request may take or give back.
Locks(r) ==
    /\ holder' \in [Resource -> MfaRequest \cup {NoMfa}]
    /\ \A y \in Resource : holder'[y] = holder[y] \/ Free(y, r)

\* A statement takes a lock that is free, a transaction ends, or neither.
LEMMA LocksMove ==
    ASSUME MfaTypeOK, NEW r \in MfaRequest,
           \/ UNCHANGED holder
           \/ holder' = Unlocked(r)
           \/ \E y \in Resource : Free(y, r) /\ Lock(y, r)
    PROVE  Locks(r)
<1>1. holder \in [Resource -> MfaRequest \cup {NoMfa}]
  BY DEF MfaTypeOK
<1>2. CASE UNCHANGED holder
  BY <1>1, <1>2 DEF Locks
<1>3. CASE holder' = Unlocked(r)
  BY <1>1, <1>3 DEF Locks, Unlocked, Free
<1>4. CASE \E y \in Resource : Free(y, r) /\ Lock(y, r)
  BY <1>1, <1>4 DEF Locks, Lock
<1> QED BY <1>2, <1>3, <1>4

\* A request goes on to another place.
LEMMA GoingActs ==
    ASSUME MfaTypeOK, NEW r \in MfaRequest, NEW place \in MfaPlaces, Going(r, place), Locks(r)
    PROVE  \E x \in MfaJob :
              /\ Acts(r, x) /\ x.at = place /\ x.kind = mfa[r].kind /\ x.proof = mfa[r].proof
              /\ x.ceremony = mfa[r].ceremony /\ x.had = mfa[r].had /\ x.won = mfa[r].won
              /\ x.older = mfa[r].older /\ x.answer = mfa[r].answer /\ x.began = mfa[r].began
<1>1. PICK x : x = [mfa[r] EXCEPT !.at = place]
  OBVIOUS
<1>2. mfa[r] \in MfaJob
  BY MfaTypes
<1>3. /\ x \in MfaJob /\ x.at = place /\ x.kind = mfa[r].kind /\ x.proof = mfa[r].proof
      /\ x.ceremony = mfa[r].ceremony /\ x.had = mfa[r].had /\ x.won = mfa[r].won
      /\ x.older = mfa[r].older /\ x.answer = mfa[r].answer /\ x.began = mfa[r].began
  BY <1>1, <1>2 DEF MfaJob
<1>4. mfa' = [mfa EXCEPT ![r] = x]
  BY <1>1 DEF Going
<1> QED BY <1>3, <1>4 DEF Acts, Locks

\* A request is answered.
LEMMA AnsweredActs ==
    ASSUME MfaTypeOK, NEW r \in MfaRequest, NEW answer \in {"tokens", "other"},
           mfa' = Answered(r, answer), Locks(r)
    PROVE  \E x \in MfaJob :
              /\ Acts(r, x) /\ x.at = "done" /\ x.kind = mfa[r].kind /\ x.won = mfa[r].won
              /\ x.older = {} /\ x.answer = answer
<1>1. PICK x : x = [Idle EXCEPT !.at = "done", !.kind = mfa[r].kind, !.won = mfa[r].won,
                                !.answer = answer]
  OBVIOUS
<1>2. /\ x = [at |-> "done", kind |-> mfa[r].kind, proof |-> [with |-> "none"],
              ceremony |-> NoMfa, began |-> 0, had |-> FALSE, won |-> mfa[r].won, older |-> {},
              answer |-> answer]
  BY <1>1 DEF Idle
<1>3. [with |-> "none"] \in Proof /\ 0 \in 0 .. MaxTotpStep /\ {} \in SUBSET Batch
  BY MfaAssumption DEF Proof
<1>4. x \in MfaJob
  BY <1>2, <1>3, MfaTypes DEF MfaJob, MfaPlaces
<1>5. mfa' = [mfa EXCEPT ![r] = x]
  BY <1>1 DEF Answered
<1> QED BY <1>2, <1>4, <1>5 DEF Acts, Locks

\* A request starts.
LEMMA StartActs ==
    ASSUME MfaTypeOK, NEW r \in MfaRequest, NEW kind \in MfaKinds, NEW place \in MfaPlaces,
           NEW p \in Proof, NEW c \in Ceremony \cup {NoMfa}, Start(r, kind, place, p, c)
    PROVE  \E x \in MfaJob :
              /\ Acts(r, x) /\ x.at = place /\ x.kind = kind /\ x.proof = p /\ x.ceremony = c
              /\ ~x.had /\ ~x.won /\ x.answer = "none" /\ x.older \subseteq codes
<1>1. PICK b \in 0 .. MaxTotpStep : b = IF kind = "signin" THEN clock ELSE 0
  BY MfaAssumption DEF MfaTypeOK
<1>2. PICK s : s = IF kind = "signin" THEN {} ELSE codes
  OBVIOUS
<1>3. s \subseteq codes /\ s \in SUBSET Batch
  BY <1>2 DEF MfaTypeOK
<1>4. PICK x : x = [Idle EXCEPT !.at = place, !.kind = kind, !.proof = p, !.ceremony = c,
                                !.began = b, !.older = s]
  OBVIOUS
<1>5. x = [at |-> place, kind |-> kind, proof |-> p, ceremony |-> c, began |-> b, had |-> FALSE,
           won |-> FALSE, older |-> s, answer |-> "none"]
  BY <1>4 DEF Idle
<1>6. x \in MfaJob
  BY <1>3, <1>5 DEF MfaJob
<1>7. mfa' = [mfa EXCEPT ![r] = x] /\ UNCHANGED holder
  BY <1>1, <1>2, <1>4 DEF Start
<1>8. Locks(r)
  BY <1>7, LocksMove
<1> QED BY <1>3, <1>5, <1>6, <1>7, <1>8 DEF Acts, Locks

-----------------------------------------------------------------------------
\* What is true of a request that is left alone, as long as its ceremony is left alone.
LEMMA CeremoniesMove ==
    ASSUME MfaInv, MfaTypeOK', \A q \in MfaRequest : Same(q) \/ CeremonyTrue(q)',
           \A c \in Ceremony :
              /\ ceremony[c].status # "unborn" =>
                    ceremony'[c].status # "unborn" /\ ceremony'[c].purpose = ceremony[c].purpose
              /\ ceremony[c].status = "live" /\ ceremony[c].purpose = "login" =>
                    ceremony'[c] = ceremony[c] \/ \A q \in MfaRequest : Same(q) => holder[c] # q
              /\ PassedTrue(c)'
    PROVE  CeremoniesInv'
<1>1. ASSUME NEW q \in MfaRequest, Same(q) PROVE CeremonyTrue(q)'
  <2>1. CeremonyTrue(q) /\ PlaceTrue(q) /\ mfa[q].ceremony \in Ceremony \cup {NoMfa}
        /\ mfa'[q] = mfa[q] /\ mfa[q].proof \in Proof
    BY <1>1, MfaTypes DEF MfaInv, PlacesInv, CeremoniesInv, Same
  <2>2. CASE mfa[q].at = "proof" \/ (mfa[q].at = "pending" /\ mfa[q].won)
    <3>1. PICK c \in Ceremony : c = mfa[q].ceremony
      BY <2>1, <2>2 DEF PlaceTrue, SignInPlaces
    <3>2. /\ holder[c] = q /\ ceremony[c].status = "live" /\ ceremony[c].purpose = "login"
          /\ mfa[q].at = "proof" => ceremony[c].attempts < MaxAttempts
      BY <2>1, <2>2, <3>1 DEF CeremonyTrue
    <3>3. holder'[c] = q
      BY <1>1, <3>2 DEF Same, Resource
    <3>4. ceremony'[c] = ceremony[c]
      BY <1>1, <3>2
    <3> QED BY <2>1, <2>2, <3>1, <3>2, <3>3, <3>4 DEF CeremonyTrue
  <2>3. CASE mfa[q].at \in {"fail", "save", "use"}
    BY <2>1, <2>3 DEF CeremonyTrue
  <2>4. CASE ~(mfa[q].at = "proof" \/ (mfa[q].at = "pending" /\ mfa[q].won))
             /\ mfa[q].at \notin {"fail", "save", "use"}
    BY <2>1, <2>4 DEF CeremonyTrue
  <2> QED BY <2>2, <2>3, <2>4
<1> QED BY <1>1 DEF CeremoniesInv

\* The ceremonies stay as they are.
LEMMA CeremoniesKept ==
    ASSUME MfaInv, MfaTypeOK', \A q \in MfaRequest : Same(q) \/ CeremonyTrue(q)',
           UNCHANGED <<ceremony, passed>>
    PROVE  CeremoniesInv'
<1>1. \A c \in Ceremony : PassedTrue(c)'
  BY DEF MfaInv, CeremoniesInv, PassedTrue
<1> QED BY <1>1, CeremoniesMove

\* The recovery codes stay as they are.
LEMMA CodesKept ==
    ASSUME MfaInv, MfaTypeOK', UNCHANGED <<codes, redeemed, superseded>>,
           \A q \in MfaRequest :
              Same(q) \/ /\ mfa[q].at # "done" /\ mfa'[q].at # "insert"
                         /\ mfa'[q].older = mfa[q].older \/ mfa'[q].older \subseteq codes
                         /\ Won(q, "recovery")'
                               => holder'["codes"] = q /\ mfa'[q].proof.code \in codes
    PROVE  RecoveryInv'
<1>1. RecoveryInv
  BY DEF MfaInv
<1>2. WrittenBatch \subseteq WrittenBatch'
  BY DEF WrittenBatch, Same
<1>3. ASSUME NEW q \in MfaRequest PROVE CodesTrue(q)'
  <2>1. CodesTrue(q) /\ codes \subseteq WrittenBatch
    BY <1>1 DEF RecoveryInv
  <2>2. CASE Same(q)
    BY <1>2, <2>1, <2>2 DEF CodesTrue, Won, Same, Resource
  <2>3. CASE ~Same(q)
    BY <1>2, <2>1, <2>3 DEF CodesTrue
  <2> QED BY <2>2, <2>3
<1> QED BY <1>1, <1>2, <1>3 DEF RecoveryInv

\* The authenticator stays as it is.
LEMMA TotpKept ==
    ASSUME MfaInv, UNCHANGED <<totp, saved, accepted, replayed, behind>>,
           \A q \in MfaRequest :
              Same(q) \/ (Won(q, "totp")' => /\ holder'["totp"] = q
                                             /\ totp.secret = mfa'[q].proof.secret
                                             /\ mfa'[q].proof.step >= totp.last)
    PROVE  TotpInv'
<1>1. TotpInv
  BY DEF MfaInv
<1>2. ASSUME NEW q \in MfaRequest, Won(q, "totp")'
      PROVE  /\ holder'["totp"] = q /\ totp'.secret = mfa'[q].proof.secret
             /\ mfa'[q].proof.step >= totp'.last
  BY <1>1, <1>2 DEF TotpInv, Won, Same, Resource
<1> QED BY <1>1, <1>2 DEF TotpInv, AuthenticatorCodeOnce

\* The factors stay as they are.
LEMMA FactorsKept ==
    ASSUME MfaInv, totp'.secret = totp.secret, UNCHANGED passkey,
           bare \subseteq bare', gained \subseteq gained',
           \A q \in MfaRequest :
              mfa'[q] = mfa[q] \/ /\ FactorTrue(q)'
                                  /\ \/ mfa'[q].answer # "tokens" \/ mfa'[q].won
                                     \/ q \in bare \cup gained
    PROVE  FactorsInv'
<1>1. FactorsInv
  BY DEF MfaInv
<1>2. ASSUME NEW q \in MfaRequest PROVE FactorTrue(q)'
  BY <1>1 DEF FactorsInv, FactorTrue, Factors, HasTotp
<1>3. SecondFactorAsked'
  BY <1>1 DEF FactorsInv, SecondFactorAsked
<1> QED BY <1>2, <1>3 DEF FactorsInv

\* A request moves on and leaves all else alone.
LEMMA QuietRequest ==
    ASSUME MfaInv, NEW r \in MfaRequest, NEW x \in MfaJob, Acts(r, x),
           UNCHANGED <<mfaData, clock, mfaScene, mfaGhosts>>,
           mfa[r].at # "done", x.at # "insert", ~(x.at = "pending" /\ x.won),
           x.older = mfa[r].older \/ x.older = {}, x.answer # "tokens",
           PlaceTrue(r)', CeremonyTrue(r)', FactorTrue(r)'
    PROVE  MfaInv'
<1>1. MfaTypeOK
  BY DEF MfaInv, PlacesInv
<1>2. /\ mfa' \in [MfaRequest -> MfaJob] /\ mfa'[r] = x
      /\ \A q \in MfaRequest : q # r => Same(q)
  BY <1>1, OthersSame
<1> USE DEF mfaData, mfaGhosts
<1>3. MfaTypeOK'
  BY <1>1, <1>2 DEF MfaTypeOK, Acts
<1>4. PlacesInv'
  BY <1>2, <1>3 DEF MfaInv, PlacesInv, PlaceTrue, Same
<1>5. CeremoniesInv'
  BY <1>2, <1>3, CeremoniesKept
<1>6. RecoveryInv'
  BY <1>2, <1>3, CodesKept DEF Won
<1>7. TotpInv'
  BY <1>2, TotpKept DEF Won
<1>8. FactorsInv'
  BY <1>2, FactorsKept DEF Same
<1> QED BY <1>4, <1>5, <1>6, <1>7, <1>8 DEF MfaInv

\* A request starts: a sign-in, an enrolment or a replacement of the recovery codes.
LEMMA StartStep ==
    ASSUME MfaInv, NEW r \in MfaRequest, NEW kind \in MfaKinds, NEW p \in Proof,
           NEW place \in {"factor", "save", "fail", "clear"}, NEW c \in Ceremony \cup {NoMfa},
           Start(r, kind, place, p, c),
           kind = "signin" <=> place = "factor",
           kind = "signin" /\ p.with # "none" => c \in Ceremony,
           place \in {"save", "fail"} =>
              kind \in {"authenticator", "passkey"} /\ c \in Ceremony /\ Valid(c, kind)
    PROVE  MfaInv'
<1>1. /\ MfaTypeOK /\ (mfa[r].at = "new") /\ codes \subseteq WrittenBatch
      /\ place \in MfaPlaces
  BY DEF MfaInv, PlacesInv, RecoveryInv, Start, Does, MfaPlaces
<1>2. PICK x \in MfaJob :
              /\ Acts(r, x) /\ x.at = place /\ x.kind = kind /\ x.proof = p /\ x.ceremony = c
              /\ ~x.had /\ ~x.won /\ x.answer = "none" /\ x.older \subseteq codes
  BY <1>1, StartActs
<1>3. /\ mfa' \in [MfaRequest -> MfaJob] /\ mfa'[r] = x
      /\ \A q \in MfaRequest : q # r => Same(q)
  BY <1>1, <1>2, OthersSame
<1>4. /\ UNCHANGED <<mfaData, clock, holder, mfaScene, redeemed, passed, accepted, replayed, behind,
                     saved, gained, superseded>>
      /\ bare' = IF kind = "signin" /\ ~Factors(totp, passkey) THEN bare \cup {r} ELSE bare
  BY DEF Start
<1>5. bare \subseteq bare' /\ bare' \subseteq MfaRequest
  BY <1>1, <1>4 DEF MfaTypeOK
<1> USE DEF mfaData
<1>6. MfaTypeOK'
  BY <1>1, <1>3, <1>4, <1>5 DEF MfaTypeOK
<1>7. PlaceTrue(r)'
  BY <1>2, <1>3 DEF PlaceTrue, SignInPlaces
<1>8. PlacesInv'
  BY <1>3, <1>6, <1>7 DEF MfaInv, PlacesInv, PlaceTrue, Same
<1>9. CeremonyTrue(r)'
  BY <1>2, <1>3, <1>4 DEF CeremonyTrue, Valid
<1>10. CeremoniesInv'
  BY <1>3, <1>4, <1>6, <1>9, CeremoniesKept
<1>11. RecoveryInv'
  BY <1>1, <1>2, <1>3, <1>4, <1>6, CodesKept DEF Won
<1>12. TotpInv'
  BY <1>2, <1>3, <1>4, TotpKept DEF Won
<1>13. FactorTrue(r)'
  BY <1>2, <1>3, <1>4 DEF FactorTrue, Factors
<1>14. FactorsInv'
  BY <1>2, <1>3, <1>4, <1>5, <1>13, FactorsKept DEF Same
<1> QED BY <1>8, <1>10, <1>11, <1>12, <1>14 DEF MfaInv

\* The requests that start.
LEMMA StartsStep ==
    ASSUME MfaInv, NEW r \in MfaRequest, SignInBegins(r) \/ ReadEnrolment(r) \/ Regenerate(r)
    PROVE  MfaInv'
<1>1. [with |-> "none"] \in Proof
  BY DEF Proof
<1>2. CASE SignInBegins(r)
  <2>1. PICK p \in Proof, c \in Ceremony \cup {NoMfa} :
          Start(r, "signin", "factor", p, c) /\ (p.with # "none" => c \in Ceremony)
    BY <1>2 DEF SignInBegins
  <2> QED BY <2>1, StartStep DEF MfaKinds
<1>3. CASE ReadEnrolment(r)
  <2>1. PICK c \in Ceremony, kind \in {"authenticator", "passkey"}, place \in {"save", "fail"} :
          Valid(c, kind) /\ Start(r, kind, place, [with |-> "none"], c)
    BY <1>3 DEF ReadEnrolment
  <2> QED BY <1>1, <2>1, StartStep DEF MfaKinds
<1>4. CASE Regenerate(r)
  <2>1. Start(r, "codes", "clear", [with |-> "none"], NoMfa)
    BY <1>4 DEF Regenerate
  <2> QED BY <1>1, <2>1, StartStep DEF MfaKinds
<1> QED BY <1>2, <1>3, <1>4

\* A request that a failure ends.
LEMMA LoseStep ==
    ASSUME MfaInv, NEW r \in MfaRequest, LoseMfa(r)
    PROVE  MfaInv'
<1>1. MfaTypeOK /\ mfa[r].at # "done" /\ Locks(r)
  BY LocksMove DEF MfaInv, PlacesInv, LoseMfa, Does
<1>2. PICK x \in MfaJob : Acts(r, x) /\ x.at = "done" /\ x.older = {} /\ x.answer = "other"
  BY <1>1, AnsweredActs DEF LoseMfa
<1>3. mfa'[r] = x
  BY <1>1, <1>2, OthersSame
<1>4. PlaceTrue(r)' /\ CeremonyTrue(r)' /\ FactorTrue(r)'
  BY <1>2, <1>3 DEF PlaceTrue, CeremonyTrue, FactorTrue, SignInPlaces
<1> QED BY <1>1, <1>2, <1>4, QuietRequest DEF LoseMfa

\* has_mfa reads the authenticator, and locks it.
LEMMA ReadTotpStep ==
    ASSUME MfaInv, NEW r \in MfaRequest, ReadTotp(r)
    PROVE  MfaInv'
<1>1. /\ MfaTypeOK /\ mfa[r].at = "factor" /\ PlaceTrue(r) /\ FactorTrue(r) /\ mfa[r] \in MfaJob
      /\ UNCHANGED <<mfaData, clock, mfaScene, mfaGhosts>>
  BY MfaTypes DEF MfaInv, PlacesInv, FactorsInv, ReadTotp, Does
<1>2. PICK place \in {"keys", "verify"}, h \in BOOLEAN :
        /\ Locks(r) /\ mfa' = [mfa EXCEPT ![r] = [mfa[r] EXCEPT !.at = place, !.had = h]]
        /\ place = "verify" => mfa[r].proof.with # "none"
        /\ place = "keys" /\ ~h => ~HasTotp
  <2>1. CASE HasTotp
    <3>1. "totp" \in Resource
      BY DEF Resource
    <3>2. Free("totp", r) /\ Lock("totp", r)
          /\ mfa' = [mfa EXCEPT ![r].at = After(r), ![r].had = TRUE]
      BY <2>1 DEF ReadTotp
    <3>3. Locks(r)
      BY <1>1, <3>1, <3>2, LocksMove
    <3>4. After(r) \in {"keys", "verify"} /\ (After(r) = "verify" => mfa[r].proof.with # "none")
      BY DEF After
    <3>5. mfa' = [mfa EXCEPT ![r] = [mfa[r] EXCEPT !.at = After(r), !.had = TRUE]]
      BY <1>1, <3>2 DEF MfaTypeOK, MfaJob
    <3> QED BY <3>3, <3>4, <3>5
  <2>2. CASE ~HasTotp
    <3>1. mfa' = [mfa EXCEPT ![r].at = "keys"] /\ UNCHANGED holder
      BY <2>2 DEF ReadTotp, Going
    <3>2. Locks(r)
      BY <1>1, <3>1, LocksMove
    <3>3. mfa' = [mfa EXCEPT ![r] = [mfa[r] EXCEPT !.at = "keys", !.had = mfa[r].had]]
      BY <1>1, <3>1 DEF MfaTypeOK, MfaJob
    <3> QED BY <1>1, <2>2, <3>2, <3>3, MfaTypes
  <2> QED BY <2>1, <2>2
<1>3. PICK x : x = [mfa[r] EXCEPT !.at = place, !.had = h]
  OBVIOUS
<1>4. /\ x \in MfaJob /\ x.at = place /\ x.had = h /\ x.kind = mfa[r].kind
      /\ x.proof = mfa[r].proof /\ x.ceremony = mfa[r].ceremony /\ x.won = mfa[r].won
      /\ x.older = mfa[r].older /\ x.answer = mfa[r].answer
  BY <1>1, <1>3 DEF MfaJob, MfaPlaces
<1>5. Acts(r, x)
  BY <1>2, <1>3, <1>4 DEF Acts, Locks
<1>6. mfa'[r] = x
  BY <1>1, <1>5, OthersSame
<1>7. PlaceTrue(r)'
  BY <1>1, <1>2, <1>4, <1>6 DEF PlaceTrue, SignInPlaces
<1>8. CeremonyTrue(r)'
  BY <1>2, <1>4, <1>6 DEF CeremonyTrue
<1>9. FactorTrue(r)'
  BY <1>1, <1>2, <1>4, <1>6 DEF FactorTrue, Factors, HasTotp, PlaceTrue, mfaData, mfaGhosts
<1>10. x.answer # "tokens" /\ ~(x.at = "pending" /\ x.won) /\ x.at # "insert"
  BY <1>1, <1>2, <1>4 DEF PlaceTrue
<1> QED BY <1>1, <1>4, <1>5, <1>7, <1>8, <1>9, <1>10, QuietRequest

\* has_mfa reads the passkeys.
LEMMA ReadPasskeysStep ==
    ASSUME MfaInv, NEW r \in MfaRequest, ReadPasskeys(r)
    PROVE  MfaInv'
<1>1. /\ MfaTypeOK /\ mfa[r].at = "keys" /\ ~mfa[r].had
      /\ PlaceTrue(r) /\ FactorTrue(r) /\ mfa[r] \in MfaJob
      /\ UNCHANGED <<mfaData, clock, holder, mfaScene, mfaGhosts>>
  BY MfaTypes DEF MfaInv, PlacesInv, FactorsInv, ReadPasskeys, Does
<1>2. PICK place \in {"keys", "verify", "pending"}, h \in BOOLEAN :
        /\ mfa' = [mfa EXCEPT ![r] = [mfa[r] EXCEPT !.at = place, !.had = h]]
        /\ place = "verify" => mfa[r].proof.with # "none"
        /\ place = "keys" => h
        /\ place = "pending" => ~passkey
  <2>1. CASE passkey
    <3>1. After(r) \in {"keys", "verify"} /\ (After(r) = "verify" => mfa[r].proof.with # "none")
      BY DEF After
    <3>2. mfa' = [mfa EXCEPT ![r].had = TRUE, ![r].at = After(r)]
      BY <2>1 DEF ReadPasskeys
    <3>3. mfa' = [mfa EXCEPT ![r] = [mfa[r] EXCEPT !.at = After(r), !.had = TRUE]]
      BY <1>1, <3>2 DEF MfaTypeOK, MfaJob
    <3> QED BY <3>1, <3>3
  <2>2. CASE ~passkey
    <3>1. mfa' = [mfa EXCEPT ![r].at = "pending"]
      BY <2>2 DEF ReadPasskeys
    <3>2. mfa' = [mfa EXCEPT ![r] = [mfa[r] EXCEPT !.at = "pending", !.had = mfa[r].had]]
      BY <1>1, <3>1 DEF MfaTypeOK, MfaJob
    <3> QED BY <1>1, <2>2, <3>2, MfaTypes
  <2> QED BY <2>1, <2>2
<1>3. PICK x : x = [mfa[r] EXCEPT !.at = place, !.had = h]
  OBVIOUS
<1>4. /\ x \in MfaJob /\ x.at = place /\ x.had = h /\ x.kind = mfa[r].kind
      /\ x.proof = mfa[r].proof /\ x.ceremony = mfa[r].ceremony /\ x.won = mfa[r].won
      /\ x.older = mfa[r].older /\ x.answer = mfa[r].answer
  BY <1>1, <1>3 DEF MfaJob, MfaPlaces
<1>5. Acts(r, x)
  BY <1>1, <1>2, <1>3, <1>4, LocksMove DEF Acts, Locks
<1>6. mfa'[r] = x
  BY <1>1, <1>5, OthersSame
<1>7. PlaceTrue(r)' /\ ~x.won
  BY <1>1, <1>2, <1>4, <1>6 DEF PlaceTrue, SignInPlaces
<1>8. CeremonyTrue(r)'
  BY <1>2, <1>4, <1>6, <1>7 DEF CeremonyTrue
<1>9. FactorTrue(r)'
  <2>1. UNCHANGED <<totp, passkey, bare, gained>> /\ mfa[r].kind = "signin" /\ mfa[r].at # "done"
    BY <1>1 DEF mfaData, mfaGhosts, PlaceTrue, SignInPlaces
  <2>2. ~Factors(totp, passkey) => r \in bare
    BY <1>1, <2>1 DEF FactorTrue
  <2>3. place = "pending" => r \in bare \cup gained
    BY <1>1, <1>2, <2>2 DEF FactorTrue, Factors, HasTotp
  <2> QED BY <1>2, <1>4, <1>6, <2>1, <2>2, <2>3 DEF FactorTrue
<1>10. x.answer # "tokens" /\ ~(x.at = "pending" /\ x.won) /\ x.at # "insert"
  BY <1>1, <1>2, <1>4, <1>7 DEF PlaceTrue
<1> QED BY <1>1, <1>4, <1>5, <1>7, <1>8, <1>9, <1>10, QuietRequest

\* verify_login reads the ceremony, and locks it when it is good.
LEMMA OpenStep ==
    ASSUME MfaInv, NEW r \in MfaRequest, OpenCeremony(r)
    PROVE  MfaInv'
<1>1. /\ MfaTypeOK /\ mfa[r].at = "verify" /\ PlaceTrue(r) /\ FactorTrue(r) /\ mfa[r] \in MfaJob
      /\ UNCHANGED <<mfaData, clock, mfaScene, mfaGhosts>> /\ mfa[r].kind = "signin"
  BY MfaTypes DEF MfaInv, PlacesInv, FactorsInv, OpenCeremony, Does, PlaceTrue, SignInPlaces
<1>2. PICK c \in Ceremony : c = mfa[r].ceremony
  BY <1>1 DEF PlaceTrue, SignInPlaces
<1>3. CASE Valid(c, "login")
  <2>1. /\ c \in Resource /\ Free(c, r) /\ Lock(c, r) /\ Going(r, "proof")
    BY <1>2, <1>3 DEF OpenCeremony, Resource
  <2>2. Locks(r) /\ "proof" \in MfaPlaces
    BY <1>1, <2>1, LocksMove DEF MfaPlaces
  <2>3. PICK x \in MfaJob :
          /\ Acts(r, x) /\ x.at = "proof" /\ x.kind = mfa[r].kind /\ x.proof = mfa[r].proof
          /\ x.ceremony = mfa[r].ceremony /\ x.had = mfa[r].had /\ x.won = mfa[r].won
          /\ x.older = mfa[r].older /\ x.answer = mfa[r].answer
    BY <1>1, <2>1, <2>2, GoingActs
  <2>4. mfa'[r] = x
    BY <1>1, <2>3, OthersSame
  <2>5. PlaceTrue(r)' /\ ~x.won /\ x.answer = "none"
    BY <1>1, <1>2, <2>3, <2>4 DEF PlaceTrue, SignInPlaces
  <2>6. holder'[c] = r
    BY <1>1, <2>1 DEF Lock, MfaTypeOK
  <2>7. CeremonyTrue(r)'
    BY <1>1, <1>2, <1>3, <2>3, <2>4, <2>5, <2>6 DEF CeremonyTrue, Valid, mfaData
  <2>8. FactorTrue(r)'
    BY <1>1, <2>3, <2>4 DEF FactorTrue, mfaData, mfaGhosts
  <2> QED BY <1>1, <2>3, <2>5, <2>7, <2>8, QuietRequest
<1>4. CASE ~Valid(c, "login")
  <2>1. holder' = Unlocked(r) /\ mfa' = Answered(r, "other")
    BY <1>2, <1>4 DEF OpenCeremony
  <2>2. Locks(r)
    BY <1>1, <2>1, LocksMove
  <2>3. PICK x \in MfaJob : Acts(r, x) /\ x.at = "done" /\ x.older = {} /\ x.answer = "other"
    BY <1>1, <2>1, <2>2, AnsweredActs
  <2>4. mfa'[r] = x
    BY <1>1, <2>3, OthersSame
  <2>5. PlaceTrue(r)' /\ CeremonyTrue(r)' /\ FactorTrue(r)'
    BY <2>3, <2>4 DEF PlaceTrue, CeremonyTrue, FactorTrue, SignInPlaces
  <2> QED BY <1>1, <2>3, <2>5, QuietRequest
<1> QED BY <1>3, <1>4

\* A passkey brings recovery codes, or there are some.
LEMMA CountStep ==
    ASSUME MfaInv, NEW r \in MfaRequest, CountCodes(r)
    PROVE  MfaInv'
<1>1. /\ MfaTypeOK /\ mfa[r].at = "count" /\ PlaceTrue(r) /\ FactorTrue(r)
      /\ UNCHANGED <<mfaData, clock, holder, mfaScene, mfaGhosts>> /\ Locks(r)
  BY LocksMove DEF MfaInv, PlacesInv, FactorsInv, CountCodes, Does
<1>2. CASE codes = {}
  <2>1. Going(r, "clear") /\ "clear" \in MfaPlaces
    BY <1>2 DEF CountCodes, Going, MfaPlaces
  <2>2. PICK x \in MfaJob :
          /\ Acts(r, x) /\ x.at = "clear" /\ x.kind = mfa[r].kind /\ x.won = mfa[r].won
          /\ x.older = mfa[r].older /\ x.answer = mfa[r].answer
    BY <1>1, <2>1, GoingActs
  <2>3. mfa'[r] = x
    BY <1>1, <2>2, OthersSame
  <2>4. PlaceTrue(r)' /\ CeremonyTrue(r)' /\ FactorTrue(r)' /\ x.answer = "none"
    BY <1>1, <2>2, <2>3
       DEF PlaceTrue, CeremonyTrue, FactorTrue, SignInPlaces, mfaData, mfaGhosts
  <2> QED BY <1>1, <2>2, <2>4, QuietRequest
<1>3. CASE codes # {}
  <2>1. mfa' = Answered(r, "other")
    BY <1>3 DEF CountCodes
  <2>2. PICK x \in MfaJob : Acts(r, x) /\ x.at = "done" /\ x.older = {} /\ x.answer = "other"
    BY <1>1, <2>1, AnsweredActs
  <2>3. mfa'[r] = x
    BY <1>1, <2>2, OthersSame
  <2>4. PlaceTrue(r)' /\ CeremonyTrue(r)' /\ FactorTrue(r)'
    BY <2>2, <2>3 DEF PlaceTrue, CeremonyTrue, FactorTrue, SignInPlaces
  <2> QED BY <1>1, <2>2, <2>4, QuietRequest
<1> QED BY <1>2, <1>3

-----------------------------------------------------------------------------
\* A row of a ceremony that is written again.
LEMMA CeremonyTypes ==
    ASSUME MfaTypeOK, NEW c \in Ceremony
    PROVE  /\ ceremony[c] \in CeremonyRow /\ ceremony[c].attempts \in Nat
           /\ ceremony[c].status \in {"unborn", "live", "used", "expired", "gone"}
BY DEF MfaTypeOK, CeremonyRow

\* One ceremony changes: it is stored, it counts a wrong proof, or it is over.
LEMMA OneCeremonyMoves ==
    ASSUME MfaInv, NEW c \in Ceremony, NEW z, ceremony' = [ceremony EXCEPT ![c] = z],
           z \in CeremonyRow, UNCHANGED passed,
           \/ /\ ceremony[c].status = "unborn" /\ z.attempts = 0
           \/ /\ ceremony[c].status # "unborn" /\ ceremony[c].purpose # "login"
              /\ z.status \in {ceremony[c].status, "used", "expired", "gone"}
              /\ z.purpose = ceremony[c].purpose
           \/ /\ ceremony[c].status # "unborn"
              /\ z.status \in {"used", "expired", "gone"} /\ z.purpose = ceremony[c].purpose
              /\ z.attempts = ceremony[c].attempts
              /\ \A q \in MfaRequest : Same(q) => holder[c] # q
           \/ /\ ceremony[c].status = "live" /\ ceremony[c].attempts < MaxAttempts
              /\ z.status = "live" /\ z.purpose = ceremony[c].purpose
              /\ z.attempts = ceremony[c].attempts + 1
              /\ \A q \in MfaRequest : Same(q) => holder[c] # q
    PROVE  /\ ceremony' \in [Ceremony -> CeremonyRow]
           /\ \A k \in Ceremony :
                /\ ceremony[k].status # "unborn" =>
                      ceremony'[k].status # "unborn" /\ ceremony'[k].purpose = ceremony[k].purpose
                /\ ceremony[k].status = "live" /\ ceremony[k].purpose = "login" =>
                      ceremony'[k] = ceremony[k] \/ \A q \in MfaRequest : Same(q) => holder[k] # q
                /\ PassedTrue(k)'
<1>1. /\ MfaTypeOK /\ ceremony \in [Ceremony -> CeremonyRow] /\ MaxAttempts \in Nat
      /\ ceremony[c].attempts \in Nat
  BY MfaAssumption, CeremonyTypes DEF MfaInv, PlacesInv, MfaTypeOK
<1>2. /\ ceremony' \in [Ceremony -> CeremonyRow] /\ ceremony'[c] = z
      /\ \A k \in Ceremony : k # c => ceremony'[k] = ceremony[k]
  BY <1>1
<1>3. ASSUME NEW k \in Ceremony PROVE PassedTrue(k)'
  <2>1. PassedTrue(k)
    BY DEF MfaInv, CeremoniesInv
  <2>2. CASE k # c
    BY <1>2, <2>1, <2>2 DEF PassedTrue
  <2>3. CASE k = c
    BY <1>1, <1>2, <2>1, <2>3, MfaAssumption DEF PassedTrue
  <2> QED BY <2>2, <2>3
<1>4. ASSUME NEW k \in Ceremony
      PROVE  /\ ceremony[k].status # "unborn" =>
                   ceremony'[k].status # "unborn" /\ ceremony'[k].purpose = ceremony[k].purpose
             /\ ceremony[k].status = "live" /\ ceremony[k].purpose = "login" =>
                   ceremony'[k] = ceremony[k] \/ \A q \in MfaRequest : Same(q) => holder[k] # q
  <2>1. CASE k # c
    BY <1>2, <2>1
  <2>2. CASE k = c
    BY <1>2, <2>2
  <2> QED BY <2>1, <2>2
<1> QED BY <1>2, <1>3, <1>4

\* The rest of the invariant, when a request only changes a ceremony.
LEMMA CeremonyRequest ==
    ASSUME MfaInv, NEW r \in MfaRequest, NEW x \in MfaJob, Acts(r, x),
           ceremony' \in [Ceremony -> CeremonyRow],
           UNCHANGED <<totp, passkey, codes, clock, mfaScene, mfaGhosts>>,
           mfa[r].at # "done", x.at # "insert", ~(x.at = "pending" /\ x.won),
           x.older = mfa[r].older \/ x.older = {}, x.answer # "tokens",
           PlaceTrue(r)', FactorTrue(r)',
           \A k \in Ceremony :
              /\ ceremony[k].status # "unborn" =>
                    ceremony'[k].status # "unborn" /\ ceremony'[k].purpose = ceremony[k].purpose
              /\ ceremony[k].status = "live" /\ ceremony[k].purpose = "login" =>
                    ceremony'[k] = ceremony[k] \/ \A q \in MfaRequest : Same(q) => holder[k] # q
              /\ PassedTrue(k)',
           Same(r) \/ CeremonyTrue(r)'
    PROVE  MfaInv'
<1>1. MfaTypeOK
  BY DEF MfaInv, PlacesInv
<1>2. /\ mfa' \in [MfaRequest -> MfaJob] /\ mfa'[r] = x
      /\ \A q \in MfaRequest : q # r => Same(q)
  BY <1>1, OthersSame
<1> USE DEF mfaGhosts
<1>3. MfaTypeOK'
  BY <1>1, <1>2 DEF MfaTypeOK, Acts
<1>4. PlacesInv'
  BY <1>2, <1>3 DEF MfaInv, PlacesInv, PlaceTrue, Same
<1>5. CeremoniesInv'
  BY <1>2, <1>3, CeremoniesMove
<1>6. RecoveryInv'
  BY <1>2, <1>3, CodesKept DEF Won
<1>7. TotpInv'
  BY <1>2, TotpKept DEF Won
<1>8. FactorsInv'
  BY <1>2, FactorsKept DEF Same
<1> QED BY <1>4, <1>5, <1>6, <1>7, <1>8 DEF MfaInv

\* begin_login stores a ceremony.
LEMMA BeginLoginStep ==
    ASSUME MfaInv, NEW r \in MfaRequest, BeginLogin(r)
    PROVE  MfaInv'
<1>1. /\ MfaTypeOK /\ mfa[r].at = "keys" /\ holder' = Unlocked(r) /\ mfa' = Answered(r, "other")
      /\ UNCHANGED <<totp, passkey, codes, clock, mfaScene, mfaGhosts>> /\ passkey \in BOOLEAN
  BY DEF MfaInv, PlacesInv, BeginLogin, Does, MfaTypeOK
<1>2. PICK z : z = [status |-> "live", purpose |-> "login", attempts |-> 0, keys |-> passkey]
  OBVIOUS
<1>3. PICK c \in Ceremony : /\ ceremony[c].status = "unborn"
                            /\ ceremony' = [ceremony EXCEPT ![c] = z]
  BY <1>2 DEF BeginLogin
<1>4. z \in CeremonyRow /\ z.attempts = 0
  BY <1>1, <1>2 DEF CeremonyRow, Purposes
<1>5. Locks(r)
  BY <1>1, LocksMove
<1>6. PICK x \in MfaJob : Acts(r, x) /\ x.at = "done" /\ x.older = {} /\ x.answer = "other"
  BY <1>1, <1>5, AnsweredActs
<1>7. mfa'[r] = x
  BY <1>1, <1>6, OthersSame
<1>8. PlaceTrue(r)' /\ CeremonyTrue(r)' /\ FactorTrue(r)'
  BY <1>6, <1>7 DEF PlaceTrue, CeremonyTrue, FactorTrue, SignInPlaces
<1>9. UNCHANGED passed
  BY <1>1 DEF mfaGhosts
<1> QED BY <1>1, <1>3, <1>4, <1>6, <1>8, <1>9, OneCeremonyMoves, CeremonyRequest

\* A wrong code of an enrolment counts.
LEMMA FailStep ==
    ASSUME MfaInv, NEW r \in MfaRequest, FailEnrolment(r)
    PROVE  MfaInv'
<1>1. /\ MfaTypeOK /\ mfa[r].at = "fail" /\ mfa' = Answered(r, "other") /\ CeremonyTrue(r)
      /\ UNCHANGED <<totp, passkey, codes, clock, holder, mfaScene, mfaGhosts>>
  BY DEF MfaInv, PlacesInv, CeremoniesInv, FailEnrolment, Does
<1>2. PICK c \in Ceremony : /\ c = mfa[r].ceremony /\ ceremony[c].status # "unborn"
                            /\ ceremony[c].purpose # "login"
  BY <1>1 DEF CeremonyTrue
<1>3. ceremony[c] \in CeremonyRow /\ ceremony[c].attempts \in Nat
  BY <1>1, CeremonyTypes
<1>4. PICK z : z = [ceremony[c] EXCEPT !.attempts = ceremony[c].attempts + 1]
  OBVIOUS
<1>5. z \in CeremonyRow /\ z.status = ceremony[c].status /\ z.purpose = ceremony[c].purpose
  BY <1>3, <1>4 DEF CeremonyRow
<1>6. ceremony' = [ceremony EXCEPT ![c] = z]
  BY <1>1, <1>2, <1>4 DEF FailEnrolment, MfaTypeOK, CeremonyRow
<1>7. PICK x \in MfaJob : Acts(r, x) /\ x.at = "done" /\ x.older = {} /\ x.answer = "other"
  BY <1>1, LocksMove, AnsweredActs
<1>8. mfa'[r] = x
  BY <1>1, <1>7, OthersSame
<1>9. PlaceTrue(r)' /\ CeremonyTrue(r)' /\ FactorTrue(r)'
  BY <1>7, <1>8 DEF PlaceTrue, CeremonyTrue, FactorTrue, SignInPlaces
<1>10. UNCHANGED passed
  BY <1>1 DEF mfaGhosts
<1> QED BY <1>1, <1>2, <1>5, <1>6, <1>7, <1>9, <1>10, OneCeremonyMoves, CeremonyRequest

\* An enrolment marks its ceremony used.
LEMMA UseStep ==
    ASSUME MfaInv, NEW r \in MfaRequest, UseEnrolment(r)
    PROVE  MfaInv'
<1>1. /\ MfaTypeOK /\ mfa[r].at = "use" /\ CeremonyTrue(r) /\ PlaceTrue(r)
      /\ UNCHANGED <<totp, passkey, codes, clock, holder, mfaScene, mfaGhosts>>
  BY DEF MfaInv, PlacesInv, CeremoniesInv, UseEnrolment, Does
<1>2. PICK c \in Ceremony : /\ c = mfa[r].ceremony /\ ceremony[c].status # "unborn"
                            /\ ceremony[c].purpose # "login" /\ mfa[r].kind # "signin"
  BY <1>1 DEF CeremonyTrue
<1>3. ceremony[c] \in CeremonyRow
  BY <1>1, CeremonyTypes
<1>4. PICK s \in {"gone", "used"} : s = IF ceremony[c].status = "gone" THEN "gone" ELSE "used"
  OBVIOUS
<1>5. PICK z : z = [ceremony[c] EXCEPT !.status = s]
  OBVIOUS
<1>6. z \in CeremonyRow /\ z.status = s /\ z.purpose = ceremony[c].purpose
  BY <1>3, <1>5 DEF CeremonyRow
<1>7. ceremony' = [ceremony EXCEPT ![c] = z]
  BY <1>1, <1>2, <1>4, <1>5 DEF UseEnrolment, MfaTypeOK, CeremonyRow
<1>8. PICK place \in {"clear", "count"} : Going(r, place)
  BY DEF UseEnrolment
<1>9. place \in MfaPlaces /\ Locks(r)
  BY <1>1, LocksMove DEF MfaPlaces
<1>10. PICK x \in MfaJob :
          /\ Acts(r, x) /\ x.at = place /\ x.kind = mfa[r].kind /\ x.won = mfa[r].won
          /\ x.older = mfa[r].older /\ x.answer = mfa[r].answer
  BY <1>1, <1>8, <1>9, GoingActs
<1>11. mfa'[r] = x
  BY <1>1, <1>10, OthersSame
<1>12. PlaceTrue(r)' /\ CeremonyTrue(r)' /\ FactorTrue(r)' /\ x.answer = "none"
  BY <1>1, <1>2, <1>10, <1>11 DEF PlaceTrue, CeremonyTrue, FactorTrue, SignInPlaces
<1>13. UNCHANGED passed
  BY <1>1 DEF mfaGhosts
<1> QED BY <1>1, <1>2, <1>6, <1>7, <1>10, <1>12, <1>13, OneCeremonyMoves, CeremonyRequest

-----------------------------------------------------------------------------
\* A proof that is good: what it was checked against is locked.
LEMMA GoodProofStep ==
    ASSUME MfaInv, NEW r \in MfaRequest, CheckProof(r), GoodProof(mfa[r].proof, mfa[r].ceremony)
    PROVE  MfaInv'
<1>1. PICK p \in Proof : p = mfa[r].proof
  BY MfaTypes DEF MfaInv, PlacesInv
<1>2. /\ MfaTypeOK /\ mfa[r].at = "proof" /\ PlaceTrue(r) /\ FactorTrue(r) /\ CeremonyTrue(r)
      /\ mfa[r] \in MfaJob /\ \A y \in Needs(p) : Free(y, r)
      /\ UNCHANGED <<mfaData, clock, mfaScene, mfaGhosts>>
      /\ holder' = [y \in Resource |-> IF y \in Needs(p) THEN r ELSE holder[y]]
      /\ mfa' = [mfa EXCEPT ![r].at = "pending", ![r].won = TRUE]
  BY <1>1, MfaTypes
     DEF MfaInv, PlacesInv, CeremoniesInv, FactorsInv, CheckProof, Does, mfaData
<1>3. Locks(r) /\ holder \in [Resource -> MfaRequest \cup {NoMfa}]
  BY <1>2 DEF Locks, MfaTypeOK
<1>4. PICK x : x = [mfa[r] EXCEPT !.at = "pending", !.won = TRUE]
  OBVIOUS
<1>5. /\ x \in MfaJob /\ x.at = "pending" /\ x.won /\ x.had = mfa[r].had /\ x.kind = mfa[r].kind
      /\ x.proof = p /\ x.ceremony = mfa[r].ceremony
      /\ x.older = mfa[r].older /\ x.answer = mfa[r].answer
  BY <1>1, <1>2, <1>4 DEF MfaJob, MfaPlaces
<1>6. mfa' = [mfa EXCEPT ![r] = x]
  BY <1>2, <1>4 DEF MfaTypeOK, MfaJob
<1>7. Acts(r, x)
  BY <1>3, <1>5, <1>6 DEF Acts, Locks
<1>8. /\ mfa' \in [MfaRequest -> MfaJob] /\ mfa'[r] = x
      /\ \A q \in MfaRequest : q # r => Same(q)
  BY <1>2, <1>7, OthersSame
<1> USE DEF mfaData, mfaGhosts
<1>9. MfaTypeOK'
  BY <1>2, <1>7, <1>8 DEF MfaTypeOK, Acts
<1>10. PlaceTrue(r)'
  BY <1>1, <1>2, <1>5, <1>8 DEF PlaceTrue, SignInPlaces
<1>11. PlacesInv'
  BY <1>8, <1>9, <1>10 DEF MfaInv, PlacesInv, PlaceTrue, Same
<1>12. CeremonyTrue(r)'
  <2>1. PICK c \in Ceremony : c = mfa[r].ceremony
    BY <1>2 DEF PlaceTrue, SignInPlaces
  <2>2. holder[c] = r /\ ceremony[c].status = "live" /\ ceremony[c].purpose = "login"
    BY <1>2, <2>1 DEF CeremonyTrue
  <2>3. holder'[c] = r
    BY <1>2, <2>2 DEF Resource
  <2> QED BY <1>2, <1>5, <1>8, <2>1, <2>2, <2>3 DEF CeremonyTrue
<1>13. CeremoniesInv'
  BY <1>2, <1>8, <1>9, <1>12, CeremoniesKept
<1>14. x.proof.with = "recovery" => holder'["codes"] = r /\ x.proof.code \in codes
  <2> SUFFICES ASSUME p.with = "recovery" PROVE holder'["codes"] = r /\ p.code \in codes
    BY <1>5
  <2>1. p.code \in codes /\ Needs(p) = {"codes"}
    BY <1>1 DEF GoodProof, Needs
  <2> QED BY <1>2, <2>1 DEF Resource
<1>15. RecoveryInv'
  BY <1>2, <1>5, <1>8, <1>9, <1>14, CodesKept DEF Won
<1>16. x.proof.with = "totp" => /\ holder'["totp"] = r /\ totp.secret = x.proof.secret
                               /\ x.proof.step >= totp.last
  <2> SUFFICES ASSUME p.with = "totp"
               PROVE  holder'["totp"] = r /\ totp.secret = p.secret /\ p.step >= totp.last
    BY <1>5
  <2>1. totp.secret = p.secret /\ p.step >= totp.last
    BY <1>1 DEF GoodProof, GoodTotp
  <2>2. Needs(p) = {"totp"}
    BY <2>1, ProofTypes, MfaAssumption DEF Needs, HasTotp, Secret
  <2> QED BY <1>2, <2>1, <2>2 DEF Resource
<1>17. TotpInv'
  BY <1>2, <1>5, <1>8, <1>16, TotpKept DEF Won
<1>18. FactorTrue(r)' /\ x.answer # "tokens"
  BY <1>2, <1>5, <1>8 DEF FactorTrue, PlaceTrue
<1>19. FactorsInv'
  BY <1>2, <1>8, <1>18, FactorsKept DEF Same
<1> QED BY <1>11, <1>13, <1>15, <1>17, <1>19 DEF MfaInv

\* A proof that is wrong counts against the ceremony.
LEMMA BadProofStep ==
    ASSUME MfaInv, NEW r \in MfaRequest, CheckProof(r), ~GoodProof(mfa[r].proof, mfa[r].ceremony)
    PROVE  MfaInv'
<1>1. /\ MfaTypeOK /\ mfa[r].at = "proof" /\ PlaceTrue(r) /\ CeremonyTrue(r)
      /\ holder' = Unlocked(r) /\ mfa' = Answered(r, "other")
      /\ UNCHANGED <<totp, passkey, codes, clock, mfaScene, mfaGhosts>>
  BY DEF MfaInv, PlacesInv, CeremoniesInv, CheckProof, Does
<1>2. PICK c \in Ceremony : c = mfa[r].ceremony
  BY <1>1 DEF PlaceTrue, SignInPlaces
<1>3. /\ holder[c] = r /\ ceremony[c].status = "live" /\ ceremony[c].purpose = "login"
      /\ ceremony[c].attempts < MaxAttempts /\ ceremony[c] \in CeremonyRow
      /\ ceremony[c].attempts \in Nat
  BY <1>1, <1>2, CeremonyTypes DEF CeremonyTrue
<1>4. PICK z : z = [ceremony[c] EXCEPT !.attempts = ceremony[c].attempts + 1]
  OBVIOUS
<1>5. z \in CeremonyRow /\ z.status = ceremony[c].status /\ z.purpose = ceremony[c].purpose
      /\ z.attempts = ceremony[c].attempts + 1
  BY <1>3, <1>4 DEF CeremonyRow
<1>6. ceremony' = [ceremony EXCEPT ![c] = z]
  BY <1>1, <1>2, <1>4 DEF CheckProof, MfaTypeOK, CeremonyRow
<1>7. Locks(r)
  BY <1>1, LocksMove
<1>8. PICK x \in MfaJob : Acts(r, x) /\ x.at = "done" /\ x.older = {} /\ x.answer = "other"
  BY <1>1, <1>7, AnsweredActs
<1>9. mfa'[r] = x
  BY <1>1, <1>8, OthersSame
<1>10. PlaceTrue(r)' /\ CeremonyTrue(r)' /\ FactorTrue(r)'
  BY <1>8, <1>9 DEF PlaceTrue, CeremonyTrue, FactorTrue, SignInPlaces
<1>11. \A q \in MfaRequest : Same(q) => holder[c] # q
  BY <1>1, <1>3, <1>8, <1>9 DEF Same
<1>12. UNCHANGED passed
  BY <1>1 DEF mfaGhosts
<1> QED BY <1>1, <1>3, <1>5, <1>6, <1>8, <1>10, <1>11, <1>12, OneCeremonyMoves, CeremonyRequest

\* The proof of a sign-in is checked.
LEMMA CheckProofStep ==
    ASSUME MfaInv, NEW r \in MfaRequest, CheckProof(r)
    PROVE  MfaInv'
BY GoodProofStep, BadProofStep

-----------------------------------------------------------------------------
\* A sign-in uses up the recovery code it has locked.
LEMMA CodeSpent ==
    ASSUME MfaInv, MfaTypeOK', NEW r \in MfaRequest, mfa[r].at = "pending", mfa'[r].at = "done",
           \A q \in MfaRequest : q # r => Same(q), mfa'[r].older = {}, UNCHANGED superseded,
           NEW b \in Batch, b \in codes, holder["codes"] = r,
           codes' = codes \ {b}, redeemed' = [redeemed EXCEPT ![b] = redeemed[b] + 1]
    PROVE  RecoveryInv'
<1>1. RecoveryInv /\ redeemed \in [Batch -> Nat] /\ redeemed[b] = 0
  BY DEF MfaInv, PlacesInv, MfaTypeOK, RecoveryInv
<1>2. redeemed'[b] = 1 /\ \A k \in Batch : k # b => redeemed'[k] = redeemed[k]
  BY <1>1
<1>3. WrittenBatch \subseteq WrittenBatch'
  BY DEF WrittenBatch, Same
<1>4. ASSUME NEW q \in MfaRequest PROVE CodesTrue(q)'
  <2>1. CASE q = r
    BY <2>1 DEF CodesTrue, Won
  <2>2. CASE q # r
    BY <1>1, <1>3, <2>2 DEF RecoveryInv, CodesTrue, Won, Same, Resource
  <2> QED BY <2>1, <2>2
<1>5. ASSUME NEW k \in Batch
      PROVE  redeemed'[k] <= 1 /\ (k \in codes' \/ k \notin WrittenBatch' => redeemed'[k] = 0)
  BY <1>1, <1>2, <1>3 DEF RecoveryInv
<1>6. /\ codes' \subseteq WrittenBatch' /\ superseded' \subseteq WrittenBatch'
      /\ superseded' \cap codes' = {}
  BY <1>1, <1>3 DEF RecoveryInv
<1> QED BY <1>4, <1>5, <1>6 DEF RecoveryInv

\* A sign-in stores the time at which it began with the authenticator it has locked.
LEMMA TotpSpent ==
    ASSUME MfaInv, NEW r \in MfaRequest, mfa'[r].at = "done",
           \A q \in MfaRequest : q # r => Same(q), UNCHANGED saved,
           NEW s \in Secret, NEW n \in 0 .. MaxTotpStep + 1, NEW b \in 0 .. MaxTotpStep,
           totp.secret = s, n >= totp.last, holder["totp"] = r,
           totp' = [totp EXCEPT !.last = b + 1],
           accepted' = accepted \cup {<<s, n>>},
           replayed' = replayed \cup ({<<s, n>>} \cap accepted),
           behind' = IF n > b THEN behind \cup {s} ELSE behind
    PROVE  TotpInv'
<1>1. /\ TotpInv /\ totp \in [secret : Secret \cup {NoSecret}, last : 0 .. MaxTotpStep + 1]
      /\ accepted \subseteq Secret \X (0 .. MaxTotpStep + 1) /\ MaxTotpStep \in Nat
  BY MfaAssumption DEF MfaInv, PlacesInv, MfaTypeOK
<1>2. totp'.secret = s /\ totp'.last = b + 1 /\ totp.last \in Nat /\ n \in Nat /\ b \in Nat
  BY <1>1
<1>3. ASSUME NEW k \in accepted'
      PROVE  /\ k[1] \in Ceremony => saved'[k[1]] >= 1
             /\ \/ k[1] \in behind' \/ saved'[k[1]] > 1
                \/ totp'.secret # k[1] \/ k[2] < totp'.last
  <2>1. CASE k = <<s, n>>
    <3>1. k[1] = s /\ k[2] = n
      BY <2>1
    <3> QED BY <1>1, <1>2, <3>1 DEF TotpInv
  <2>2. CASE k \in accepted
    <3>1. k[2] \in Nat
      BY <1>1, <2>2
    <3> QED BY <1>1, <1>2, <2>2, <3>1 DEF TotpInv
  <2> QED BY <2>1, <2>2
<1>4. \A q \in MfaRequest : ~Won(q, "totp")'
  BY <1>1 DEF TotpInv, Won, Same
<1>5. AuthenticatorCodeOnce'
  <2> SUFFICES ASSUME NEW k \in replayed' PROVE k[1] \in behind' \/ saved'[k[1]] > 1
    BY DEF AuthenticatorCodeOnce
  <2>1. CASE k \in replayed
    BY <1>1, <2>1 DEF TotpInv, AuthenticatorCodeOnce
  <2>2. CASE k = <<s, n>> /\ k \in accepted
    <3>1. k[1] = s /\ k[2] = n
      BY <2>2
    <3> QED BY <1>1, <1>2, <2>2, <3>1 DEF TotpInv
  <2> QED BY <2>1, <2>2
<1> QED BY <1>1, <1>2, <1>3, <1>4, <1>5 DEF TotpInv

\* What the commit of a sign-in leaves of the types.
LEMMA CommitTypes ==
    ASSUME MfaInv, NEW r \in MfaRequest, CommitSignIn(r), NEW x \in MfaJob, Acts(r, x),
           mfa' \in [MfaRequest -> MfaJob]
    PROVE  MfaTypeOK'
<1>1. PICK p \in Proof, b \in 0 .. MaxTotpStep : p = mfa[r].proof /\ b = mfa[r].began
  BY MfaTypes DEF MfaInv, PlacesInv
<1>2. /\ MfaTypeOK /\ PlaceTrue(r) /\ mfa[r].at = "pending" /\ MaxTotpStep \in Nat
      /\ mfa[r].won \in BOOLEAN
  BY MfaAssumption, MfaTypes DEF MfaInv, PlacesInv, CommitSignIn, Does
<1>3. /\ totp' = IF mfa[r].won /\ p.with = "totp" THEN [totp EXCEPT !.last = b + 1] ELSE totp
      /\ codes' = IF mfa[r].won /\ p.with = "recovery" THEN codes \ {p.code} ELSE codes
      /\ ceremony' = IF mfa[r].won THEN [ceremony EXCEPT ![mfa[r].ceremony].status = "used"]
                     ELSE ceremony
      /\ redeemed' = IF mfa[r].won /\ p.with = "recovery"
                     THEN [redeemed EXCEPT ![p.code] = @ + 1] ELSE redeemed
      /\ passed' = IF mfa[r].won THEN [passed EXCEPT ![mfa[r].ceremony] = @ + 1] ELSE passed
      /\ accepted' = IF mfa[r].won /\ p.with = "totp" THEN accepted \cup {<<p.secret, p.step>>}
                     ELSE accepted
      /\ replayed' = IF mfa[r].won /\ p.with = "totp"
                     THEN replayed \cup ({<<p.secret, p.step>>} \cap accepted) ELSE replayed
      /\ behind' = IF mfa[r].won /\ p.with = "totp" /\ p.step > b THEN behind \cup {p.secret}
                   ELSE behind
      /\ UNCHANGED <<passkey, clock, mfaScene, saved, bare, gained, superseded>>
  BY <1>1 DEF CommitSignIn, Touched
<1>4. totp' \in [secret : Secret \cup {NoSecret}, last : 0 .. MaxTotpStep + 1]
  <2>1. totp \in [secret : Secret \cup {NoSecret}, last : 0 .. MaxTotpStep + 1]
        /\ b + 1 \in 0 .. MaxTotpStep + 1
    BY <1>2 DEF MfaTypeOK
  <2> QED BY <1>3, <2>1
<1>5. ceremony' \in [Ceremony -> CeremonyRow]
  <2>1. CASE mfa[r].won
    <3>1. PICK c \in Ceremony : c = mfa[r].ceremony
      BY <1>2, <2>1 DEF PlaceTrue, SignInPlaces
    <3>2. PICK z : z = [ceremony[c] EXCEPT !.status = "used"]
      OBVIOUS
    <3>3. z \in CeremonyRow /\ ceremony \in [Ceremony -> CeremonyRow]
      BY <1>2, <3>2, CeremonyTypes DEF MfaTypeOK, CeremonyRow
    <3>4. ceremony' = [ceremony EXCEPT ![c] = z]
      BY <1>3, <2>1, <3>1, <3>2
    <3> QED BY <3>3, <3>4
  <2>2. CASE ~mfa[r].won
    BY <1>2, <1>3, <2>2 DEF MfaTypeOK
  <2> QED BY <2>1, <2>2
<1>6. redeemed' \in [Batch -> Nat] /\ codes' \subseteq Batch
  BY <1>2, <1>3, ProofTypes DEF MfaTypeOK
<1>7. passed' \in [Ceremony -> Nat]
  <2>1. passed \in [Ceremony -> Nat] /\ (mfa[r].won => mfa[r].ceremony \in Ceremony)
    BY <1>2 DEF PlaceTrue, SignInPlaces, MfaTypeOK
  <2> QED BY <1>3, <2>1
<1>8. /\ accepted' \subseteq Secret \X (0 .. MaxTotpStep + 1) /\ replayed' \subseteq accepted'
      /\ behind' \subseteq Secret
  <2>1. p.with = "totp" => p.secret \in Secret /\ p.step \in 0 .. MaxTotpStep + 1
    BY ProofTypes
  <2>2. /\ accepted \subseteq Secret \X (0 .. MaxTotpStep + 1) /\ replayed \subseteq accepted
        /\ behind \subseteq Secret
    BY <1>2 DEF MfaTypeOK
  <2> QED BY <1>3, <2>1, <2>2
<1> QED BY <1>2, <1>3, <1>4, <1>5, <1>6, <1>7, <1>8 DEF MfaTypeOK, Acts

\* A sign-in commits without a proof: it had no second factor to prove.
LEMMA BareCommit ==
    ASSUME MfaInv, NEW r \in MfaRequest, CommitSignIn(r), ~mfa[r].won
    PROVE  MfaInv'
<1>1. /\ MfaTypeOK /\ mfa[r].at = "pending" /\ FactorTrue(r) /\ holder' = Unlocked(r)
      /\ UNCHANGED <<mfaData, clock, mfaScene, mfaGhosts>>
  BY DEF MfaInv, PlacesInv, FactorsInv, CommitSignIn, Does, mfaData, mfaGhosts
<1>2. PICK answer \in {"tokens", "other"} : mfa' = Answered(r, answer)
  BY DEF CommitSignIn
<1>3. Locks(r)
  BY <1>1, LocksMove
<1>4. PICK x \in MfaJob : Acts(r, x) /\ x.at = "done" /\ x.older = {}
  BY <1>1, <1>2, <1>3, AnsweredActs
<1>5. /\ mfa' \in [MfaRequest -> MfaJob] /\ mfa'[r] = x
      /\ \A q \in MfaRequest : q # r => Same(q)
  BY <1>1, <1>4, OthersSame
<1>6. PlaceTrue(r)' /\ CeremonyTrue(r)' /\ FactorTrue(r)'
  BY <1>4, <1>5 DEF PlaceTrue, CeremonyTrue, FactorTrue, SignInPlaces
<1> USE DEF mfaData, mfaGhosts
<1>7. MfaTypeOK'
  BY <1>1, <1>4, <1>5 DEF MfaTypeOK, Acts
<1>8. PlacesInv'
  BY <1>5, <1>6, <1>7 DEF MfaInv, PlacesInv, PlaceTrue, Same
<1>9. CeremoniesInv'
  BY <1>1, <1>5, <1>6, <1>7, CeremoniesKept
<1>10. RecoveryInv'
  BY <1>1, <1>4, <1>5, <1>7, CodesKept DEF Won
<1>11. TotpInv'
  BY <1>1, <1>4, <1>5, TotpKept DEF Won
<1>12. r \in bare \cup gained
  BY <1>1 DEF FactorTrue
<1>13. FactorsInv'
  BY <1>1, <1>5, <1>6, <1>12, FactorsKept DEF Same
<1> QED BY <1>8, <1>9, <1>10, <1>11, <1>13 DEF MfaInv

\* A sign-in commits with the proof it has checked.
LEMMA ProvedCommit ==
    ASSUME MfaInv, NEW r \in MfaRequest, CommitSignIn(r), mfa[r].won
    PROVE  MfaInv'
<1>1. PICK p \in Proof, b \in 0 .. MaxTotpStep : p = mfa[r].proof /\ b = mfa[r].began
  BY MfaTypes DEF MfaInv, PlacesInv
<1>2. /\ MfaTypeOK /\ mfa[r].at = "pending" /\ PlaceTrue(r) /\ CeremonyTrue(r)
      /\ holder' = Unlocked(r) /\ mfa[r].won
  BY DEF MfaInv, PlacesInv, CeremoniesInv, CommitSignIn, Does
<1>3. PICK answer \in {"tokens", "other"} : mfa' = Answered(r, answer)
  BY DEF CommitSignIn
<1>4. Locks(r)
  BY <1>2, LocksMove
<1>5. PICK x \in MfaJob : Acts(r, x) /\ x.at = "done" /\ x.older = {} /\ x.won = mfa[r].won
  BY <1>2, <1>3, <1>4, AnsweredActs
<1>6. /\ mfa' \in [MfaRequest -> MfaJob] /\ mfa'[r] = x
      /\ \A q \in MfaRequest : q # r => Same(q)
  BY <1>2, <1>5, OthersSame
<1>7. PlaceTrue(r)' /\ CeremonyTrue(r)' /\ FactorTrue(r)'
  BY <1>5, <1>6 DEF PlaceTrue, CeremonyTrue, FactorTrue, SignInPlaces
<1>8. MfaTypeOK'
  BY <1>5, <1>6, CommitTypes
<1>9. PlacesInv'
  BY <1>6, <1>7, <1>8 DEF MfaInv, PlacesInv, PlaceTrue, Same
<1>10. PICK c \in Ceremony : /\ c = mfa[r].ceremony /\ holder[c] = r
                            /\ ceremony[c].status = "live" /\ ceremony[c].purpose = "login"
  BY <1>2 DEF PlaceTrue, CeremonyTrue, SignInPlaces
<1>11. CeremoniesInv'
  <2>1. /\ ceremony' = [ceremony EXCEPT ![c].status = "used"]
        /\ passed' = [passed EXCEPT ![c] = @ + 1]
    BY <1>2, <1>10 DEF CommitSignIn
  <2>2. /\ ceremony \in [Ceremony -> CeremonyRow] /\ passed \in [Ceremony -> Nat]
        /\ ceremony[c] \in CeremonyRow
    BY <1>2, CeremonyTypes DEF MfaTypeOK
  <2>3. /\ ceremony'[c].status = "used" /\ ceremony'[c].purpose = ceremony[c].purpose
        /\ ceremony'[c].attempts = ceremony[c].attempts
        /\ \A k \in Ceremony : k # c => ceremony'[k] = ceremony[k]
    BY <2>1, <2>2 DEF CeremonyRow
  <2>4. passed'[c] = passed[c] + 1 /\ \A k \in Ceremony : k # c => passed'[k] = passed[k]
    BY <2>1, <2>2
  <2>5. ~Same(r)
    BY <1>2, <1>5, <1>6 DEF Same
  <2>6. ASSUME NEW k \in Ceremony PROVE PassedTrue(k)'
    <3>1. PassedTrue(k) /\ passed[k] \in Nat
      BY <2>2 DEF MfaInv, CeremoniesInv
    <3>2. CASE k = c
      BY <1>10, <2>3, <2>4, <3>1, <3>2 DEF PassedTrue
    <3>3. CASE k # c
      BY <2>3, <2>4, <3>1, <3>3 DEF PassedTrue
    <3> QED BY <3>2, <3>3
  <2>7. ASSUME NEW k \in Ceremony
        PROVE  /\ ceremony[k].status # "unborn" =>
                     ceremony'[k].status # "unborn" /\ ceremony'[k].purpose = ceremony[k].purpose
               /\ ceremony[k].status = "live" /\ ceremony[k].purpose = "login" =>
                     ceremony'[k] = ceremony[k] \/ \A q \in MfaRequest : Same(q) => holder[k] # q
    <3>1. CASE k = c
      BY <1>10, <2>3, <2>5, <3>1
    <3>2. CASE k # c
      BY <2>3, <3>2
    <3> QED BY <3>1, <3>2
  <2> QED BY <1>6, <1>7, <1>8, <2>6, <2>7, CeremoniesMove
<1>12. RecoveryInv'
  <2>1. UNCHANGED superseded
    BY DEF CommitSignIn
  <2>2. CASE p.with = "recovery"
    <3>1. Won(r, "recovery")
      BY <1>1, <1>2, <2>2 DEF Won
    <3>2. PICK k \in Batch : k = p.code /\ k \in codes /\ holder["codes"] = r
      BY <1>1, <3>1, <2>2, ProofTypes DEF MfaInv, RecoveryInv, CodesTrue
    <3>3. codes' = codes \ {k} /\ redeemed' = [redeemed EXCEPT ![k] = redeemed[k] + 1]
      BY <1>1, <1>2, <2>2, <3>2 DEF CommitSignIn
    <3> QED BY <1>2, <1>5, <1>6, <1>8, <2>1, <3>2, <3>3, CodeSpent
  <2>3. CASE p.with # "recovery"
    <3>1. UNCHANGED <<codes, redeemed>>
      BY <1>1, <2>3 DEF CommitSignIn
    <3> QED BY <1>2, <1>5, <1>6, <1>8, <2>1, <3>1, CodesKept DEF Won
  <2> QED BY <2>2, <2>3
<1>13. TotpInv'
  <2>1. UNCHANGED saved
    BY DEF CommitSignIn
  <2>2. CASE p.with = "totp"
    <3>1. Won(r, "totp")
      BY <1>1, <1>2, <2>2 DEF Won
    <3>2. PICK s \in Secret, n \in 0 .. MaxTotpStep + 1 :
            /\ s = p.secret /\ n = p.step
            /\ totp.secret = s /\ n >= totp.last /\ holder["totp"] = r
      BY <1>1, <2>2, <3>1, ProofTypes DEF MfaInv, TotpInv
    <3>3. /\ totp' = [totp EXCEPT !.last = b + 1]
          /\ accepted' = accepted \cup {<<s, n>>}
          /\ replayed' = replayed \cup ({<<s, n>>} \cap accepted)
          /\ behind' = IF n > b THEN behind \cup {s} ELSE behind
      BY <1>1, <1>2, <2>2, <3>2 DEF CommitSignIn, Touched
    <3> QED BY <1>5, <1>6, <2>1, <3>2, <3>3, TotpSpent
  <2>3. CASE p.with # "totp"
    <3>1. UNCHANGED <<totp, accepted, replayed, behind>>
      BY <1>1, <2>3 DEF CommitSignIn
    <3> QED BY <1>5, <1>6, <2>1, <3>1, TotpKept DEF Won
  <2> QED BY <2>2, <2>3
<1>14. FactorsInv'
  <2>1. UNCHANGED <<passkey, bare, gained>>
    BY DEF CommitSignIn
  <2>2. totp'.secret = totp.secret
    <3>1. totp' = [totp EXCEPT !.last = b + 1] \/ totp' = totp
      BY <1>1 DEF CommitSignIn, Touched
    <3> QED BY <1>2, <3>1 DEF MfaTypeOK
  <2> QED BY <1>2, <1>5, <1>6, <1>7, <2>1, <2>2, FactorsKept DEF Same
<1> QED BY <1>9, <1>11, <1>12, <1>13, <1>14 DEF MfaInv

\* A sign-in commits.
LEMMA CommitStep ==
    ASSUME MfaInv, NEW r \in MfaRequest, CommitSignIn(r)
    PROVE  MfaInv'
BY BareCommit, ProvedCommit

-----------------------------------------------------------------------------
\* The authenticator goes, while no sign-in holds it.
LEMMA TotpGone ==
    ASSUME MfaInv, totp' = [secret |-> NoSecret, last |-> 0],
           UNCHANGED <<saved, accepted, replayed, behind>>,
           \A q \in MfaRequest : (Same(q) /\ holder["totp"] # q) \/ ~Won(q, "totp")'
    PROVE  TotpInv'
<1>1. TotpInv /\ accepted \subseteq Secret \X (0 .. MaxTotpStep + 1)
  BY DEF MfaInv, PlacesInv, MfaTypeOK
<1>2. totp'.secret = NoSecret /\ NoSecret \notin Secret
  BY MfaAssumption DEF Secret
<1>3. \A q \in MfaRequest : ~Won(q, "totp")'
  BY <1>1 DEF TotpInv, Won, Same
<1>4. \A k \in accepted : k[1] \in Secret
  BY <1>1
<1>5. totp'.secret \notin Ceremony
  BY <1>2 DEF Secret
<1> QED BY <1>1, <1>2, <1>3, <1>4, <1>5 DEF TotpInv, AuthenticatorCodeOnce

\* A factor goes: every sign-in under way is noted if it was the last.
LEMMA FactorGone ==
    ASSUME MfaInv, Watch, UNCHANGED gained, HasTotp' => HasTotp,
           \A q \in MfaRequest :
              mfa'[q] = mfa[q] \/
                 /\ mfa'[q].at \notin {"keys", "pending"} /\ mfa'[q].answer # "tokens"
                 /\ mfa'[q].kind = "signin" => mfa[q].kind = "signin" /\ mfa[q].at # "done"
    PROVE  FactorsInv'
<1>1. FactorsInv
  BY DEF MfaInv
<1>2. bare \subseteq bare'
      /\ (Factors(totp, passkey)' \/ \A q \in MfaRequest :
                       mfa[q].kind = "signin" /\ mfa[q].at # "done" => q \in bare')
  BY DEF Watch, Does, Factors
<1>3. ASSUME NEW q \in MfaRequest PROVE FactorTrue(q)'
  BY <1>1, <1>2 DEF FactorsInv, FactorTrue
<1>4. SecondFactorAsked'
  BY <1>1, <1>2 DEF FactorsInv, SecondFactorAsked
<1> QED BY <1>3, <1>4 DEF FactorsInv

\* A reset, or the owner, takes the authenticator.
LEMMA LoseTotpStep ==
    ASSUME MfaInv, DeleteTotp \/ \E r \in MfaRequest : ResetTotp(r)
    PROVE  MfaInv'
<1>1. /\ MfaTypeOK /\ totp' = [secret |-> NoSecret, last |-> 0] /\ Watch
      /\ UNCHANGED <<passkey, codes, ceremony, clock, holder, mfaScene, redeemed, passed, accepted,
                     replayed, behind, saved, gained, superseded>>
  BY DEF MfaInv, PlacesInv, DeleteTotp, ResetTotp
<1>2. /\ totp' \in [secret : Secret \cup {NoSecret}, last : 0 .. MaxTotpStep + 1]
      /\ bare' \subseteq MfaRequest /\ ~HasTotp'
  <2>1. 0 \in 0 .. MaxTotpStep + 1
    BY MfaAssumption
  <2> QED BY <1>1, <2>1 DEF MfaTypeOK, Watch, HasTotp
<1>3. CASE DeleteTotp
  <2>1. UNCHANGED mfa /\ holder["totp"] = NoMfa
    BY <1>3 DEF DeleteTotp
  <2>2. \A q \in MfaRequest : Same(q) /\ holder["totp"] # q
    BY <1>1, <2>1, MfaAssumption DEF Same
  <2>3. MfaTypeOK'
    BY <1>1, <1>2, <2>1 DEF MfaTypeOK
  <2>4. PlacesInv'
    BY <2>1, <2>3 DEF MfaInv, PlacesInv, PlaceTrue
  <2>5. CeremoniesInv'
    BY <1>1, <2>2, <2>3, CeremoniesKept
  <2>6. RecoveryInv'
    BY <1>1, <2>2, <2>3, CodesKept
  <2>7. TotpInv'
    BY <1>1, <2>2, TotpGone
  <2>8. FactorsInv'
    BY <1>1, <1>2, <2>1, FactorGone
  <2> QED BY <2>4, <2>5, <2>6, <2>7, <2>8 DEF MfaInv
<1>4. ASSUME NEW r \in MfaRequest, ResetTotp(r) PROVE MfaInv'
  <2>1. mfa[r].at = "new" /\ Free("totp", r) /\ PlaceTrue(r) /\ mfa[r] \in MfaJob
    BY <1>1, <1>4, MfaTypes DEF ResetTotp, Does, MfaInv, PlacesInv
  <2>2. PICK x : x = [mfa[r] EXCEPT !.at = "reset_keys", !.kind = "reset"]
    OBVIOUS
  <2>3. x \in MfaJob /\ x.at = "reset_keys" /\ x.kind = "reset" /\ x.won = mfa[r].won
        /\ x.older = mfa[r].older /\ x.answer = mfa[r].answer
    BY <2>1, <2>2 DEF MfaJob, MfaPlaces, MfaKinds
  <2>4. mfa' = [mfa EXCEPT ![r] = x]
    BY <1>1, <1>4, <2>2 DEF ResetTotp, MfaTypeOK
  <2>5. Acts(r, x)
    BY <1>1, <2>3, <2>4, LocksMove DEF Acts, Locks
  <2>6. /\ mfa' \in [MfaRequest -> MfaJob] /\ mfa'[r] = x
        /\ \A q \in MfaRequest : q # r => Same(q)
    BY <1>1, <2>5, OthersSame
  <2>7. MfaTypeOK'
    BY <1>1, <1>2, <2>6 DEF MfaTypeOK
  <2>8. PlaceTrue(r)' /\ CeremonyTrue(r)' /\ x.answer = "none"
    BY <2>1, <2>3, <2>6 DEF PlaceTrue, CeremonyTrue, SignInPlaces
  <2>9. PlacesInv'
    BY <2>6, <2>7, <2>8 DEF MfaInv, PlacesInv, PlaceTrue, Same
  <2>10. CeremoniesInv'
    BY <1>1, <2>6, <2>7, <2>8, CeremoniesKept
  <2>11. RecoveryInv'
    BY <1>1, <2>1, <2>3, <2>6, <2>7, CodesKept DEF Won
  <2>12. \A q \in MfaRequest : (Same(q) /\ holder["totp"] # q) \/ ~Won(q, "totp")'
    BY <2>1, <2>3, <2>6, MfaAssumption DEF Free, Won
  <2>13. TotpInv'
    BY <1>1, <2>12, TotpGone
  <2>14. FactorsInv'
    BY <1>1, <1>2, <2>3, <2>6, <2>8, FactorGone DEF Same
  <2> QED BY <2>9, <2>10, <2>11, <2>13, <2>14 DEF MfaInv
<1> QED BY <1>3, <1>4

\* A reset, or the owner, takes the passkey.
LEMMA LosePasskeyStep ==
    ASSUME MfaInv, DeletePasskey \/ \E r \in MfaRequest : ResetPasskeys(r)
    PROVE  MfaInv'
<1>1. /\ MfaTypeOK /\ passkey' = FALSE /\ Watch
      /\ UNCHANGED <<totp, codes, ceremony, clock, holder, mfaScene, redeemed, passed, accepted,
                     replayed, behind, saved, gained, superseded>>
  BY DEF MfaInv, PlacesInv, DeletePasskey, ResetPasskeys
<1>2. bare' \subseteq MfaRequest /\ (HasTotp' => HasTotp)
  BY <1>1 DEF MfaTypeOK, Watch, HasTotp
<1>3. CASE DeletePasskey
  <2>1. UNCHANGED mfa
    BY <1>3 DEF DeletePasskey
  <2>2. \A q \in MfaRequest : Same(q)
    BY <1>1, <2>1 DEF Same
  <2>3. MfaTypeOK'
    BY <1>1, <1>2, <2>1 DEF MfaTypeOK
  <2>4. PlacesInv'
    BY <2>1, <2>3 DEF MfaInv, PlacesInv, PlaceTrue
  <2>5. CeremoniesInv'
    BY <1>1, <2>2, <2>3, CeremoniesKept
  <2>6. RecoveryInv'
    BY <1>1, <2>2, <2>3, CodesKept
  <2>7. TotpInv'
    BY <1>1, <2>2, TotpKept
  <2>8. FactorsInv'
    BY <1>1, <1>2, <2>1, FactorGone
  <2> QED BY <2>4, <2>5, <2>6, <2>7, <2>8 DEF MfaInv
<1>4. ASSUME NEW r \in MfaRequest, ResetPasskeys(r) PROVE MfaInv'
  <2>1. mfa[r].at = "reset_keys" /\ Going(r, "reset_codes") /\ PlaceTrue(r)
    BY <1>4 DEF ResetPasskeys, Does, MfaInv, PlacesInv
  <2>2. Locks(r) /\ "reset_codes" \in MfaPlaces
    BY <1>1, LocksMove DEF MfaPlaces
  <2>3. PICK x \in MfaJob :
          /\ Acts(r, x) /\ x.at = "reset_codes" /\ x.kind = mfa[r].kind /\ x.won = mfa[r].won
          /\ x.older = mfa[r].older /\ x.answer = mfa[r].answer
    BY <1>1, <2>1, <2>2, GoingActs
  <2>4. /\ mfa' \in [MfaRequest -> MfaJob] /\ mfa'[r] = x
        /\ \A q \in MfaRequest : q # r => Same(q)
    BY <1>1, <2>3, OthersSame
  <2>5. MfaTypeOK'
    BY <1>1, <1>2, <2>4 DEF MfaTypeOK
  <2>6. PlaceTrue(r)' /\ CeremonyTrue(r)' /\ x.answer = "none"
    BY <2>1, <2>3, <2>4 DEF PlaceTrue, CeremonyTrue, SignInPlaces
  <2>7. PlacesInv'
    BY <2>4, <2>5, <2>6 DEF MfaInv, PlacesInv, PlaceTrue, Same
  <2>8. CeremoniesInv'
    BY <1>1, <2>4, <2>5, <2>6, CeremoniesKept
  <2>9. RecoveryInv'
    BY <1>1, <2>1, <2>3, <2>4, <2>5, CodesKept DEF Won
  <2>10. TotpInv'
    BY <1>1, <2>3, <2>4, TotpKept DEF Won
  <2>11. FactorsInv'
    BY <1>1, <1>2, <2>1, <2>3, <2>4, <2>6, FactorGone DEF Same
  <2> QED BY <2>7, <2>8, <2>9, <2>10, <2>11 DEF MfaInv
<1> QED BY <1>3, <1>4

-----------------------------------------------------------------------------
\* An enrolment stores an authenticator or a passkey.
LEMMA SaveStep ==
    ASSUME MfaInv, NEW r \in MfaRequest, SaveFactor(r)
    PROVE  MfaInv'
<1>1. /\ MfaTypeOK /\ mfa[r].at = "save" /\ CeremonyTrue(r) /\ PlaceTrue(r) /\ Going(r, "use")
      /\ UNCHANGED <<codes, ceremony, clock, holder, mfaScene, redeemed, passed, accepted, replayed,
                     behind, bare, superseded>>
      /\ saved \in [Secret -> Nat]
  BY DEF MfaInv, PlacesInv, CeremoniesInv, SaveFactor, Does, MfaTypeOK
<1>2. PICK c \in Ceremony : /\ c = mfa[r].ceremony /\ ceremony[c].status # "unborn"
                            /\ mfa[r].kind \in {"authenticator", "passkey"}
                            /\ ceremony[c].purpose = mfa[r].kind
  BY <1>1 DEF CeremonyTrue
<1>3. Locks(r) /\ "use" \in MfaPlaces
  BY <1>1, LocksMove DEF MfaPlaces
<1>4. PICK x \in MfaJob :
          /\ Acts(r, x) /\ x.at = "use" /\ x.kind = mfa[r].kind /\ x.won = mfa[r].won
          /\ x.ceremony = mfa[r].ceremony /\ x.older = mfa[r].older /\ x.answer = mfa[r].answer
  BY <1>1, <1>3, GoingActs
<1>5. /\ mfa' \in [MfaRequest -> MfaJob] /\ mfa'[r] = x
      /\ \A q \in MfaRequest : q # r => Same(q)
  BY <1>1, <1>4, OthersSame
<1>6. \/ /\ Free("totp", r) /\ totp' = [secret |-> c, last |-> 0]
         /\ saved' = [saved EXCEPT ![c] = saved[c] + 1]
         /\ gained' = gained \cup {q \in MfaRequest : mfa[q].kind = "signin"}
         /\ UNCHANGED passkey
      \/ passkey' = TRUE /\ UNCHANGED <<totp, saved, gained>>
  BY <1>2 DEF SaveFactor
<1>7. c \in Secret /\ c # FirstSecret /\ c # NoSecret /\ 0 \in 0 .. MaxTotpStep + 1
  BY MfaAssumption DEF Secret
<1>8. MfaTypeOK'
  <2>1. /\ totp \in [secret : Secret \cup {NoSecret}, last : 0 .. MaxTotpStep + 1]
        /\ passkey \in BOOLEAN
    BY <1>1 DEF MfaTypeOK
  <2>2. totp' = [secret |-> c, last |-> 0] \/ totp' = totp
    BY <1>6
  <2>3. totp' \in [secret : Secret \cup {NoSecret}, last : 0 .. MaxTotpStep + 1]
    BY <1>7, <2>1, <2>2
  <2>4. passkey' \in BOOLEAN
    BY <1>6, <2>1
  <2>5. saved' \in [Secret -> Nat] /\ gained' \subseteq MfaRequest
    BY <1>1, <1>6, <1>7 DEF MfaTypeOK
  <2> QED BY <1>1, <1>5, <2>3, <2>4, <2>5 DEF MfaTypeOK
<1>9. PlaceTrue(r)' /\ CeremonyTrue(r)' /\ x.answer = "none"
  BY <1>1, <1>2, <1>4, <1>5 DEF PlaceTrue, CeremonyTrue, SignInPlaces
<1>10. PlacesInv'
  BY <1>5, <1>8, <1>9 DEF MfaInv, PlacesInv, PlaceTrue, Same
<1>11. CeremoniesInv'
  BY <1>1, <1>5, <1>8, <1>9, CeremoniesKept
<1>12. RecoveryInv'
  BY <1>1, <1>4, <1>5, <1>8, CodesKept DEF Won
<1>13. CASE passkey' = TRUE /\ UNCHANGED <<totp, saved, gained>>
  <2>1. TotpInv'
    BY <1>1, <1>4, <1>5, <1>13, TotpKept DEF Won
  <2>2. FactorsInv
    BY DEF MfaInv
  <2>3. \A q \in MfaRequest : FactorTrue(q)'
    BY <1>1, <1>4, <1>5, <1>13, <2>2 DEF FactorsInv, FactorTrue, Factors, HasTotp, Same
  <2>4. SecondFactorAsked'
    BY <1>1, <1>4, <1>5, <1>9, <1>13, <2>2 DEF FactorsInv, SecondFactorAsked, Same
  <2> QED BY <1>10, <1>11, <1>12, <2>1, <2>3, <2>4 DEF MfaInv, FactorsInv
<1>14. CASE /\ Free("totp", r) /\ totp' = [secret |-> c, last |-> 0]
            /\ saved' = [saved EXCEPT ![c] = saved[c] + 1]
            /\ gained' = gained \cup {q \in MfaRequest : mfa[q].kind = "signin"}
            /\ UNCHANGED passkey
  <2>1. TotpInv /\ FactorsInv /\ accepted \subseteq Secret \X (0 .. MaxTotpStep + 1)
        /\ replayed \subseteq accepted
    BY <1>1 DEF MfaInv, MfaTypeOK
  <2>2. totp'.secret = c /\ totp'.last = 0 /\ HasTotp'
    BY <1>7, <1>14 DEF HasTotp
  <2>3. /\ saved'[c] = saved[c] + 1 /\ \A s \in Secret : s # c => saved'[s] = saved[s]
        /\ \A s \in Secret : saved[s] \in Nat /\ saved'[s] \in Nat /\ saved'[s] >= saved[s]
    BY <1>1, <1>7, <1>14
  <2>4. \A q \in MfaRequest : ~Won(q, "totp")'
    BY <1>4, <1>5, <1>14, <2>1, MfaAssumption DEF TotpInv, Won, Same, Free
  <2>5. ASSUME NEW k \in accepted
        PROVE  /\ k[1] \in Ceremony => saved'[k[1]] >= 1
               /\ k[1] \in behind \/ saved'[k[1]] > 1 \/ totp'.secret # k[1]
    <3>1. k[1] \in Secret /\ (k[1] \in Ceremony => saved[k[1]] >= 1)
      BY <2>1 DEF TotpInv
    <3> QED BY <2>2, <2>3, <3>1
  <2>6. AuthenticatorCodeOnce'
    <3> SUFFICES ASSUME NEW k \in replayed PROVE k[1] \in behind \/ saved'[k[1]] > 1
      BY <1>1 DEF AuthenticatorCodeOnce
    <3>1. k[1] \in Secret /\ (k[1] \in behind \/ saved[k[1]] > 1)
      BY <2>1 DEF TotpInv, AuthenticatorCodeOnce
    <3> QED BY <2>3, <3>1
  <2>7. saved'[FirstSecret] = 0 /\ saved'[c] >= 1
    BY <1>7, <2>1, <2>3 DEF TotpInv, Secret
  <2>8. TotpInv'
    BY <1>1, <2>2, <2>4, <2>5, <2>6, <2>7 DEF TotpInv
  <2>9. ASSUME NEW q \in MfaRequest PROVE FactorTrue(q)'
    <3>1. CASE q = r
      BY <1>4, <1>5, <2>2, <3>1 DEF FactorTrue, Factors, HasTotp
    <3>2. CASE q # r
      <4>1. mfa'[q] = mfa[q] /\ FactorTrue(q) /\ PlaceTrue(q)
        BY <1>5, <2>1, <3>2 DEF FactorsInv, MfaInv, PlacesInv, Same
      <4> QED BY <1>1, <1>14, <2>2, <4>1 DEF FactorTrue, Factors, HasTotp, PlaceTrue, SignInPlaces
    <3> QED BY <3>1, <3>2
  <2>10. SecondFactorAsked'
    BY <1>1, <1>4, <1>5, <1>9, <1>14, <2>1 DEF FactorsInv, SecondFactorAsked, Same
  <2> QED BY <1>10, <1>11, <1>12, <2>8, <2>9, <2>10 DEF MfaInv, FactorsInv
<1> QED BY <1>6, <1>13, <1>14

\* The recovery codes are deleted, while no sign-in holds them.
LEMMA EmptyStep ==
    ASSUME MfaInv, NEW r \in MfaRequest, ClearCodes(r) \/ ResetCodes(r)
    PROVE  MfaInv'
<1>1. /\ MfaTypeOK /\ codes' = {} /\ Free("codes", r) /\ mfa[r].at \in {"clear", "reset_codes"}
      /\ UNCHANGED <<totp, passkey, ceremony, clock, holder, mfaScene, mfaGhosts>>
      /\ PlaceTrue(r) /\ CodesTrue(r) /\ FactorTrue(r)
  BY DEF MfaInv, PlacesInv, RecoveryInv, FactorsInv, ClearCodes, ResetCodes, Does
<1>2. PICK place \in {"insert", "reset_ceremonies"} : Going(r, place)
  BY DEF ClearCodes, ResetCodes
<1>3. Locks(r) /\ place \in MfaPlaces
  BY <1>1, LocksMove DEF MfaPlaces
<1>4. PICK x \in MfaJob :
          /\ Acts(r, x) /\ x.at = place /\ x.kind = mfa[r].kind /\ x.won = mfa[r].won
          /\ x.older = mfa[r].older /\ x.answer = mfa[r].answer
  BY <1>1, <1>2, <1>3, GoingActs
<1>5. /\ mfa' \in [MfaRequest -> MfaJob] /\ mfa'[r] = x
      /\ \A q \in MfaRequest : q # r => Same(q)
  BY <1>1, <1>4, OthersSame
<1> USE DEF mfaGhosts
<1>6. MfaTypeOK'
  BY <1>1, <1>5 DEF MfaTypeOK
<1>7. PlaceTrue(r)' /\ CeremonyTrue(r)' /\ FactorTrue(r)' /\ x.answer = "none"
  BY <1>1, <1>4, <1>5 DEF PlaceTrue, CeremonyTrue, FactorTrue, SignInPlaces
<1>8. PlacesInv'
  BY <1>5, <1>6, <1>7 DEF MfaInv, PlacesInv, PlaceTrue, Same
<1>9. CeremoniesInv'
  BY <1>1, <1>5, <1>6, <1>7, CeremoniesKept
<1>10. RecoveryInv'
  <2>1. RecoveryInv
    BY DEF MfaInv
  <2>2. WrittenBatch \subseteq WrittenBatch'
    BY <1>1, <1>5 DEF WrittenBatch, Same
  <2>3. ASSUME NEW q \in MfaRequest PROVE CodesTrue(q)'
    <3>1. CASE q = r
      BY <1>1, <1>4, <1>5, <2>2, <3>1 DEF CodesTrue, Won
    <3>2. CASE q # r
      BY <1>1, <1>5, <2>1, <2>2, <3>2, MfaAssumption DEF RecoveryInv, CodesTrue, Won, Same, Free
    <3> QED BY <3>1, <3>2
  <2> QED BY <1>1, <2>1, <2>2, <2>3 DEF RecoveryInv
<1>11. TotpInv'
  BY <1>1, <1>4, <1>5, TotpKept DEF Won
<1>12. FactorsInv'
  BY <1>1, <1>5, <1>7, FactorsKept DEF Same
<1> QED BY <1>8, <1>9, <1>10, <1>11, <1>12 DEF MfaInv

\* A replacement of the recovery codes is answered.
LEMMA InsertStep ==
    ASSUME MfaInv, NEW r \in MfaRequest, InsertCodes(r)
    PROVE  MfaInv'
<1>1. /\ MfaTypeOK /\ codes' = codes \cup {r} /\ superseded' = superseded \cup mfa[r].older
      /\ mfa[r].at = "insert" /\ mfa' = Answered(r, "other") /\ r \in Batch
      /\ UNCHANGED <<totp, passkey, ceremony, clock, holder, mfaScene, redeemed, passed, accepted,
                     replayed, behind, saved, bare, gained>>
  BY DEF MfaInv, PlacesInv, InsertCodes, Does, Batch
<1>2. Locks(r)
  BY <1>1, LocksMove
<1>3. PICK x \in MfaJob : Acts(r, x) /\ x.at = "done" /\ x.older = {} /\ x.answer = "other"
  BY <1>1, <1>2, AnsweredActs
<1>4. /\ mfa' \in [MfaRequest -> MfaJob] /\ mfa'[r] = x
      /\ \A q \in MfaRequest : q # r => Same(q)
  BY <1>1, <1>3, OthersSame
<1>5. RecoveryInv /\ CodesTrue(r)
  BY DEF MfaInv, RecoveryInv
<1>6. /\ r \notin WrittenBatch /\ r \in WrittenBatch' /\ WrittenBatch \subseteq WrittenBatch'
      /\ \A b \in WrittenBatch' : b = r \/ b \in WrittenBatch
  BY <1>1, <1>3, <1>4 DEF WrittenBatch, Same
<1>7. mfa[r].older \subseteq WrittenBatch /\ WrittenBatch \subseteq Batch
  BY <1>5 DEF CodesTrue, WrittenBatch
<1>8. MfaTypeOK'
  BY <1>1, <1>4, <1>7 DEF MfaTypeOK
<1>9. PlaceTrue(r)' /\ CeremonyTrue(r)' /\ FactorTrue(r)'
  BY <1>3, <1>4 DEF PlaceTrue, CeremonyTrue, FactorTrue, SignInPlaces
<1>10. PlacesInv'
  BY <1>4, <1>8, <1>9 DEF MfaInv, PlacesInv, PlaceTrue, Same
<1>11. CeremoniesInv'
  BY <1>1, <1>4, <1>8, <1>9, CeremoniesKept
<1>12. RecoveryInv'
  <2>1. ASSUME NEW q \in MfaRequest PROVE CodesTrue(q)'
    <3>1. CASE q = r
      BY <1>3, <1>4, <3>1 DEF CodesTrue, Won
    <3>2. CASE q # r
      BY <1>1, <1>4, <1>5, <1>6, <3>2 DEF RecoveryInv, CodesTrue, Won, Same
    <3> QED BY <3>1, <3>2
  <2>2. superseded' \cap codes' = {}
    BY <1>1, <1>5, <1>6, <1>7 DEF RecoveryInv, CodesTrue
  <2>3. codes' \subseteq WrittenBatch' /\ superseded' \subseteq WrittenBatch'
    BY <1>1, <1>5, <1>6, <1>7 DEF RecoveryInv
  <2>4. \A b \in Batch : redeemed'[b] <= 1 /\ (b \in codes' \/ b \notin WrittenBatch' => redeemed'[b] = 0)
    BY <1>1, <1>5, <1>6 DEF RecoveryInv
  <2> QED BY <2>1, <2>2, <2>3, <2>4 DEF RecoveryInv
<1>13. TotpInv'
  BY <1>1, <1>3, <1>4, TotpKept DEF Won
<1>14. FactorsInv'
  BY <1>1, <1>3, <1>4, <1>9, FactorsKept DEF Same
<1> QED BY <1>10, <1>11, <1>12, <1>13, <1>14 DEF MfaInv

\* A reset deletes the ceremonies, while no sign-in holds one.
LEMMA ResetCeremoniesStep ==
    ASSUME MfaInv, NEW r \in MfaRequest, ResetCeremonies(r)
    PROVE  MfaInv'
<1>1. /\ MfaTypeOK /\ mfa[r].at = "reset_ceremonies" /\ mfa' = Answered(r, "other")
      /\ \A c \in Ceremony : Free(c, r)
      /\ UNCHANGED <<totp, passkey, codes, clock, holder, mfaScene, mfaGhosts>>
  BY DEF MfaInv, PlacesInv, ResetCeremonies, Does
<1>2. Locks(r)
  BY <1>1, LocksMove
<1>3. PICK x \in MfaJob : Acts(r, x) /\ x.at = "done" /\ x.older = {} /\ x.answer = "other"
  BY <1>1, <1>2, AnsweredActs
<1>4. mfa'[r] = x
  BY <1>1, <1>3, OthersSame
<1>5. PlaceTrue(r)' /\ CeremonyTrue(r)' /\ FactorTrue(r)'
  BY <1>3, <1>4 DEF PlaceTrue, CeremonyTrue, FactorTrue, SignInPlaces
<1>6. ASSUME NEW c \in Ceremony
      PROVE  /\ ceremony'[c] \in CeremonyRow /\ ceremony'[c].purpose = ceremony[c].purpose
             /\ ceremony'[c].attempts = ceremony[c].attempts
             /\ IF ceremony[c].status = "unborn" THEN ceremony'[c] = ceremony[c]
                ELSE ceremony'[c].status = "gone"
  <2>1. ceremony[c] \in CeremonyRow
    BY <1>1, CeremonyTypes
  <2> QED BY <2>1 DEF ResetCeremonies, CeremonyRow
<1>7. ceremony' \in [Ceremony -> CeremonyRow]
  <2>1. ceremony' = [c \in Ceremony |-> ceremony'[c]]
    BY DEF ResetCeremonies
  <2> QED BY <1>6, <2>1
<1>8. UNCHANGED passed /\ ~Same(r)
  BY <1>1, <1>3, <1>4 DEF mfaGhosts, Same
<1>9. ASSUME NEW c \in Ceremony PROVE PassedTrue(c)'
  BY <1>6, <1>8 DEF MfaInv, CeremoniesInv, PassedTrue
<1>10. ASSUME NEW c \in Ceremony
       PROVE  /\ ceremony[c].status # "unborn" =>
                    ceremony'[c].status # "unborn" /\ ceremony'[c].purpose = ceremony[c].purpose
              /\ \A q \in MfaRequest : Same(q) => holder[c] # q
  BY <1>1, <1>6, <1>8, MfaAssumption DEF Free
<1> QED BY <1>1, <1>3, <1>5, <1>7, <1>9, <1>10, CeremonyRequest

\* No request acts: an enrolment begins, a ceremony expires, the clock ticks.
LEMMA NoMfaRequest ==
    ASSUME MfaInv, UNCHANGED <<totp, passkey, codes, holder, mfa, mfaScene, mfaGhosts>>,
           ceremony' \in [Ceremony -> CeremonyRow], clock' \in 0 .. MaxTotpStep,
           \A k \in Ceremony :
              /\ ceremony[k].status # "unborn" =>
                    ceremony'[k].status # "unborn" /\ ceremony'[k].purpose = ceremony[k].purpose
              /\ ceremony[k].status = "live" /\ ceremony[k].purpose = "login" =>
                    ceremony'[k] = ceremony[k] \/ \A q \in MfaRequest : Same(q) => holder[k] # q
              /\ PassedTrue(k)'
    PROVE  MfaInv'
<1> USE DEF mfaGhosts
<1>1. MfaTypeOK'
  BY DEF MfaInv, PlacesInv, MfaTypeOK
<1>2. \A q \in MfaRequest : Same(q)
  BY DEF Same
<1>3. PlacesInv'
  BY <1>1 DEF MfaInv, PlacesInv, PlaceTrue
<1>4. CeremoniesInv'
  BY <1>1, <1>2, CeremoniesMove
<1>5. RecoveryInv'
  BY <1>1, <1>2, CodesKept
<1>6. TotpInv'
  BY <1>2, TotpKept
<1>7. FactorsInv'
  BY FactorsKept
<1> QED BY <1>3, <1>4, <1>5, <1>6, <1>7 DEF MfaInv

\* An enrolment begins.
LEMMA BeginEnrolmentStep ==
    ASSUME MfaInv, NEW c \in Ceremony, BeginEnrolment(c)
    PROVE  MfaInv'
<1>1. /\ UNCHANGED <<totp, passkey, codes, clock, holder, mfa, mfaScene, mfaGhosts>>
      /\ ceremony[c].status = "unborn" /\ clock \in 0 .. MaxTotpStep
  BY DEF MfaInv, PlacesInv, MfaTypeOK, BeginEnrolment
<1>2. PICK purpose \in {"authenticator", "passkey"} :
        ceremony' = [ceremony EXCEPT ![c] = [status |-> "live", purpose |-> purpose,
                                             attempts |-> 0, keys |-> FALSE]]
  BY DEF BeginEnrolment
<1>3. PICK z : z = [status |-> "live", purpose |-> purpose, attempts |-> 0, keys |-> FALSE]
  OBVIOUS
<1>4. z \in CeremonyRow /\ z.attempts = 0 /\ ceremony' = [ceremony EXCEPT ![c] = z]
  BY <1>2, <1>3 DEF CeremonyRow, Purposes
<1>5. UNCHANGED passed
  BY <1>1 DEF mfaGhosts
<1> QED BY <1>1, <1>4, <1>5, OneCeremonyMoves, NoMfaRequest

\* A ceremony expires.
LEMMA ExpireStep ==
    ASSUME MfaInv, NEW c \in Ceremony, ExpireCeremony(c)
    PROVE  MfaInv'
<1>1. /\ UNCHANGED <<totp, passkey, codes, clock, holder, mfa, mfaScene, mfaGhosts>>
      /\ ceremony[c].status = "live" /\ holder[c] = NoMfa /\ clock \in 0 .. MaxTotpStep
      /\ ceremony[c] \in CeremonyRow /\ MfaTypeOK
  BY CeremonyTypes DEF MfaInv, PlacesInv, MfaTypeOK, ExpireCeremony
<1>2. PICK z : z = [ceremony[c] EXCEPT !.status = "expired"]
  OBVIOUS
<1>3. /\ z \in CeremonyRow /\ z.status = "expired" /\ z.purpose = ceremony[c].purpose
      /\ z.attempts = ceremony[c].attempts
  BY <1>1, <1>2 DEF CeremonyRow
<1>4. ceremony' = [ceremony EXCEPT ![c] = z]
  BY <1>1, <1>2 DEF ExpireCeremony, MfaTypeOK, CeremonyRow
<1>5. UNCHANGED passed /\ \A q \in MfaRequest : Same(q) => holder[c] # q
  BY <1>1, MfaAssumption DEF mfaGhosts
<1> QED BY <1>1, <1>3, <1>4, <1>5, OneCeremonyMoves, NoMfaRequest

\* The clock ticks, or nothing happens.
LEMMA TickStep ==
    ASSUME MfaInv, TotpTick \/ UNCHANGED mfaVars
    PROVE  MfaInv'
<1>1. /\ UNCHANGED <<totp, passkey, codes, ceremony, holder, mfa, mfaScene, mfaGhosts>>
      /\ clock' \in 0 .. MaxTotpStep /\ ceremony \in [Ceremony -> CeremonyRow]
  BY MfaAssumption DEF TotpTick, mfaVars, mfaData, MfaInv, PlacesInv, MfaTypeOK
<1>2. \A c \in Ceremony : PassedTrue(c)'
  BY <1>1 DEF MfaInv, CeremoniesInv, PassedTrue, mfaGhosts
<1> QED BY <1>1, <1>2, NoMfaRequest

\* Every step of the sign-ins and the handlers beside them keeps the invariant.
LEMMA SignInStepKeeps == MfaInv /\ [SignInNext]_mfaVars => MfaInv'
<1> SUFFICES ASSUME MfaInv, [SignInNext]_mfaVars PROVE MfaInv'
  OBVIOUS
<1>1. CASE TotpTick \/ UNCHANGED mfaVars
  BY <1>1, TickStep
<1>2. CASE DeleteTotp \/ DeletePasskey
  BY <1>2, LoseTotpStep, LosePasskeyStep
<1>3. ASSUME NEW c \in Ceremony, BeginEnrolment(c) \/ ExpireCeremony(c) PROVE MfaInv'
  BY <1>3, BeginEnrolmentStep, ExpireStep
<1>4. ASSUME NEW r \in MfaRequest, SignInStep(r) PROVE MfaInv'
  <2>1. CASE SignInBegins(r) \/ ReadEnrolment(r) \/ Regenerate(r)
    BY <2>1, StartsStep
  <2>2. CASE ReadTotp(r) \/ ReadPasskeys(r) \/ OpenCeremony(r) \/ CountCodes(r) \/ LoseMfa(r)
    BY <2>2, ReadTotpStep, ReadPasskeysStep, OpenStep, CountStep, LoseStep
  <2>3. CASE BeginLogin(r) \/ FailEnrolment(r) \/ UseEnrolment(r) \/ ResetCeremonies(r)
    BY <2>3, BeginLoginStep, FailStep, UseStep, ResetCeremoniesStep
  <2>4. CASE CheckProof(r) \/ CommitSignIn(r)
    BY <2>4, CheckProofStep, CommitStep
  <2>5. CASE SaveFactor(r) \/ ClearCodes(r) \/ InsertCodes(r) \/ ResetCodes(r)
    BY <2>5, SaveStep, EmptyStep, InsertStep
  <2>6. CASE ResetTotp(r) \/ ResetPasskeys(r)
    BY <2>6, LoseTotpStep, LosePasskeyStep
  <2> QED BY <1>4, <2>1, <2>2, <2>3, <2>4, <2>5, <2>6 DEF SignInStep
<1> QED BY <1>1, <1>2, <1>3, <1>4 DEF SignInNext

\* The user starts with the invariant.
LEMMA SignInStart == SignInInit => MfaInv
<1> SUFFICES ASSUME SignInInit PROVE MfaInv
  OBVIOUS
<1>1. /\ passkey \in BOOLEAN /\ codes = {FirstBatch} /\ mfaScene \in MfaScenes /\ clock = 0
      /\ holder = [y \in Resource |-> NoMfa] /\ mfa = [r \in MfaRequest |-> Idle]
      /\ redeemed = [b \in Batch |-> 0] /\ passed = [c \in Ceremony |-> 0]
      /\ accepted = {} /\ replayed = {} /\ behind = {} /\ saved = [s \in Secret |-> 0]
      /\ bare = {} /\ gained = {} /\ superseded = {}
  BY DEF SignInInit
<1>2. totp \in [secret : {FirstSecret, NoSecret}, last : {0}] /\ Factors(totp, passkey)
  <2>1. PICK s \in {FirstSecret, NoSecret} : /\ totp = [secret |-> s, last |-> 0]
                                             /\ s = FirstSecret \/ passkey
    BY DEF SignInInit
  <2>2. totp.secret = s /\ FirstSecret # NoSecret
    BY <2>1, MfaAssumption
  <2> QED BY <2>1, <2>2 DEF Factors
<1>3. ceremony \in [Ceremony -> CeremonyRow] /\ \A c \in Ceremony : ceremony[c].attempts = 0
  <2>1. PICK open \in SUBSET Ceremony :
          ceremony = [c \in Ceremony |->
                        IF c \in open
                        THEN [status |-> "live", purpose |-> "login", attempts |-> 0,
                              keys |-> passkey]
                        ELSE [status |-> "unborn", purpose |-> "none", attempts |-> 0,
                              keys |-> FALSE]]
    BY DEF SignInInit
  <2>2. ASSUME NEW c \in Ceremony
        PROVE  ceremony[c] \in CeremonyRow /\ ceremony[c].attempts = 0
    BY <1>1, <2>1 DEF CeremonyRow, Purposes
  <2> QED BY <2>1, <2>2
<1>4. PICK x : x = Idle
  OBVIOUS
<1>5. /\ x \in MfaJob /\ x.at = "new" /\ x.kind = "none" /\ x.answer = "none" /\ ~x.won
      /\ x.older = {}
  <2>1. [with |-> "none"] \in Proof /\ 0 \in 0 .. MaxTotpStep /\ {} \in SUBSET Batch
    BY MfaAssumption DEF Proof
  <2> QED BY <1>4, <2>1 DEF Idle, MfaJob, MfaPlaces
<1>6. mfa = [r \in MfaRequest |-> x] /\ \A r \in MfaRequest : mfa[r] = x
  BY <1>1, <1>4
<1>7. MfaTypeOK
  <2>1. totp \in [secret : Secret \cup {NoSecret}, last : 0 .. MaxTotpStep + 1]
        /\ 0 \in 0 .. MaxTotpStep
    BY <1>2, MfaAssumption DEF Secret
  <2> QED BY <1>1, <1>3, <1>5, <1>6, <2>1 DEF MfaTypeOK, Batch
<1>8. PlacesInv
  BY <1>5, <1>6, <1>7 DEF PlacesInv, PlaceTrue, SignInPlaces
<1>9. CeremoniesInv
  BY <1>1, <1>3, <1>5, <1>6, MfaAssumption DEF CeremoniesInv, CeremonyTrue, PassedTrue
<1>10. RecoveryInv
  BY <1>1, <1>5, <1>6, MfaAssumption DEF RecoveryInv, CodesTrue, WrittenBatch, Won, Batch
<1>11. TotpInv
  BY <1>1, <1>2, <1>5, <1>6, MfaAssumption DEF TotpInv, Won, AuthenticatorCodeOnce, Secret
<1>12. FactorsInv
  BY <1>2, <1>5, <1>6 DEF FactorsInv, FactorTrue, SecondFactorAsked
<1> QED BY <1>8, <1>9, <1>10, <1>11, <1>12 DEF MfaInv

-----------------------------------------------------------------------------
\* However sign-ins, enrolments, replacements and resets interleave, whatever fails, the
\* factors, ceremonies and requests keep the invariant.
THEOREM MfaInvariance == SignInSpec => []MfaInv
<1>1. SignInInit => MfaInv
  BY SignInStart
<1>2. MfaInv /\ [SignInNext]_mfaVars => MfaInv'
  BY SignInStepKeeps
<1> QED BY <1>1, <1>2, PTL DEF SignInSpec

\* A recovery code lets one sign-in through; an authenticator code does unless a code ahead
\* of the stored time was accepted or its enrolment was finished twice.
THEOREM FactorsOnce == SignInSpec => []FactorsUsedOnce
<1>1. MfaInv => FactorsUsedOnce
  BY DEF MfaInv, RecoveryInv, TotpInv, FactorsUsedOnce, RecoveryCodeOnce
<1> QED BY <1>1, MfaInvariance, PTL

\* Tokens without a second factor are answered only if the user had none at some moment, and
\* the ceremony of a sign-in lets one sign-in through and counts its wrong proofs.
THEOREM SignInsHold == SignInSpec => []SignInsComplete
<1>1. MfaInv => SignInsComplete
  BY DEF MfaInv, FactorsInv, CeremoniesInv, PassedTrue, SignInsComplete, LoginCeremonyHolds,
         PlacesInv, MfaTypeOK
<1> QED BY <1>1, MfaInvariance, PTL

\* No recovery code is accepted after its replacement has been answered.
LEMMA SupersededStay ==
    ASSUME MfaInv, [SignInNext]_mfaVars, NEW b \in superseded
    PROVE  redeemed'[b] = redeemed[b]
<1>1. b \in Batch /\ b \notin codes
  BY DEF MfaInv, PlacesInv, MfaTypeOK, RecoveryInv
<1>2. ASSUME NEW r \in MfaRequest, CommitSignIn(r) PROVE redeemed'[b] = redeemed[b]
  <2>1. CASE Won(r, "recovery")
    <3>1. mfa[r].proof.code \in codes /\ redeemed \in [Batch -> Nat]
      BY <2>1 DEF MfaInv, PlacesInv, MfaTypeOK, RecoveryInv, CodesTrue
    <3>2. redeemed' = [redeemed EXCEPT ![mfa[r].proof.code] = @ + 1]
      BY <1>2, <2>1 DEF CommitSignIn, Won
    <3> QED BY <1>1, <3>1, <3>2
  <2>2. CASE ~Won(r, "recovery")
    BY <1>2, <2>2 DEF CommitSignIn, Won, Does
  <2> QED BY <2>1, <2>2
<1>3. ASSUME NEW r \in MfaRequest, SignInStep(r), ~CommitSignIn(r) PROVE UNCHANGED redeemed
  BY <1>3 DEF SignInStep, mfaGhosts, SignInBegins, Start, ReadTotp, ReadPasskeys, BeginLogin,
     OpenCeremony, CheckProof, ReadEnrolment, FailEnrolment, SaveFactor, UseEnrolment, CountCodes,
     Regenerate, ClearCodes, InsertCodes, ResetTotp, ResetPasskeys, ResetCodes, ResetCeremonies,
     LoseMfa
<1>4. ASSUME \/ \E c \in Ceremony : BeginEnrolment(c) \/ ExpireCeremony(c)
             \/ DeleteTotp \/ DeletePasskey \/ TotpTick
      PROVE  UNCHANGED redeemed
  BY <1>4 DEF BeginEnrolment, ExpireCeremony, DeleteTotp, DeletePasskey, TotpTick, mfaGhosts
<1>5. UNCHANGED mfaVars => UNCHANGED redeemed
  BY DEF mfaVars, mfaGhosts
<1> QED BY <1>2, <1>3, <1>4, <1>5 DEF SignInNext

\* A code answered before a replacement began is not accepted once the replacement has been
\* answered.
THEOREM SupersededDead == SignInSpec => SupersededCodesDead
<1>1. MfaInv /\ [SignInNext]_mfaVars => [\A b \in superseded : redeemed'[b] = redeemed[b]]_mfaVars
  BY SupersededStay
<1> QED BY <1>1, MfaInvariance, PTL DEF SignInSpec, SupersededCodesDead
=============================================================================
