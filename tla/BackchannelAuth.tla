--------------------------- MODULE BackchannelAuth ---------------------------
(***************************************************************************)
(* Client-initiated backchannel authentication: requests of one client for *)
(* one user, the decisions the user takes in My Account (possibly on two   *)
(* devices, or twice), and the polls of the client at the token endpoint.  *)
(*                                                                         *)
(* A poll is one transaction that locks the request's row.  A decision is  *)
(* a series of statements that each commit on their own: it reads the      *)
(* request, reads and then rewrites the consent of the user for the        *)
(* client, and decides the request.                                        *)
(***************************************************************************)
EXTENDS Integers, FiniteSets

CONSTANTS
    Auth,       \* authentication requests
    Poll,       \* token requests; each is handled once
    Decision,   \* decisions sent from My Account; each is handled once
    NoAuth,     \* a poll or a decision that has not started
    Free,       \* a row lock nobody holds
    NeverPolled, \* last_polled_at IS NULL
    Scopes,     \* the scopes of each request
    Requested,  \* requested_acr of each request
    Lifetime,   \* request_lifetime_seconds
    Interval,   \* polling_interval_seconds
    Penalty,    \* the five seconds of a slow_down
    Longest,    \* the longest interval, 60 seconds
    MaxTime     \* bound of the time

Acr == {"bronze", "silver"}
\* acr_values are not compared with the supported levels: "other" is met by none.
RequestedAcr == Acr \cup {"other"}
Scope == UNION {Scopes[a] : a \in Auth}

ASSUME BackchannelAssumption ==
    /\ DOMAIN Scopes = Auth
    /\ Requested \in [Auth -> SUBSET RequestedAcr]
    /\ Lifetime \in Nat /\ Interval \in Nat /\ Penalty \in Nat /\ MaxTime \in Nat
    /\ Longest \in Nat /\ Interval <= Longest
    /\ NoAuth \notin Auth /\ Free \notin Poll /\ NeverPolled \notin Nat

VARIABLES
    time,
    request,   \* the rows of ciba_authentication_requests
    lock,      \* holder of each row's lock
    consent,   \* scopes of the row of user_consents ({} without one)
    sessions,  \* the sessions the exchanges created
    poll,      \* where each poll is, its request and the start of its transaction
    decision   \* where each decision is and what it has read

backchannelVars == <<time, request, lock, consent, sessions, poll, decision>>

RequestStatus == {"unborn", "pending", "approved", "denied", "consumed", "expired", "deleted"}
Outcome == {"none", "authorization_pending", "slow_down", "access_denied",
            "expired_token", "invalid_client", "error", "tokens"}
Verdict == {"approved", "denied"}

BackchannelTypeOK ==
    /\ time \in Nat
    /\ request \in [Auth -> [status : RequestStatus, interval : 0 .. Longest,
                             lastPolled : Nat \cup {NeverPolled}, acr : Acr, expires : Nat]]
    /\ lock \in [Auth -> Poll \cup {Free}]
    /\ consent \subseteq Scope
    /\ sessions \subseteq [auth : Auth, poll : Poll, acr : Acr]
    /\ poll \in [Poll -> [at : {"idle", "select", "commit", "done"},
                          auth : Auth \cup {NoAuth}, began : Nat, outcome : Outcome]]
    /\ decision \in [Decision -> [at : {"idle", "consent", "grant", "decide", "done"},
                                  auth : Auth \cup {NoAuth}, verdict : Verdict,
                                  acr : Acr, scopes : SUBSET Scope,
                                  answer : {"none", "conflict", "refused", "ok"}]]

-----------------------------------------------------------------------------
(* authentication_request.                                                 *)

Exists(a) == request[a].status \notin {"unborn", "deleted"}

Create(a) ==
    /\ request[a].status = "unborn"
    /\ request' = [request EXCEPT ![a].status = "pending", ![a].interval = Interval,
                                  ![a].expires = time + Lifetime]
    /\ UNCHANGED <<time, lock, consent, sessions, poll, decision>>

-----------------------------------------------------------------------------
(* CibaFlow::execute.                                                      *)

\* BEGIN: NOW() is fixed for the transaction.
StartPoll(p) ==
    /\ poll[p].at = "idle"
    /\ \E a \in {b \in Auth : request[b].status # "unborn"} :
          poll' = [poll EXCEPT ![p] = [at |-> "select", auth |-> a, began |-> time,
                                       outcome |-> "none"]]
    /\ UNCHANGED <<time, request, lock, consent, sessions, decision>>

\* Mutant: SELECT without FOR UPDATE.
Unguarded(a) == TRUE

Available(a) == lock[a] = Free

\* An error rolls the transaction back.
Refuse(p, outcome) ==
    /\ poll' = [poll EXCEPT ![p].at = "done", ![p].outcome = outcome]
    /\ UNCHANGED <<time, request, lock, consent, sessions, decision>>

\* Otherwise the row stays locked until COMMIT.
Hold(p, outcome) ==
    /\ poll' = [poll EXCEPT ![p].at = "commit", ![p].outcome = outcome]
    /\ lock' = [lock EXCEPT ![poll[p].auth] = p]
    /\ UNCHANGED <<time, request, consent, sessions, decision>>

Selecting(p) == poll[p].at = "select" /\ Available(poll[p].auth)

Expired(a) == request[a].expires <= time

SelectMissing(p) ==
    /\ Selecting(p) /\ ~Exists(poll[p].auth)
    /\ Refuse(p, "expired_token")

SelectExpired(p) ==
    /\ Selecting(p) /\ Exists(poll[p].auth) /\ Expired(poll[p].auth)
    /\ Hold(p, "expired_token")

Current(p) == Selecting(p) /\ Exists(poll[p].auth) /\ ~Expired(poll[p].auth)
StatusOf(p) == request[poll[p].auth].status

\* Another client polls, or the client is disabled.
SelectWrongClient(p) == Current(p) /\ Refuse(p, "invalid_client")

TooSoon(a) ==
    request[a].lastPolled # NeverPolled /\ time < request[a].lastPolled + request[a].interval

SelectPending(p) ==
    /\ Current(p) /\ StatusOf(p) = "pending"
    /\ Hold(p, IF TooSoon(poll[p].auth) THEN "slow_down" ELSE "authorization_pending")

SelectAnswered(p) ==
    /\ Current(p)
    /\ \/ StatusOf(p) = "denied" /\ Refuse(p, "access_denied")
       \/ StatusOf(p) \in {"consumed", "expired"} /\ Refuse(p, "expired_token")

\* The user may be disabled or signing may fail.
SelectApproved(p) ==
    /\ Current(p) /\ StatusOf(p) = "approved"
    /\ Hold(p, "tokens") \/ Refuse(p, "error")

Earlier(x, y) == IF x <= y THEN x ELSE y

\* Mutants: record_poll is given the interval that was read; the penalty has no limit.
NoSlower(a) == request[a].interval
SlowerUncapped(a) == request[a].interval + Penalty

Slower(a) == Earlier(request[a].interval + Penalty, Longest)

\* The row as the statements of the transaction leave it.
Written(p) ==
    LET a == poll[p].auth
        r == request[a]
        o == poll[p].outcome
    IN  [r EXCEPT
           !.status = IF o = "expired_token" THEN "expired"
                      ELSE IF o = "tokens" THEN "consumed" ELSE r.status,
           !.interval = IF o = "slow_down" THEN Slower(a) ELSE r.interval,
           !.lastPolled = IF o \in {"slow_down", "authorization_pending"}
                          THEN poll[p].began ELSE r.lastPolled]

CommitPoll(p) ==
    /\ poll[p].at = "commit"
    /\ LET a == poll[p].auth
       IN  /\ request' = [request EXCEPT ![a] = Written(p)]
           /\ lock' = [lock EXCEPT ![a] = Free]
           /\ sessions' = IF poll[p].outcome # "tokens" THEN sessions
                          ELSE sessions \cup {[auth |-> a, poll |-> p, acr |-> request[a].acr]}
    /\ poll' = [poll EXCEPT ![p].at = "done"]
    /\ UNCHANGED <<time, consent, decision>>

\* The instance or its connection is lost: ROLLBACK.
LosePoll(p) ==
    /\ poll[p].at \in {"select", "commit"}
    /\ poll' = [poll EXCEPT ![p].at = "done", ![p].outcome = "none"]
    /\ lock' = [a \in Auth |-> IF lock[a] = p THEN Free ELSE lock[a]]
    /\ UNCHANGED <<time, request, consent, sessions, decision>>

-----------------------------------------------------------------------------
(* decide_request.                                                         *)

Satisfies(actual, requested) ==
    actual = requested \/ (actual = "silver" /\ requested = "bronze")

StrongEnough(a, acr) ==
    Requested[a] = {} \/ \E v \in Requested[a] : Satisfies(acr, v)

\* The request is read; only an approval touches the consent.
StartDecision(d) ==
    /\ decision[d].at = "idle"
    /\ \E a \in {b \in Auth : request[b].status # "unborn"}, v \in Verdict, acr \in Acr :
          decision' = [decision EXCEPT ![d] =
             [at |-> IF request[a].status # "pending" \/ Expired(a) THEN "done"
                     ELSE IF v = "denied" THEN "decide"
                     ELSE IF StrongEnough(a, acr) THEN "consent" ELSE "done",
              answer |-> IF request[a].status # "pending" \/ Expired(a) THEN "conflict"
                         ELSE IF v = "approved" /\ ~StrongEnough(a, acr) THEN "refused"
                         ELSE "none",
              auth |-> a, verdict |-> v, acr |-> acr, scopes |-> {}]]
    /\ UNCHANGED <<time, request, lock, consent, sessions, poll>>

\* UserConsentRepo::grant reads the row ...
ReadConsent(d) ==
    /\ decision[d].at = "consent"
    /\ decision' = [decision EXCEPT ![d].at = "grant",
                                    ![d].scopes = consent \cup Scopes[decision[d].auth]]
    /\ UNCHANGED <<time, request, lock, consent, sessions, poll>>

\* ... and writes the union it computed.
WriteConsent(d) ==
    /\ decision[d].at = "grant"
    /\ consent' = decision[d].scopes
    /\ decision' = [decision EXCEPT ![d].at = "decide"]
    /\ UNCHANGED <<time, request, lock, sessions, poll>>

\* Mutant: UPDATE without status = 'pending'.
NotExpired(a) == Exists(a) /\ ~Expired(a)

Decidable(a) == request[a].status = "pending" /\ ~Expired(a)

\* UPDATE ... WHERE status = 'pending' AND expires_at > NOW().
Decide(d) ==
    /\ decision[d].at = "decide" /\ Available(decision[d].auth)
    /\ IF Decidable(decision[d].auth)
       THEN /\ request' = [request EXCEPT ![decision[d].auth].status = decision[d].verdict,
                                          ![decision[d].auth].acr = decision[d].acr]
            /\ decision' = [decision EXCEPT ![d].at = "done", ![d].answer = "ok"]
       ELSE /\ request' = request
            /\ decision' = [decision EXCEPT ![d].at = "done", ![d].answer = "conflict"]
    /\ UNCHANGED <<time, lock, consent, sessions, poll>>

\* The instance is lost, or a statement fails.
LoseDecision(d) ==
    /\ decision[d].at \in {"consent", "grant", "decide"}
    /\ decision' = [decision EXCEPT ![d].at = "done"]
    /\ UNCHANGED <<time, request, lock, consent, sessions, poll>>

-----------------------------------------------------------------------------
\* cleanup_expired waits for the rows that are locked.  Its other condition, a day
\* after the answer, is later than every expiry (at most 900 seconds).
Outdated == {a \in Auth : Exists(a) /\ request[a].expires < time}

Cleanup ==
    /\ Outdated # {} /\ \A a \in Outdated : Available(a)
    /\ request' = [a \in Auth |-> IF a \in Outdated
                                  THEN [request[a] EXCEPT !.status = "deleted"]
                                  ELSE request[a]]
    /\ UNCHANGED <<time, lock, consent, sessions, poll, decision>>

TimePasses ==
    /\ time < MaxTime
    /\ time' = time + 1
    /\ UNCHANGED <<request, lock, consent, sessions, poll, decision>>

BackchannelInit ==
    /\ time = 0
    /\ request = [a \in Auth |-> [status |-> "unborn", interval |-> Interval,
                                  lastPolled |-> NeverPolled, acr |-> "bronze", expires |-> 0]]
    /\ lock = [a \in Auth |-> Free]
    /\ consent = {}
    /\ sessions = {}
    /\ poll = [p \in Poll |-> [at |-> "idle", auth |-> NoAuth, began |-> 0,
                               outcome |-> "none"]]
    /\ decision = [d \in Decision |-> [at |-> "idle", auth |-> NoAuth, verdict |-> "denied",
                                       acr |-> "bronze", scopes |-> {}, answer |-> "none"]]

BackchannelNext ==
    \/ \E a \in Auth : Create(a)
    \/ \E p \in Poll :
          \/ StartPoll(p) \/ CommitPoll(p) \/ LosePoll(p)
          \/ SelectMissing(p) \/ SelectExpired(p) \/ SelectWrongClient(p)
          \/ SelectPending(p) \/ SelectAnswered(p) \/ SelectApproved(p)
    \/ \E d \in Decision :
          \/ StartDecision(d) \/ ReadConsent(d) \/ WriteConsent(d)
          \/ Decide(d) \/ LoseDecision(d)
    \/ Cleanup \/ TimePasses

BackchannelSpec == BackchannelInit /\ [][BackchannelNext]_backchannelVars

-----------------------------------------------------------------------------
(* Properties.                                                             *)

\* "A request can be exchanged only once", however many polls arrive together.
ExchangedOnce == \A s, t \in sessions : s.auth = t.auth => s = t

\* Tokens are issued for what the user decided: a request that was exchanged has one
\* answer, an approval, and the session carries the level of the session that gave
\* it, which was strong enough.  A denial is final, on whatever device it was given.
TokensMatchDecision ==
    \A s \in sessions :
       LET answers == {d \in Decision : decision[d].auth = s.auth /\ decision[d].answer = "ok"}
       IN  /\ StrongEnough(s.auth, s.acr)
           /\ \E d \in answers : decision[d].acr = s.acr
           /\ \A d \in answers : decision[d].verdict = "approved"

\* "Polling sooner than the returned interval produces slow_down and increases the
\* interval by five seconds": every slow_down counts, and no other poll does.
SlowDownsAccumulate ==
    \A a \in Auth : Exists(a) =>
       LET polls == {p \in Poll : /\ poll[p].auth = a /\ poll[p].at = "done"
                                  /\ poll[p].outcome = "slow_down"}
       IN  request[a].interval = Earlier(Interval + Penalty * Cardinality(polls), Longest)

\* "Approval records consent for the displayed scopes."
ApprovalRecordsConsent ==
    \A d \in Decision :
       decision[d].verdict = "approved" /\ decision[d].answer = "ok"
          => Scopes[decision[d].auth] \subseteq consent
=============================================================================
