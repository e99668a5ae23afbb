------------------------ MODULE BackchannelAuthProofs ------------------------
(***************************************************************************)
(* Theorems about BackchannelAuth for any number of requests, polls and    *)
(* decisions: a request is exchanged once, for what the user decided, and  *)
(* every slow_down that was answered is in the interval.                   *)
(***************************************************************************)
EXTENDS BackchannelAuth, FiniteSetTheorems, TLAPS

-----------------------------------------------------------------------------
(* The inductive invariant.                                                *)

\* A poll under way knows a request that exists; until it commits it holds the row, and
\* what it read of the row is still there.
PollTrue(p) ==
    poll[p].at # "idle" =>
       /\ poll[p].auth \in Auth /\ request[poll[p].auth].status # "unborn"
       /\ poll[p].at = "commit" =>
             /\ lock[poll[p].auth] = p /\ Exists(poll[p].auth)
             /\ poll[p].outcome = "tokens" => request[poll[p].auth].status = "approved"

\* A decision answers once, when it is done, and approves only with a level that is enough.
DecisionTrue(d) ==
    /\ decision[d].at # "idle" => decision[d].auth \in Auth
    /\ decision[d].at # "done" => decision[d].answer = "none"
    /\ /\ decision[d].at = "decide" \/ decision[d].answer = "ok"
       /\ decision[d].verdict = "approved"
       => StrongEnough(decision[d].auth, decision[d].acr)
    /\ decision[d].at \in {"consent", "grant"} => StrongEnough(decision[d].auth, decision[d].acr)
    /\ decision[d].answer = "ok" =>
          /\ decision[d].at = "done"
          /\ request[decision[d].auth].status \notin {"unborn", "pending"}

\* d answered a, and approved it at the level acr.
Approved(d, a, acr) ==
    /\ decision[d].answer = "ok" /\ decision[d].auth = a
    /\ decision[d].verdict = "approved" /\ decision[d].acr = acr

\* A row that says "approved" has an approval of that level behind it.
RowTrue(a) ==
    request[a].status = "approved" => \E d \in Decision : Approved(d, a, request[a].acr)

\* So has a session, and the row it was exchanged for cannot be exchanged again.
SessionTrue(s) ==
    /\ request[s.auth].status \in {"consumed", "expired", "deleted"}
    /\ \E d \in Decision : Approved(d, s.auth, s.acr)

\* A request has one answer.
OneAnswer ==
    \A d, e \in Decision :
       /\ decision[d].answer = "ok" /\ decision[e].answer = "ok"
       /\ decision[d].auth = decision[e].auth
       => d = e

\* The polls of a that were answered slow_down.
SlowPolls(a) ==
    {p \in Poll : poll[p].auth = a /\ poll[p].at = "done" /\ poll[p].outcome = "slow_down"}

\* They are finitely many, whatever Poll is, and the interval has counted each.
Counted(a) ==
    /\ IsFiniteSet(SlowPolls(a))
    /\ Exists(a) => request[a].interval
                       = Earlier(Interval + Penalty * Cardinality(SlowPolls(a)), Longest)

BackchannelInv ==
    /\ BackchannelTypeOK
    /\ \A p \in Poll : PollTrue(p)
    /\ \A d \in Decision : DecisionTrue(d)
    /\ \A a \in Auth : RowTrue(a) /\ Counted(a)
    /\ \A s \in sessions : SessionTrue(s)
    /\ OneAnswer /\ ExchangedOnce

-----------------------------------------------------------------------------
(* Types.                                                                  *)

Row == [status : RequestStatus, interval : 0 .. Longest, lastPolled : Nat \cup {NeverPolled},
        acr : Acr, expires : Nat]
PollState == [at : {"idle", "select", "commit", "done"}, auth : Auth \cup {NoAuth},
              began : Nat, outcome : Outcome]
DecisionState == [at : {"idle", "consent", "grant", "decide", "done"},
                  auth : Auth \cup {NoAuth}, verdict : Verdict, acr : Acr,
                  scopes : SUBSET Scope, answer : {"none", "conflict", "refused", "ok"}]

\* BackchannelTypeOK, in these terms.
Typed ==
    /\ time \in Nat
    /\ request \in [Auth -> Row]
    /\ lock \in [Auth -> Poll \cup {Free}]
    /\ consent \subseteq Scope
    /\ sessions \subseteq [auth : Auth, poll : Poll, acr : Acr]
    /\ poll \in [Poll -> PollState]
    /\ decision \in [Decision -> DecisionState]

\* The types of the rows, folded into one predicate, are those of BackchannelTypeOK.
LEMMA SameTypes == (BackchannelTypeOK <=> Typed) /\ (BackchannelTypeOK' <=> Typed')
BY DEF BackchannelTypeOK, Typed, Row, PollState, DecisionState

\* Nothing has been asked: the variables are of the declared types.
LEMMA InitTypes == BackchannelInit => BackchannelTypeOK
BY BackchannelAssumption DEF BackchannelInit, BackchannelTypeOK, RequestStatus, Outcome, Verdict, Acr

\* A statement leaves a row of the declared type.
LEMMA WrittenType ==
    ASSUME Typed, NEW p \in Poll, poll[p].auth \in Auth
    PROVE  Written(p) \in Row
<1>1. PICK a \in Auth : a = poll[p].auth
  OBVIOUS
<1>2. request[a] \in Row /\ request[a].interval \in 0 .. Longest
      /\ request[a].lastPolled \in Nat \cup {NeverPolled} /\ request[a].status \in RequestStatus
      /\ poll[p].began \in Nat
  BY DEF Typed, Row, PollState
<1>3. Slower(a) \in 0 .. Longest
  BY <1>2, BackchannelAssumption DEF Slower, Earlier
<1>4. PICK st, i, n : /\ st = IF poll[p].outcome = "expired_token" THEN "expired"
                              ELSE IF poll[p].outcome = "tokens" THEN "consumed"
                              ELSE request[a].status
                      /\ i = IF poll[p].outcome = "slow_down" THEN Slower(a)
                             ELSE request[a].interval
                      /\ n = IF poll[p].outcome \in {"slow_down", "authorization_pending"}
                             THEN poll[p].began ELSE request[a].lastPolled
  OBVIOUS
<1>5. st \in RequestStatus /\ i \in 0 .. Longest /\ n \in Nat \cup {NeverPolled}
  BY <1>2, <1>3, <1>4 DEF RequestStatus
<1>6. Written(p) = [request[a] EXCEPT !.status = st, !.interval = i, !.lastPolled = n]
  BY <1>1, <1>4 DEF Written
<1> QED BY <1>2, <1>5, <1>6 DEF Row

\* A step of a poll keeps the types.
LEMMA PollTypes ==
    ASSUME Typed, NEW p \in Poll, PollTrue(p),
           StartPoll(p) \/ CommitPoll(p) \/ LosePoll(p) \/ SelectMissing(p) \/ SelectExpired(p)
             \/ SelectWrongClient(p) \/ SelectPending(p) \/ SelectAnswered(p)
             \/ SelectApproved(p)
    PROVE  Typed'
<1>1. CASE StartPoll(p)
  <2>1. \A a \in Auth : [at |-> "select", auth |-> a, began |-> time, outcome |-> "none"]
                          \in PollState
    BY DEF Typed, PollState, Outcome
  <2> QED BY <1>1, <2>1 DEF StartPoll, Typed
<1>2. ASSUME NEW o \in Outcome, Refuse(p, o) PROVE Typed'
  <2>1. PICK x : x = [poll[p] EXCEPT !.at = "done", !.outcome = o]
    OBVIOUS
  <2>2. x \in PollState
    BY <2>1 DEF Typed, PollState
  <2>3. poll' = [poll EXCEPT ![p] = x]
    BY <1>2, <2>1 DEF Refuse
  <2> QED BY <1>2, <2>2, <2>3 DEF Refuse, Typed
<1>3. ASSUME NEW o \in Outcome, Hold(p, o) PROVE Typed'
  <2>1. PICK x : x = [poll[p] EXCEPT !.at = "commit", !.outcome = o]
    OBVIOUS
  <2>2. x \in PollState
    BY <2>1 DEF Typed, PollState
  <2>3. poll' = [poll EXCEPT ![p] = x]
    BY <1>3, <2>1 DEF Hold
  <2> QED BY <1>3, <2>2, <2>3 DEF Hold, Typed
<1>4. CASE CommitPoll(p)
  <2>1. poll[p].auth \in Auth
    BY <1>4 DEF CommitPoll, PollTrue
  <2>2. sessions' \subseteq [auth : Auth, poll : Poll, acr : Acr]
    BY <1>4, <2>1 DEF CommitPoll, Typed, Row
  <2>3. PICK x : x = [poll[p] EXCEPT !.at = "done"]
    OBVIOUS
  <2>4. x \in PollState
    BY <2>3 DEF Typed, PollState
  <2>5. poll' = [poll EXCEPT ![p] = x]
    BY <1>4, <2>3 DEF CommitPoll
  <2> QED BY <1>4, <2>1, <2>2, <2>4, <2>5, WrittenType DEF CommitPoll, Typed
<1>5. CASE LosePoll(p)
  <2>1. PICK x : x = [poll[p] EXCEPT !.at = "done", !.outcome = "none"]
    OBVIOUS
  <2>2. x \in PollState
    BY <2>1 DEF Typed, PollState, Outcome
  <2>3. poll' = [poll EXCEPT ![p] = x]
    BY <1>5, <2>1 DEF LosePoll
  <2> QED BY <1>5, <2>2, <2>3 DEF LosePoll, Typed
<1> QED BY <1>1, <1>2, <1>3, <1>4, <1>5
        DEF SelectMissing, SelectExpired, SelectWrongClient, SelectPending, SelectAnswered,
            SelectApproved, Outcome

\* So does a step of a decision.
LEMMA DecisionTypes ==
    ASSUME Typed, NEW d \in Decision, DecisionTrue(d),
           StartDecision(d) \/ ReadConsent(d) \/ WriteConsent(d) \/ Decide(d) \/ LoseDecision(d)
    PROVE  Typed'
<1>1. CASE StartDecision(d)
  <2>1. PICK a \in Auth, v \in Verdict, acr \in Acr :
           decision' = [decision EXCEPT ![d] =
             [at |-> IF request[a].status # "pending" \/ Expired(a) THEN "done"
                     ELSE IF v = "denied" THEN "decide"
                     ELSE IF StrongEnough(a, acr) THEN "consent" ELSE "done",
              answer |-> IF request[a].status # "pending" \/ Expired(a) THEN "conflict"
                         ELSE IF v = "approved" /\ ~StrongEnough(a, acr) THEN "refused"
                         ELSE "none",
              auth |-> a, verdict |-> v, acr |-> acr, scopes |-> {}]]
    BY <1>1 DEF StartDecision
  <2>2. decision'[d] \in DecisionState
    BY <2>1 DEF DecisionState, Typed
  <2> QED BY <1>1, <2>1, <2>2 DEF StartDecision, Typed
<1>2. CASE ReadConsent(d)
  <2>1. consent \cup Scopes[decision[d].auth] \in SUBSET Scope
    BY <1>2 DEF ReadConsent, DecisionTrue, Typed, Scope
  <2>2. PICK x : x = [decision[d] EXCEPT !.at = "grant",
                                         !.scopes = consent \cup Scopes[decision[d].auth]]
    OBVIOUS
  <2>3. x \in DecisionState
    BY <2>1, <2>2 DEF Typed, DecisionState
  <2>4. decision' = [decision EXCEPT ![d] = x]
    BY <1>2, <2>2 DEF ReadConsent
  <2> QED BY <1>2, <2>3, <2>4 DEF ReadConsent, Typed
<1>3. CASE WriteConsent(d)
  <2>1. PICK x : x = [decision[d] EXCEPT !.at = "decide"]
    OBVIOUS
  <2>2. x \in DecisionState /\ decision[d].scopes \subseteq Scope
    BY <2>1 DEF Typed, DecisionState
  <2>3. decision' = [decision EXCEPT ![d] = x]
    BY <1>3, <2>1 DEF WriteConsent
  <2> QED BY <1>3, <2>2, <2>3 DEF WriteConsent, Typed
<1>4. CASE Decide(d)
  <2>1. PICK x, y : /\ x = [decision[d] EXCEPT !.at = "done", !.answer = "ok"]
                    /\ y = [decision[d] EXCEPT !.at = "done", !.answer = "conflict"]
    OBVIOUS
  <2>2. x \in DecisionState /\ y \in DecisionState
    BY <2>1 DEF Typed, DecisionState
  <2>3. decision' = [decision EXCEPT ![d] = x] \/ decision' = [decision EXCEPT ![d] = y]
    BY <1>4, <2>1 DEF Decide
  <2>4. PICK a \in Auth : a = decision[d].auth
    BY <1>4 DEF Decide, DecisionTrue
  <2>5. PICK r : r = [request[a] EXCEPT !.status = decision[d].verdict, !.acr = decision[d].acr]
    OBVIOUS
  <2>6. r \in Row
    <3>1. decision[d].verdict \in RequestStatus /\ decision[d].acr \in Acr
      BY DEF Typed, DecisionState, Verdict, RequestStatus
    <3> QED BY <2>5, <3>1 DEF Typed, Row
  <2>7. request' = request \/ request' = [request EXCEPT ![a] = r]
    BY <1>4, <2>4, <2>5 DEF Decide
  <2> QED BY <1>4, <2>2, <2>3, <2>6, <2>7 DEF Decide, Typed
<1>5. CASE LoseDecision(d)
  <2>1. PICK x : x = [decision[d] EXCEPT !.at = "done"]
    OBVIOUS
  <2>2. x \in DecisionState
    BY <2>1 DEF Typed, DecisionState
  <2>3. decision' = [decision EXCEPT ![d] = x]
    BY <1>5, <2>1 DEF LoseDecision
  <2> QED BY <1>5, <2>2, <2>3 DEF LoseDecision, Typed
<1> QED BY <1>1, <1>2, <1>3, <1>4, <1>5

\* Every step keeps the types.
LEMMA NextTypes ==
    ASSUME Typed, \A p \in Poll : PollTrue(p), \A d \in Decision : DecisionTrue(d), [BackchannelNext]_backchannelVars
    PROVE  Typed'
<1>1. ASSUME NEW a \in Auth, Create(a) PROVE Typed'
  <2>1. PICK r : r = [request[a] EXCEPT !.status = "pending", !.interval = Interval,
                                        !.expires = time + Lifetime]
    OBVIOUS
  <2>2. r \in Row
    <3>1. Interval \in 0 .. Longest /\ time + Lifetime \in Nat
      BY BackchannelAssumption DEF Typed
    <3> QED BY <2>1, <3>1 DEF Typed, Row, RequestStatus
  <2>3. request' = [request EXCEPT ![a] = r]
    BY <1>1, <2>1 DEF Create
  <2> QED BY <1>1, <2>2, <2>3 DEF Create, Typed
<1>2. CASE Cleanup
  <2>1. \A a \in Auth : [request[a] EXCEPT !.status = "deleted"] \in Row
    BY DEF Typed, Row, RequestStatus
  <2> QED BY <1>2, <2>1 DEF Cleanup, Typed
<1>3. CASE TimePasses \/ UNCHANGED backchannelVars
  BY <1>3 DEF TimePasses, backchannelVars, Typed
<1> QED BY <1>1, <1>2, <1>3, PollTypes, DecisionTypes DEF BackchannelNext

-----------------------------------------------------------------------------
(* Each step keeps the invariant.                                          *)

\* A step that changes one poll, and neither ends it as a slow_down nor finds it so.
LEMMA OnePollMoves ==
    ASSUME BackchannelInv, Typed', NEW p \in Poll, PollTrue(p)',
           UNCHANGED <<request, sessions, decision>>,
           \A q \in Poll \ {p} :
              /\ poll'[q] = poll[q]
              /\ poll[q].at = "commit" => lock'[poll[q].auth] = lock[poll[q].auth],
           poll[p].at # "done", poll'[p].at # "done" \/ poll'[p].outcome # "slow_down"
    PROVE  BackchannelInv'
<1>1. \A q \in Poll : PollTrue(q)'
  BY DEF BackchannelInv, PollTrue, Exists
<1>2. \A a \in Auth : SlowPolls(a)' = SlowPolls(a)
  BY DEF SlowPolls
<1>3. \A a \in Auth : Counted(a)'
  BY <1>2 DEF BackchannelInv, Counted, Exists
<1>4. (\A d \in Decision : DecisionTrue(d)') /\ (\A a \in Auth : RowTrue(a)')
      /\ (\A s \in sessions' : SessionTrue(s)') /\ OneAnswer' /\ ExchangedOnce'
  BY DEF BackchannelInv, DecisionTrue, RowTrue, SessionTrue, OneAnswer, ExchangedOnce, Approved
<1> QED BY <1>1, <1>3, <1>4, SameTypes DEF BackchannelInv

\* A step that changes one decision without answering the request.
LEMMA OneDecisionMoves ==
    ASSUME BackchannelInv, Typed', NEW d \in Decision, DecisionTrue(d)',
           UNCHANGED <<request, lock, sessions, poll>>,
           \A e \in Decision \ {d} : decision'[e] = decision[e],
           decision[d].answer # "ok", decision'[d].answer # "ok"
    PROVE  BackchannelInv'
<1>1. \A e \in Decision : DecisionTrue(e)'
  BY DEF BackchannelInv, DecisionTrue
<1>2. \A a \in Auth : Counted(a)' /\ RowTrue(a)'
  BY DEF BackchannelInv, Counted, Exists, SlowPolls, RowTrue, Approved
<1>3. \A s \in sessions' : SessionTrue(s)'
  BY DEF BackchannelInv, SessionTrue, Approved
<1>4. (\A p \in Poll : PollTrue(p)') /\ OneAnswer' /\ ExchangedOnce'
  BY DEF BackchannelInv, PollTrue, Exists, OneAnswer, ExchangedOnce
<1> QED BY <1>1, <1>2, <1>3, <1>4, SameTypes DEF BackchannelInv

\* A step that changes only rows: those that are locked or settled stay as they are or are
\* deleted, and none is settled by it otherwise.
LEMMA RowsMove ==
    ASSUME BackchannelInv, Typed', UNCHANGED <<lock, sessions, poll, decision>>,
           \A a \in Auth :
              \/ request'[a] = request[a]
              \/ /\ request[a].status = "unborn"
                 /\ request'[a].status = "pending" /\ request'[a].interval = Interval
              \/ /\ Available(a) /\ request[a].status # "unborn"
                 /\ request'[a].status = "deleted"
    PROVE  BackchannelInv'
<1>1. \A p \in Poll : PollTrue(p)'
  BY BackchannelAssumption DEF BackchannelInv, PollTrue, Exists, Available
<1>2. \A d \in Decision : DecisionTrue(d)'
  BY DEF BackchannelInv, DecisionTrue, BackchannelTypeOK
<1>3. \A a \in Auth : RowTrue(a)'
  BY DEF BackchannelInv, RowTrue, Approved
<1>4. \A s \in sessions' : SessionTrue(s)'
  BY DEF BackchannelInv, SessionTrue, Approved, BackchannelTypeOK
<1>5. ASSUME NEW a \in Auth PROVE Counted(a)'
  <2>1. SlowPolls(a)' = SlowPolls(a)
    BY DEF SlowPolls
  <2>2. CASE request[a].status = "unborn"
    <3>1. SlowPolls(a) = {}
      BY <2>2 DEF SlowPolls, BackchannelInv, PollTrue
    <3>2. Interval = Earlier(Interval + Penalty * 0, Longest)
      BY BackchannelAssumption DEF Earlier
    <3> QED BY <2>1, <2>2, <3>1, <3>2, FS_EmptySet DEF Counted, Exists, BackchannelInv
  <2>3. CASE request[a].status # "unborn"
    BY <2>1, <2>3 DEF Counted, Exists, BackchannelInv
  <2> QED BY <2>2, <2>3
<1> QED BY <1>1, <1>2, <1>3, <1>4, <1>5, SameTypes
        DEF BackchannelInv, OneAnswer, ExchangedOnce

\* The answer of a request: nobody else has it in hand and nobody answered it before.
LEMMA DecideKeeps ==
    ASSUME BackchannelInv, Typed', NEW d \in Decision, Decide(d)
    PROVE  BackchannelInv'
<1>1. PICK a \in Auth : a = decision[d].auth
  BY DEF Decide, BackchannelInv, DecisionTrue
<1>2. CASE ~Decidable(a)
  <2>1. /\ request' = request /\ \A e \in Decision \ {d} : decision'[e] = decision[e]
        /\ decision'[d].at = "done" /\ decision'[d].answer = "conflict"
        /\ decision'[d].auth = a /\ decision[d].answer # "ok"
    BY <1>1, <1>2 DEF Decide, BackchannelInv, DecisionTrue, BackchannelTypeOK
  <2>2. DecisionTrue(d)'
    BY <2>1 DEF DecisionTrue
  <2> QED BY <2>1, <2>2, OneDecisionMoves DEF Decide
<1>3. CASE Decidable(a)
  <2>1. /\ request[a].status = "pending" /\ lock[a] = Free
        /\ \A b \in Auth \ {a} : request'[b] = request[b]
        /\ request'[a].status = decision[d].verdict /\ request'[a].acr = decision[d].acr
        /\ request'[a].interval = request[a].interval
        /\ decision[d].verdict \in Verdict
    BY <1>1, <1>3 DEF Decide, Decidable, Available, BackchannelInv, BackchannelTypeOK
  <2>2. /\ \A e \in Decision \ {d} : decision'[e] = decision[e]
        /\ decision'[d].auth = a /\ decision'[d].at = "done" /\ decision'[d].answer = "ok"
        /\ decision'[d].verdict = decision[d].verdict /\ decision'[d].acr = decision[d].acr
        /\ decision[d].at = "decide" /\ decision[d].answer = "none"
    BY <1>1, <1>3 DEF Decide, BackchannelInv, BackchannelTypeOK, DecisionTrue
  <2>3. UNCHANGED <<lock, sessions, poll>>
    BY DEF Decide
  <2>4. \A p \in Poll : PollTrue(p)'
    BY <2>1, <2>3, BackchannelAssumption DEF BackchannelInv, PollTrue, Exists, Verdict
  <2>5. \A e \in Decision : DecisionTrue(e)'
    BY <1>1, <2>1, <2>2 DEF BackchannelInv, DecisionTrue, Verdict
  <2>6. \A b \in Auth : RowTrue(b)'
    <3>1. RowTrue(a)'
      BY <2>1, <2>2 DEF RowTrue, Approved
    <3>2. \A b \in Auth \ {a} : RowTrue(b)'
      BY <2>1, <2>2 DEF RowTrue, Approved, BackchannelInv
    <3> QED BY <3>1, <3>2
  <2>7. \A b \in Auth : Counted(b)'
    <3>1. \A b \in Auth : SlowPolls(b)' = SlowPolls(b)
      BY <2>3 DEF SlowPolls
    <3> QED BY <2>1, <3>1 DEF Counted, Exists, BackchannelInv
  <2>8. ASSUME NEW s \in sessions' PROVE SessionTrue(s)'
    <3>1. s.auth \in Auth \ {a} /\ SessionTrue(s)
      BY <2>1, <2>3 DEF SessionTrue, BackchannelInv, BackchannelTypeOK
    <3>2. PICK e \in Decision \ {d} : Approved(e, s.auth, s.acr)
      BY <2>2, <3>1 DEF SessionTrue, Approved
    <3> QED BY <2>1, <2>2, <3>1, <3>2 DEF SessionTrue, Approved
  <2>9. OneAnswer'
    BY <1>1, <2>1, <2>2 DEF OneAnswer, BackchannelInv, DecisionTrue
  <2> QED BY <2>3, <2>4, <2>5, <2>6, <2>7, <2>8, <2>9, SameTypes
          DEF BackchannelInv, ExchangedOnce
<1> QED BY <1>2, <1>3

\* One more penalty, with a longest interval.
LEMMA OneMorePenalty ==
    ASSUME NEW n \in Nat
    PROVE  Earlier(Earlier(Interval + Penalty * n, Longest) + Penalty, Longest)
             = Earlier(Interval + Penalty * (n + 1), Longest)
<1>1. PICK x \in Nat : x = Penalty * n
  BY BackchannelAssumption
<1>2. Penalty * (n + 1) = x + Penalty
  BY <1>1, BackchannelAssumption
<1> QED BY <1>1, <1>2, BackchannelAssumption DEF Earlier

\* What a poll commits: the session of an approval, an expiry, or a slower interval.
LEMMA CommitKeeps ==
    ASSUME BackchannelInv, Typed', NEW p \in Poll, CommitPoll(p)
    PROVE  BackchannelInv'
<1>1. PICK a \in Auth : /\ a = poll[p].auth /\ lock[a] = p /\ Exists(a)
                        /\ poll[p].outcome = "tokens" => request[a].status = "approved"
  BY DEF CommitPoll, BackchannelInv, PollTrue
<1>2. /\ poll[p].at = "commit" /\ poll'[p].at = "done" /\ poll'[p].outcome = poll[p].outcome
      /\ poll'[p].auth = a
      /\ \A q \in Poll \ {p} : poll'[q] = poll[q]
      /\ \A b \in Auth \ {a} : lock'[b] = lock[b]
      /\ decision' = decision
  BY <1>1 DEF CommitPoll, BackchannelInv, BackchannelTypeOK
<1>3. /\ \A b \in Auth \ {a} : request'[b] = request[b]
      /\ request'[a].acr = request[a].acr
      /\ poll[p].outcome = "tokens" => request'[a].status = "consumed"
      /\ poll[p].outcome = "expired_token" => request'[a].status = "expired"
      /\ poll[p].outcome \notin {"tokens", "expired_token"}
            => request'[a].status = request[a].status
      /\ poll[p].outcome # "slow_down" => request'[a].interval = request[a].interval
      /\ poll[p].outcome = "slow_down"
            => request'[a].interval = Earlier(request[a].interval + Penalty, Longest)
  BY <1>1 DEF CommitPoll, BackchannelInv, BackchannelTypeOK, Written, Slower
<1>4. \A q \in Poll : PollTrue(q)'
  <2>1. ASSUME NEW q \in Poll \ {p} PROVE PollTrue(q)'
    BY <1>1, <1>2, <1>3, <2>1 DEF BackchannelInv, PollTrue, Exists
  <2> QED BY <1>1, <1>2, <1>3, <2>1 DEF PollTrue, Exists
<1>5. \A d \in Decision : DecisionTrue(d)'
  BY <1>1, <1>2, <1>3 DEF BackchannelInv, DecisionTrue
<1>6. \A b \in Auth : RowTrue(b)'
  BY <1>1, <1>2, <1>3 DEF BackchannelInv, RowTrue, Approved
<1>7. \A b \in Auth : Counted(b)'
  <2>1. ASSUME NEW b \in Auth, b # a \/ poll[p].outcome # "slow_down" PROVE Counted(b)'
    <3>1. SlowPolls(b)' = SlowPolls(b)
      BY <1>2, <1>1, <2>1 DEF SlowPolls
    <3> QED BY <1>1, <1>3, <2>1, <3>1 DEF Counted, Exists, BackchannelInv
  <2>2. CASE poll[p].outcome = "slow_down"
    <3>1. SlowPolls(a)' = SlowPolls(a) \cup {p} /\ p \notin SlowPolls(a)
      BY <1>1, <1>2, <2>2 DEF SlowPolls
    <3>2. IsFiniteSet(SlowPolls(a)) /\ Cardinality(SlowPolls(a)) \in Nat
      BY FS_CardinalityType DEF BackchannelInv, Counted
    <3>3. /\ IsFiniteSet(SlowPolls(a)')
          /\ Cardinality(SlowPolls(a)') = Cardinality(SlowPolls(a)) + 1
      BY <3>1, <3>2, FS_AddElement
    <3>4. request'[a].interval
             = Earlier(Interval + Penalty * (Cardinality(SlowPolls(a)) + 1), Longest)
      BY <1>1, <1>3, <2>2, <3>2, OneMorePenalty DEF BackchannelInv, Counted
    <3>5. Counted(a)'
      BY <3>3, <3>4 DEF Counted
    <3> QED BY <2>1, <3>5
  <2> QED BY <2>1, <2>2
<1>8. CASE poll[p].outcome # "tokens"
  <2>1. sessions' = sessions
    BY <1>8 DEF CommitPoll
  <2>2. \A s \in sessions' : SessionTrue(s)'
    BY <1>1, <1>2, <1>3, <1>8, <2>1 DEF SessionTrue, Approved, BackchannelInv, BackchannelTypeOK
  <2> QED BY <1>2, <1>4, <1>5, <1>6, <1>7, <2>1, <2>2, SameTypes
          DEF BackchannelInv, OneAnswer, ExchangedOnce
<1>9. CASE poll[p].outcome = "tokens"
  <2>1. PICK n : n = [auth |-> a, poll |-> p, acr |-> request[a].acr]
    OBVIOUS
  <2>2. sessions' = sessions \cup {n} /\ n.auth = a /\ n.acr = request[a].acr
    BY <1>1, <1>9, <2>1 DEF CommitPoll
  <2>3. \A s \in sessions : s.auth \in Auth \ {a} /\ SessionTrue(s)'
    BY <1>1, <1>2, <1>3, <1>9 DEF SessionTrue, Approved, BackchannelInv, BackchannelTypeOK
  <2>4. SessionTrue(n)'
    BY <1>1, <1>2, <1>3, <1>9, <2>2 DEF SessionTrue, Approved, BackchannelInv, RowTrue
  <2>5. ExchangedOnce'
    BY <2>2, <2>3 DEF ExchangedOnce, BackchannelInv
  <2> QED BY <1>2, <1>4, <1>5, <1>6, <1>7, <2>2, <2>3, <2>4, <2>5, SameTypes
          DEF BackchannelInv, OneAnswer
<1> QED BY <1>8, <1>9

\* Every step keeps the invariant.
LEMMA BackchannelInvNext == BackchannelInv /\ [BackchannelNext]_backchannelVars => BackchannelInv'
<1> SUFFICES ASSUME BackchannelInv, [BackchannelNext]_backchannelVars PROVE BackchannelInv'
  OBVIOUS
<1>1. Typed /\ Typed'
  BY NextTypes, SameTypes DEF BackchannelInv
<1>2. ASSUME NEW a \in Auth, Create(a) PROVE BackchannelInv'
  <2>1. /\ request[a].status = "unborn" /\ request'[a].status = "pending"
        /\ request'[a].interval = Interval
        /\ \A b \in Auth \ {a} : request'[b] = request[b]
    BY <1>2 DEF Create, BackchannelInv, BackchannelTypeOK
  <2> QED BY <1>1, <1>2, <2>1, RowsMove DEF Create
<1>3. CASE Cleanup
  <2>1. \A a \in Auth : \/ request'[a] = request[a]
                        \/ /\ Available(a) /\ request[a].status # "unborn"
                           /\ request'[a].status = "deleted"
    BY <1>3 DEF Cleanup, Outdated, Exists, BackchannelInv, BackchannelTypeOK
  <2> QED BY <1>1, <1>3, <2>1, RowsMove DEF Cleanup
<1>4. ASSUME NEW p \in Poll, StartPoll(p) PROVE BackchannelInv'
  <2>1. /\ PollTrue(p)' /\ poll[p].at # "done" /\ poll'[p].at # "done"
        /\ \A q \in Poll \ {p} : poll'[q] = poll[q]
    BY <1>4 DEF StartPoll, BackchannelInv, BackchannelTypeOK, PollTrue
  <2> QED BY <1>1, <1>4, <2>1, OnePollMoves DEF StartPoll
<1>5. ASSUME NEW p \in Poll, NEW o, Selecting(p), Refuse(p, o), o # "slow_down"
      PROVE  BackchannelInv'
  <2>1. /\ PollTrue(p)' /\ poll[p].at # "done" /\ poll'[p].outcome # "slow_down"
        /\ \A q \in Poll \ {p} : poll'[q] = poll[q]
    BY <1>5 DEF Refuse, Selecting, BackchannelInv, BackchannelTypeOK, PollTrue
  <2> QED BY <1>1, <1>5, <2>1, OnePollMoves DEF Refuse
<1>6. ASSUME NEW p \in Poll, NEW o, Selecting(p), Exists(poll[p].auth), Hold(p, o),
             o = "tokens" => StatusOf(p) = "approved"
      PROVE  BackchannelInv'
  <2>1. PICK a \in Auth : a = poll[p].auth /\ lock[a] = Free
    BY <1>6 DEF Selecting, Available, BackchannelInv, PollTrue
  <2>2. /\ poll[p].at # "done" /\ poll'[p].at = "commit" /\ poll'[p].outcome = o
        /\ poll'[p].auth = a /\ lock'[a] = p
        /\ \A q \in Poll \ {p} : poll'[q] = poll[q]
        /\ \A b \in Auth \ {a} : lock'[b] = lock[b]
    BY <1>6, <2>1 DEF Hold, Selecting, BackchannelInv, BackchannelTypeOK
  <2>3. PollTrue(p)'
    BY <1>6, <2>1, <2>2 DEF PollTrue, Hold, Exists, StatusOf
  <2>4. \A q \in Poll \ {p} : poll[q].at = "commit" => poll[q].auth \in Auth \ {a}
    BY <2>1, BackchannelAssumption DEF BackchannelInv, PollTrue
  <2> QED BY <1>1, <1>6, <2>2, <2>3, <2>4, OnePollMoves DEF Hold
<1>7. ASSUME NEW p \in Poll, LosePoll(p) PROVE BackchannelInv'
  <2>1. /\ PollTrue(p)' /\ poll[p].at # "done" /\ poll'[p].outcome # "slow_down"
        /\ \A q \in Poll \ {p} : poll'[q] = poll[q]
    BY <1>7 DEF LosePoll, BackchannelInv, BackchannelTypeOK, PollTrue
  <2>2. \A q \in Poll \ {p} :
           poll[q].at = "commit" => lock'[poll[q].auth] = lock[poll[q].auth]
    BY <1>7 DEF LosePoll, BackchannelInv, BackchannelTypeOK, PollTrue
  <2> QED BY <1>1, <1>7, <2>1, <2>2, OnePollMoves DEF LosePoll
<1>8. ASSUME NEW p \in Poll,
             SelectMissing(p) \/ SelectExpired(p) \/ SelectWrongClient(p) \/ SelectPending(p)
               \/ SelectAnswered(p) \/ SelectApproved(p)
      PROVE  BackchannelInv'
  BY <1>5, <1>6, <1>8 DEF SelectMissing, SelectExpired, SelectWrongClient, SelectPending,
                          SelectAnswered, SelectApproved, Current
<1>9. ASSUME NEW d \in Decision,
             StartDecision(d) \/ ReadConsent(d) \/ WriteConsent(d) \/ LoseDecision(d)
      PROVE  BackchannelInv'
  <2>1. /\ UNCHANGED <<request, lock, sessions, poll>>
        /\ \A e \in Decision \ {d} : decision'[e] = decision[e]
        /\ decision[d].answer # "ok"
    BY <1>9 DEF StartDecision, ReadConsent, WriteConsent, LoseDecision, BackchannelInv,
                BackchannelTypeOK, DecisionTrue
  <2>2. decision'[d].answer # "ok" /\ DecisionTrue(d)'
    <3>1. CASE StartDecision(d)
      BY <3>1 DEF StartDecision, BackchannelInv, BackchannelTypeOK, DecisionTrue, Verdict
    <3>2. CASE ReadConsent(d)
      BY <3>2 DEF ReadConsent, BackchannelInv, BackchannelTypeOK, DecisionTrue
    <3>3. CASE WriteConsent(d)
      BY <3>3 DEF WriteConsent, BackchannelInv, BackchannelTypeOK, DecisionTrue
    <3>4. CASE LoseDecision(d)
      BY <3>4 DEF LoseDecision, BackchannelInv, BackchannelTypeOK, DecisionTrue
    <3> QED BY <1>9, <3>1, <3>2, <3>3, <3>4
  <2> QED BY <1>1, <2>1, <2>2, OneDecisionMoves
<1>10. CASE TimePasses \/ UNCHANGED backchannelVars
  <2>1. UNCHANGED <<request, lock, sessions, poll, decision>>
    BY <1>10 DEF TimePasses, backchannelVars
  <2> QED BY <1>1, <2>1, RowsMove
<1> QED BY <1>1, <1>2, <1>3, <1>4, <1>7, <1>8, <1>9, <1>10, CommitKeeps, DecideKeeps DEF BackchannelNext

\* Nothing has been asked: there is nothing to be true of.
LEMMA BackchannelInvInit == BackchannelInit => BackchannelInv
<1> SUFFICES ASSUME BackchannelInit PROVE BackchannelInv
  OBVIOUS
<1>1. \A a \in Auth : SlowPolls(a) = {}
  BY DEF BackchannelInit, SlowPolls
<1>2. \A a \in Auth : Counted(a)
  BY <1>1, FS_EmptySet DEF BackchannelInit, Counted, Exists
<1> QED BY <1>2, InitTypes DEF BackchannelInit, BackchannelInv, PollTrue, DecisionTrue, RowTrue, SessionTrue,
                             OneAnswer, ExchangedOnce

-----------------------------------------------------------------------------
(* Theorems.                                                               *)

\* Rows, polls, decisions and sessions agree in every reachable state.
THEOREM BackchannelInvariance == BackchannelSpec => []BackchannelInv
<1> QED BY BackchannelInvInit, BackchannelInvNext, PTL DEF BackchannelSpec

\* Every variable keeps its type.
THEOREM BackchannelTypes == BackchannelSpec => []BackchannelTypeOK
<1>1. BackchannelInv => BackchannelTypeOK
  BY DEF BackchannelInv
<1> QED BY <1>1, BackchannelInvariance, PTL

\* A request is exchanged once, however many polls arrive together, wait for each other's
\* lock or are lost before they commit.
THEOREM OneExchange == BackchannelSpec => []ExchangedOnce
<1>1. BackchannelInv => ExchangedOnce
  BY DEF BackchannelInv
<1> QED BY <1>1, BackchannelInvariance, PTL

\* Tokens are issued for a request the user approved, with nobody having denied it, and at
\* the level of the session that approved it, which was enough for the request.
THEOREM TokensAreApproved == BackchannelSpec => []TokensMatchDecision
<1>1. BackchannelInv => TokensMatchDecision
  <2> SUFFICES ASSUME BackchannelInv, NEW s \in sessions
               PROVE  /\ StrongEnough(s.auth, s.acr)
                      /\ \E d \in Decision : /\ decision[d].auth = s.auth
                                             /\ decision[d].answer = "ok"
                                             /\ decision[d].acr = s.acr
                      /\ \A d \in Decision :
                            decision[d].auth = s.auth /\ decision[d].answer = "ok"
                               => decision[d].verdict = "approved"
    BY DEF TokensMatchDecision
  <2>1. PICK d \in Decision : Approved(d, s.auth, s.acr)
    BY DEF BackchannelInv, SessionTrue
  <2> QED BY <2>1 DEF Approved, BackchannelInv, DecisionTrue, OneAnswer
<1> QED BY <1>1, BackchannelInvariance, PTL

\* The interval of a request is what every slow_down so far made of it, up to the longest.
THEOREM EverySlowDownCounts == BackchannelSpec => []SlowDownsAccumulate
<1>1. BackchannelInv => SlowDownsAccumulate
  BY DEF BackchannelInv, Counted, SlowPolls, SlowDownsAccumulate
<1> QED BY <1>1, BackchannelInvariance, PTL
=============================================================================
