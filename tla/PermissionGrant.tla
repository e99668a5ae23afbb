--------------------------- MODULE PermissionGrant ----------------------------
(***************************************************************************)
(* Authorization services (UMA): a resource server asks for a permission   *)
(* ticket, a client exchanges it, with the user's token, for a requesting  *)
(* party token (RPT) when the policies allow it, may upgrade the RPT it    *)
(* has, and administrators close tickets and revoke RPTs.                  *)
(*                                                                         *)
(* No handler opens a transaction: each statement commits alone.  What the *)
(* policies, permissions, roles and groups decide for a subject at a given *)
(* time is the relation `allowed', which administration changes.           *)
(***************************************************************************)
EXTENDS Naturals, FiniteSets

CONSTANTS
    Ticket,         \* rows of authorization_permission_tickets
    Rpt,            \* rows of authorization_rpt_grants
    Party,          \* users, the requesting parties
    Access,         \* a resource with scopes of it
    Grant,          \* requests to the token or the entitlement endpoint
    Nil             \* no row, nobody

ASSUME PermissionAssumption == Nil \notin Ticket \cup Rpt \cup Party

VARIABLES
    allowed,        \* what the policies decide now: pairs of a party and an access
    ticket,         \* [Ticket -> row]
    rpt,            \* [Rpt -> row]
    grant,          \* [Grant -> request]
    closed,         \* ghost: tickets an administrator has closed
    minted,         \* ghost: [Ticket -> how many RPTs it was exchanged for]
    deadAtStart     \* ghost: [Grant -> the RPTs revoked when it came]

permissionGhosts == <<closed, minted, deadAtStart>>
permissionVars == <<allowed, ticket, rpt, grant, permissionGhosts>>

TicketRow == [status : {"unborn", "live", "expired"}, access : Access \cup {Nil}, used : BOOLEAN,
              granted : BOOLEAN, requester : Party \cup {Nil}]
RptRow == [status : {"unborn", "live", "expired"}, revoked : BOOLEAN,
           permissions : SUBSET Access, party : Party \cup {Nil}]
GrantJob == [at : {"new", "ticket", "evaluate", "deny", "consume", "issue", "revoke", "done"},
             party : Party \cup {Nil}, previous : Rpt \cup {Nil}, kept : SUBSET Access,
             ticket : Ticket \cup {Nil}, requested : SUBSET Access,
             answer : {"none", "error", "token"}]

PermissionTypeOK ==
    /\ allowed \subseteq Party \X Access
    /\ ticket \in [Ticket -> TicketRow]
    /\ rpt \in [Rpt -> RptRow]
    /\ grant \in [Grant -> GrantJob]
    /\ closed \subseteq Ticket /\ minted \in [Ticket -> Nat]
    /\ deadAtStart \in [Grant -> SUBSET Rpt]

IdleGrant == [at |-> "new", party |-> Nil, previous |-> Nil, kept |-> {}, ticket |-> Nil,
              requested |-> {}, answer |-> "none"]

-----------------------------------------------------------------------------
\* A request is answered; what it held in memory is gone.
GrantEnds(g, answer) ==
    grant' = [grant EXCEPT ![g] = [IdleGrant EXCEPT !.at = "done", !.answer = answer,
                                                    !.previous = grant[g].previous]]
GrantGoes(g, step) == grant' = [grant EXCEPT ![g].at = step]

\* Administration of resources, policies and permissions; roles and groups of the party.
ChangePolicies(p, a) ==
    /\ allowed' = IF <<p, a>> \in allowed THEN allowed \ {<<p, a>>} ELSE allowed \cup {<<p, a>>}
    /\ UNCHANGED <<ticket, rpt, grant, permissionGhosts>>

\* create_permission_ticket, for the resource server.
CreateTicket(t) ==
    /\ ticket[t].status = "unborn"
    /\ \E a \in Access, p \in Party \cup {Nil} :
          ticket' = [ticket EXCEPT ![t] = [status |-> "live", access |-> a, used |-> FALSE,
                                           granted |-> FALSE, requester |-> p]]
    /\ UNCHANGED <<allowed, rpt, grant, permissionGhosts>>

\* Mutant: an RPT that is revoked can be upgraded still.
UpgradableRevoked(r) == rpt[r].status = "live"

\* find_active_rpt: not revoked, not expired.
Upgradable(r) == rpt[r].status = "live" /\ ~rpt[r].revoked

\* uma_ticket_grant: the claim token names a party; an RPT sent with it is upgraded, if it
\* is active and of this party, and its permissions are read now.
ReadPrevious(g) ==
    /\ grant[g].at = "new"
    /\ \E p \in Party :
          \/ grant' = [grant EXCEPT ![g] = [IdleGrant EXCEPT !.at = "ticket", !.party = p]]
          \/ \E r \in Rpt :
                /\ rpt[r].status # "unborn"
                /\ grant' = [grant EXCEPT ![g] =
                      IF Upgradable(r) /\ rpt[r].party = p
                      THEN [IdleGrant EXCEPT !.at = "ticket", !.party = p, !.previous = r,
                                             !.kept = rpt[r].permissions]
                      ELSE [IdleGrant EXCEPT !.at = "done", !.answer = "error"]]
    /\ deadAtStart' = [deadAtStart EXCEPT ![g] = {r \in Rpt : rpt[r].revoked}]
    /\ UNCHANGED <<allowed, ticket, rpt, closed, minted>>

\* Mutant: find_active_ticket without used = FALSE, and a consumption that tests nothing.
TicketThere(t) == ticket[t].status = "live"

\* find_active_ticket and consume_ticket: used = FALSE AND expires_at > NOW().
TicketActive(t) == ticket[t].status = "live" /\ ~ticket[t].used

\* The ticket of the request, for its requester only; or permissions asked for directly.
ReadTicket(g) ==
    /\ grant[g].at = "ticket"
    /\ \/ \E t \in Ticket :
             /\ ticket[t].status # "unborn"
             /\ IF TicketActive(t) /\ ticket[t].requester \in {Nil, grant[g].party}
                THEN grant' = [grant EXCEPT ![g].at = "evaluate", ![g].ticket = t,
                                            ![g].requested = {ticket[t].access}]
                ELSE GrantEnds(g, "error")
       \/ \E asked \in SUBSET Access :
             /\ asked # {}
             /\ grant' = [grant EXCEPT ![g].at = "evaluate", ![g].requested = asked]
    /\ UNCHANGED <<allowed, ticket, rpt, permissionGhosts>>

\* evaluate_requests: all that is requested, or nothing.
Evaluate(g) ==
    /\ grant[g].at = "evaluate"
    /\ IF {grant[g].party} \X grant[g].requested \subseteq allowed
       THEN GrantGoes(g, IF grant[g].ticket = Nil THEN "issue" ELSE "consume")
       ELSE IF grant[g].ticket = Nil THEN GrantEnds(g, "error") ELSE GrantGoes(g, "deny")
    /\ UNCHANGED <<allowed, ticket, rpt, permissionGhosts>>

\* consume_ticket, one conditional UPDATE.
Consumed(t, decision) ==
    ticket' = [ticket EXCEPT ![t].used = TRUE, ![t].granted = decision]

\* A denial uses the ticket up, whoever has used it meanwhile.
ConsumeDenied(g) ==
    LET t == grant[g].ticket IN
    /\ grant[g].at = "deny"
    /\ IF TicketActive(t) THEN Consumed(t, FALSE) ELSE UNCHANGED ticket
    /\ GrantEnds(g, "error")
    /\ UNCHANGED <<allowed, rpt, permissionGhosts>>

ConsumeGranted(g) ==
    LET t == grant[g].ticket IN
    /\ grant[g].at = "consume"
    /\ IF TicketActive(t)
       THEN Consumed(t, TRUE) /\ GrantGoes(g, "issue")
       ELSE UNCHANGED ticket /\ GrantEnds(g, "error")
    /\ UNCHANGED <<allowed, rpt, permissionGhosts>>

\* entitlement: everything the party is allowed, without ticket or previous RPT.
Entitlement(g) ==
    /\ grant[g].at = "new"
    /\ \E p \in Party :
          LET granted == {a \in Access : <<p, a>> \in allowed} IN
          grant' = [grant EXCEPT ![g] =
              IF granted = {} THEN [IdleGrant EXCEPT !.at = "done", !.answer = "error"]
              ELSE [IdleGrant EXCEPT !.at = "issue", !.party = p, !.requested = granted]]
    /\ UNCHANGED <<allowed, ticket, rpt, permissionGhosts>>

\* merge_permissions and issue_rpt: what is granted and what the previous RPT held when it
\* was read, neither decided again.
IssueRpt(g) ==
    /\ grant[g].at = "issue"
    /\ \E r \in Rpt :
          /\ rpt[r].status = "unborn"
          /\ rpt' = [rpt EXCEPT ![r] = [status |-> "live", revoked |-> FALSE,
                        permissions |-> grant[g].requested \cup grant[g].kept,
                        party |-> grant[g].party]]
    /\ minted' = [t \in Ticket |-> minted[t] + (IF t = grant[g].ticket THEN 1 ELSE 0)]
    /\ IF grant[g].previous = Nil THEN GrantEnds(g, "token") ELSE GrantGoes(g, "revoke")
    /\ UNCHANGED <<allowed, ticket, closed, deadAtStart>>

\* Mutant: the upgrade forgets the RPT it replaces.
ReplacedKept(r) == rpt

\* revoke_rpt: the RPT that has been replaced.
ReplacedRevoked(r) == [rpt EXCEPT ![r].revoked = TRUE]

RevokePrevious(g) ==
    /\ grant[g].at = "revoke"
    /\ rpt' = ReplacedRevoked(grant[g].previous)
    /\ GrantEnds(g, "token")
    /\ UNCHANGED <<allowed, ticket, permissionGhosts>>

\* A statement fails: what has been committed stays, the ticket used or the RPT stored.
GrantFails(g) ==
    /\ grant[g].at \notin {"new", "done"}
    /\ GrantEnds(g, "error")
    /\ UNCHANGED <<allowed, ticket, rpt, permissionGhosts>>

\* Administration: a ticket is closed, granted or not, an RPT revoked.
CloseTicket(t) ==
    /\ ticket[t].status # "unborn"
    /\ Consumed(t, FALSE)
    /\ closed' = closed \cup {t}
    /\ UNCHANGED <<allowed, rpt, grant, minted, deadAtStart>>

RevokeRpt(r) ==
    /\ rpt[r].status # "unborn"
    /\ rpt' = [rpt EXCEPT ![r].revoked = TRUE]
    /\ UNCHANGED <<allowed, ticket, grant, permissionGhosts>>

\* Time; what has expired is found by nothing, and cleanup_expired deletes it.
ExpireTicket(t) ==
    /\ ticket[t].status = "live"
    /\ ticket' = [ticket EXCEPT ![t].status = "expired"]
    /\ UNCHANGED <<allowed, rpt, grant, permissionGhosts>>

ExpireRpt(r) ==
    /\ rpt[r].status = "live"
    /\ rpt' = [rpt EXCEPT ![r].status = "expired"]
    /\ UNCHANGED <<allowed, ticket, grant, permissionGhosts>>

-----------------------------------------------------------------------------
PermissionInit ==
    /\ allowed = Party \X Access
    /\ ticket = [t \in Ticket |-> [status |-> "unborn", access |-> Nil,
                                   used |-> FALSE, granted |-> FALSE, requester |-> Nil]]
    /\ rpt = [r \in Rpt |-> [status |-> "unborn", revoked |-> FALSE, permissions |-> {},
                             party |-> Nil]]
    /\ grant = [g \in Grant |-> IdleGrant]
    /\ closed = {} /\ minted = [t \in Ticket |-> 0]
    /\ deadAtStart = [g \in Grant |-> {}]

PermissionNext ==
    \/ \E p \in Party, a \in Access : ChangePolicies(p, a)
    \/ \E t \in Ticket : CreateTicket(t) \/ CloseTicket(t) \/ ExpireTicket(t)
    \/ \E r \in Rpt : RevokeRpt(r) \/ ExpireRpt(r)
    \/ \E g \in Grant :
          ReadPrevious(g) \/ ReadTicket(g) \/ Evaluate(g) \/ ConsumeDenied(g)
            \/ ConsumeGranted(g) \/ Entitlement(g) \/ IssueRpt(g) \/ RevokePrevious(g)
            \/ GrantFails(g)

PermissionSpec == PermissionInit /\ [][PermissionNext]_permissionVars

-----------------------------------------------------------------------------
(* Properties.                                                             *)

\* A ticket is exchanged for one RPT at most, however many requests have read it active;
\* and for none once it was denied: a denial that comes first refuses the grant that
\* was decided before it.
TicketWorksOnce ==
    \A t \in Ticket :
        /\ minted[t] <= 1
        /\ minted[t] = 1 /\ t \notin closed => ticket[t].used /\ ticket[t].granted

\* An RPT whose upgrade was answered is revoked, and it was not when the upgrade came:
\* a chain of upgrades leaves its last RPT alone.
UpgradeReplaces ==
    \A g \in Grant :
        grant[g].answer = "token" /\ grant[g].previous # Nil =>
            rpt[grant[g].previous].revoked /\ grant[g].previous \notin deadAtStart[g]
=============================================================================
