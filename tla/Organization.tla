---------------------------- MODULE Organization ----------------------------
(***************************************************************************)
(* One organization of a realm, its members and its invitations.  A person *)
(* is known by an address; an account created by accepting an invitation   *)
(* is managed and goes with the membership or with the organization.       *)
(* Accepting, removing a member and deleting the organization are          *)
(* transactions at READ COMMITTED: they read first, and what they write    *)
(* becomes visible in one step.                                            *)
(***************************************************************************)
EXTENDS Naturals, FiniteSets

CONSTANTS
    Address,        \* email addresses
    RealmAddress,   \* those that have an account before the organization invites anybody
    Invitation,     \* rows of organization_invitations
    OrgRequest,     \* requests of several steps
    NoInvitation, NoAddress

ASSUME OrgAssumption ==
    RealmAddress \subseteq Address /\ NoInvitation \notin Invitation /\ NoAddress \notin Address

VARIABLES
    org,           \* the organization: enabled, disabled or deleted
    account,       \* per address: no account, a live one, or a deleted one
    member,        \* per address: membership_kind
    invitation,    \* status and address of each invitation; lapsed is pending but expired
    orgJob,        \* the requests in progress
    timesAccepted, \* ghost: how often each invitation was accepted
    culled,        \* ghost: accounts deleted for the organization's sake
    metDeletion    \* ghost: an acceptance overlapped the deletion of the organization

orgGhosts == <<timesAccepted, culled, metDeletion>>
orgVars == <<org, account, member, invitation, orgJob, orgGhosts>>

InvitationRow == [status : {"unborn", "pending", "lapsed", "accepted", "revoked", "expired"},
                  email : Address \cup {NoAddress}]
OrgJobs == [at : {"new", "accept", "remove", "delete", "edit", "done"},
            inv : Invitation \cup {NoInvitation},
            who : SUBSET Address,                    \* the accounts it will delete or create
            from : Address \cup {NoAddress},
            copy : {"enabled", "disabled"}]

OrgTypeOK ==
    /\ org \in {"enabled", "disabled", "deleted"}
    /\ account \in [Address -> {"none", "live", "deleted"}]
    /\ member \in [Address -> {"none", "managed", "unmanaged"}]
    /\ invitation \in [Invitation -> InvitationRow]
    /\ orgJob \in [OrgRequest -> OrgJobs]
    /\ timesAccepted \in [Invitation -> Nat]
    /\ culled \subseteq Address
    /\ metDeletion \in BOOLEAN

-----------------------------------------------------------------------------
IdleJob == [at |-> "new", inv |-> NoInvitation, who |-> {}, from |-> NoAddress,
            copy |-> "enabled"]

Begin(r, j) == orgJob[r].at = "new" /\ orgJob' = [orgJob EXCEPT ![r] = j]
End(r) == orgJob' = [orgJob EXCEPT ![r] = [IdleJob EXCEPT !.at = "done"]]
Doing(r, place) == orgJob[r].at = place

ManagedMembers == {e \in Address : member[e] = "managed"}

Deleting == \E r \in OrgRequest : Doing(r, "delete")
Accepting == \E r \in OrgRequest : Doing(r, "accept")

-----------------------------------------------------------------------------
(* Invitations.                                                            *)

\* create_invitation: expired ones for the address are marked, and one that is pending
\* makes the INSERT fail on its unique index.
Invite(i) ==
    \E e \in Address :
        /\ org # "deleted" /\ invitation[i].status = "unborn"
        /\ \A k \in Invitation : invitation[k] # [status |-> "pending", email |-> e]
        /\ invitation' = [k \in Invitation |->
              IF k = i THEN [status |-> "pending", email |-> e]
              ELSE IF invitation[k] = [status |-> "lapsed", email |-> e]
                   THEN [invitation[k] EXCEPT !.status = "expired"]
              ELSE invitation[k]]
        /\ UNCHANGED <<org, account, member, orgJob, orgGhosts>>

\* Time passes expires_at.
Lapse(i) ==
    /\ invitation[i].status = "pending"
    /\ invitation' = [invitation EXCEPT ![i].status = "lapsed"]
    /\ UNCHANGED <<org, account, member, orgJob, orgGhosts>>

\* revoke_invitation.
RevokeInvitation(i) ==
    /\ org # "deleted" /\ invitation[i].status \in {"pending", "lapsed"}
    /\ invitation' = [invitation EXCEPT ![i].status = "revoked"]
    /\ UNCHANGED <<org, account, member, orgJob, orgGhosts>>

\* accept_organization_invitation reads the invitation, the organization and the account;
\* an account that exists proves itself, and one that does not will be created.
ReadInvitation(r) ==
    \E i \in Invitation :
        /\ invitation[i].status = "pending" /\ org = "enabled"
        /\ LET e == invitation[i].email IN
           Begin(r, [IdleJob EXCEPT !.at = "accept", !.inv = i, !.from = e,
                                    !.who = IF account[e] = "live" THEN {} ELSE {e}])
        /\ metDeletion' = (metDeletion \/ Deleting)
        /\ UNCHANGED <<org, account, member, invitation, timesAccepted, culled>>

Creates(r) == orgJob[r].who # {}

\* Mutant of StillPending: the UPDATE names the invitation alone.
StillThere(i) == invitation[i].status # "unborn"

\* accept_invitation: status = 'pending' AND expires_at > NOW().
StillPending(i) == invitation[i].status = "pending"

\* The account is inserted, which fails where the address has a row, deleted or not; the
\* membership is inserted ON CONFLICT DO NOTHING; the invitation is marked; COMMIT.
Accept(r) ==
    LET e == orgJob[r].from
        i == orgJob[r].inv
    IN
    /\ Doing(r, "accept")
    /\ StillPending(i)
    /\ Creates(r) => account[e] = "none"
    /\ account' = IF Creates(r) THEN [account EXCEPT ![e] = "live"] ELSE account
    /\ member' = IF member[e] = "none"
                 THEN [member EXCEPT ![e] = IF Creates(r) THEN "managed" ELSE "unmanaged"]
                 ELSE member
    /\ invitation' = [invitation EXCEPT ![i].status = "accepted"]
    /\ timesAccepted' = [timesAccepted EXCEPT ![i] = @ + 1]
    /\ End(r)
    /\ UNCHANGED <<org, culled, metDeletion>>

\* Any of the statements fails: ROLLBACK.
RejectAcceptance(r) ==
    /\ Doing(r, "accept")
    /\ End(r)
    /\ UNCHANGED <<org, account, member, invitation, orgGhosts>>

-----------------------------------------------------------------------------
(* Administration.                                                         *)

\* add_member: a live account of the realm, ON CONFLICT DO NOTHING.
AddMember(e) ==
    /\ org # "deleted" /\ account[e] = "live" /\ member[e] = "none"
    /\ member' = [member EXCEPT ![e] = "unmanaged"]
    /\ UNCHANGED <<org, account, invitation, orgJob, orgGhosts>>

\* remove_member: SELECT membership_kind ...
ReadMember(r) ==
    \E e \in Address :
        /\ org # "deleted" /\ member[e] # "none"
        /\ Begin(r, [IdleJob EXCEPT !.at = "remove", !.from = e,
                                    !.who = IF member[e] = "managed" THEN {e} ELSE {}])
        /\ UNCHANGED <<org, account, member, invitation, orgGhosts>>

\* The accounts a request deletes: those that exist.
Cull(s) == [e \in Address |-> IF e \in s /\ account[e] # "none" THEN "deleted" ELSE account[e]]

\* ... then the account of a managed member and the membership go.
RemoveMember(r) ==
    /\ Doing(r, "remove")
    /\ account' = Cull(orgJob[r].who)
    /\ member' = [member EXCEPT ![orgJob[r].from] = "none"]
    /\ culled' = culled \cup orgJob[r].who
    /\ End(r)
    /\ UNCHANGED <<org, invitation, timesAccepted, metDeletion>>

\* Mutant of ReadManaged: the organization is deleted alone.
ReadNobody(r) ==
    /\ org # "deleted"
    /\ Begin(r, [IdleJob EXCEPT !.at = "delete", !.who = {}])
    /\ metDeletion' = (metDeletion \/ Accepting)
    /\ UNCHANGED <<org, account, member, invitation, timesAccepted, culled>>

\* delete: the accounts of the managed members, then the organization; its memberships and
\* its invitations stay.
ReadManaged(r) ==
    /\ org # "deleted"
    /\ Begin(r, [IdleJob EXCEPT !.at = "delete", !.who = ManagedMembers])
    /\ metDeletion' = (metDeletion \/ Accepting)
    /\ UNCHANGED <<org, account, member, invitation, timesAccepted, culled>>

DeleteOrganization(r) ==
    /\ Doing(r, "delete")
    /\ account' = Cull(orgJob[r].who)
    /\ org' = "deleted"
    /\ culled' = culled \cup orgJob[r].who
    /\ End(r)
    /\ UNCHANGED <<member, invitation, timesAccepted, metDeletion>>

\* update: the row is read and written whole, with the flag of the request or the one read.
ReadOrganization(r) ==
    \E flag \in {"enabled", "disabled"} :
        /\ org # "deleted"
        /\ Begin(r, [IdleJob EXCEPT !.at = "edit", !.copy = flag])
        /\ UNCHANGED <<org, account, member, invitation, orgGhosts>>

EditOrganization(r) ==
    /\ Doing(r, "edit")
    /\ org' = IF org = "deleted" THEN org ELSE orgJob[r].copy
    /\ End(r)
    /\ UNCHANGED <<account, member, invitation, orgGhosts>>

\* The account is deleted by the administrator of the realm.
DeleteAccount(e) ==
    /\ account[e] = "live"
    /\ account' = [account EXCEPT ![e] = "deleted"]
    /\ UNCHANGED <<org, member, invitation, orgJob, orgGhosts>>

-----------------------------------------------------------------------------
OrgInit ==
    /\ org = "enabled"
    /\ account = [e \in Address |-> IF e \in RealmAddress THEN "live" ELSE "none"]
    /\ member = [e \in Address |-> "none"]
    /\ invitation = [i \in Invitation |-> [status |-> "unborn", email |-> NoAddress]]
    /\ orgJob = [r \in OrgRequest |-> IdleJob]
    /\ timesAccepted = [i \in Invitation |-> 0]
    /\ culled = {} /\ metDeletion = FALSE

OrgNext ==
    \/ \E i \in Invitation : Invite(i) \/ Lapse(i) \/ RevokeInvitation(i)
    \/ \E r \in OrgRequest : \/ ReadInvitation(r) \/ Accept(r) \/ RejectAcceptance(r)
                             \/ ReadMember(r) \/ RemoveMember(r)
                             \/ ReadManaged(r) \/ DeleteOrganization(r)
                             \/ ReadOrganization(r) \/ EditOrganization(r)
    \/ \E e \in Address : AddMember(e) \/ DeleteAccount(e)

OrgSpec == OrgInit /\ [][OrgNext]_orgVars

-----------------------------------------------------------------------------
(* Properties.                                                             *)

\* "links are single use" and "a pending invitation can be revoked": an invitation brings
\* at most one member in, and none once it is revoked, whatever requests overlap.
InvitationUsedOnce ==
    \A i \in Invitation : timesAccepted[i] = IF invitation[i].status = "accepted" THEN 1 ELSE 0

\* "Removing their membership or deleting the organization also deletes those accounts",
\* unless an acceptance overlapped the deletion; "accounts that already existed in the
\* realm" are never deleted for it.
AccountsFollowOrganization ==
    /\ org = "deleted" => metDeletion \/ \A e \in ManagedMembers : account[e] = "deleted"
    /\ culled \cap RealmAddress = {}
=============================================================================
