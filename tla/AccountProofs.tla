---------------------------- MODULE AccountProofs -----------------------------
(***************************************************************************)
(* Theorems about accounts and the ways into them: organizations and their *)
(* invitations, social login, and the account itself with the links sent   *)
(* by mail, for any number of rows and of requests.  Each theorem is about *)
(* the specification of its component.                                     *)
(***************************************************************************)
EXTENDS MCServices, FiniteSetTheorems, TLAPS

-----------------------------------------------------------------------------
(* Organization: an invitation is accepted once, and the accounts made for *)
(* the organization go with it.                                            *)

\* A request that will accept knows an address; one that will delete accounts deletes some
\* that the realm did not have.
OrgJobTrue(r) ==
    /\ orgJob[r].at = "accept" =>
          /\ orgJob[r].inv \in Invitation /\ orgJob[r].from \in Address
          /\ orgJob[r].who \subseteq {orgJob[r].from}
    /\ orgJob[r].at \in {"remove", "delete"} => orgJob[r].who \cap RealmAddress = {}
    \* The deletion of the organization read every managed member, and none came since.
    /\ orgJob[r].at = "delete" => metDeletion \/ ManagedMembers \subseteq orgJob[r].who

\* What is true of an address.
AddressTrue(e) ==
    /\ e \in RealmAddress => account[e] # "none"
    /\ member[e] = "managed" => account[e] # "none" /\ e \notin RealmAddress

\* An acceptance that is under way with a deletion has met it.
DeletionMet ==
    /\ Deleting /\ Accepting => metDeletion
    /\ org = "deleted" /\ Accepting => metDeletion

OrgInv ==
    /\ OrgTypeOK
    /\ \A i \in Invitation : invitation[i].status # "unborn" => invitation[i].email \in Address
    /\ \A r \in OrgRequest : OrgJobTrue(r)
    /\ \A e \in Address : AddressTrue(e)
    /\ DeletionMet
    /\ InvitationUsedOnce
    /\ AccountsFollowOrganization

\* Nothing has been asked of the organization.
LEMMA OrgInvInit == OrgInit => OrgInv
<1> SUFFICES ASSUME OrgInit PROVE OrgInv
  OBVIOUS
<1>1. OrgTypeOK
  BY DEF OrgInit, OrgTypeOK, InvitationRow, OrgJobs, IdleJob
<1> QED
  BY <1>1, OrgAssumption
  DEF OrgInit, OrgInv, OrgJobTrue, AddressTrue, DeletionMet, InvitationUsedOnce,
      AccountsFollowOrganization, IdleJob, Deleting, Accepting, Doing, ManagedMembers

\* A request that ends holds nothing.
LEMMA OrgEnds ==
    ASSUME OrgTypeOK, NEW r \in OrgRequest, End(r)
    PROVE  /\ orgJob' \in [OrgRequest -> OrgJobs]
           /\ orgJob'[r].at = "done"
           /\ \A q \in OrgRequest : q # r => orgJob'[q] = orgJob[q]
BY DEF OrgTypeOK, End, OrgJobs, IdleJob

\* The invitations and what is done with them.
LEMMA InvitationStep ==
    ASSUME OrgInv, NEW i \in Invitation, Invite(i) \/ Lapse(i) \/ RevokeInvitation(i)
    PROVE  OrgInv'
<1>1. /\ UNCHANGED <<org, account, member, orgJob, orgGhosts>>
      /\ invitation' \in [Invitation -> InvitationRow]
      /\ \A k \in Invitation :
            /\ invitation'[k].status = "accepted" <=> invitation[k].status = "accepted"
            /\ invitation'[k].status # "unborn" => invitation'[k].email \in Address
  <2>1. CASE Invite(i)
    <3>1. PICK e \in Address :
             invitation' = [k \in Invitation |->
                IF k = i THEN [status |-> "pending", email |-> e]
                ELSE IF invitation[k] = [status |-> "lapsed", email |-> e]
                     THEN [invitation[k] EXCEPT !.status = "expired"]
                ELSE invitation[k]]
      BY <2>1 DEF Invite
    <3>2. ASSUME NEW k \in Invitation
          PROVE  /\ invitation'[k] \in InvitationRow
                 /\ invitation'[k].status = "accepted" <=> invitation[k].status = "accepted"
                 /\ invitation'[k].status # "unborn" => invitation'[k].email \in Address
      <4>1. invitation[k] \in InvitationRow
        BY DEF OrgInv, OrgTypeOK
      <4> QED BY <2>1, <3>1, <4>1 DEF Invite, InvitationRow, OrgInv
    <3> QED BY <2>1, <3>1, <3>2 DEF Invite
  <2>2. CASE Lapse(i)
    BY <2>2 DEF Lapse, OrgInv, OrgTypeOK, InvitationRow
  <2>3. CASE RevokeInvitation(i)
    BY <2>3 DEF RevokeInvitation, OrgInv, OrgTypeOK, InvitationRow
  <2> QED BY <2>1, <2>2, <2>3
<1>2. OrgTypeOK'
  BY <1>1 DEF OrgInv, OrgTypeOK, orgGhosts
<1> QED
  BY <1>1, <1>2
  DEF OrgInv, OrgJobTrue, AddressTrue, DeletionMet, InvitationUsedOnce, orgGhosts,
      AccountsFollowOrganization, Deleting, Accepting, Doing, ManagedMembers

\* A request that reads: it begins at a place with what it has read.
LEMMA OrgReads ==
    ASSUME OrgInv, NEW r \in OrgRequest,
           ReadInvitation(r) \/ ReadMember(r) \/ ReadManaged(r) \/ ReadOrganization(r)
    PROVE  OrgInv'
<1>1. /\ UNCHANGED <<org, account, member, invitation, timesAccepted, culled>>
      /\ metDeletion \in BOOLEAN /\ metDeletion' \in BOOLEAN /\ (metDeletion => metDeletion')
  BY DEF ReadInvitation, ReadMember, ReadManaged, ReadOrganization, orgGhosts, OrgInv, OrgTypeOK
<1>2. PICK x : /\ x \in OrgJobs /\ orgJob' = [orgJob EXCEPT ![r] = x]
               /\ x.at = "accept" =>
                     /\ x.inv \in Invitation /\ x.from \in Address /\ x.who \subseteq {x.from}
                     /\ org = "enabled" /\ (Deleting => metDeletion')
               /\ x.at \in {"remove", "delete"} => x.who \cap RealmAddress = {}
               /\ x.at = "delete" => x.who = ManagedMembers /\ (Accepting => metDeletion')
  <2>1. CASE ReadInvitation(r)
    <3>1. PICK i \in Invitation :
             /\ invitation[i].status = "pending" /\ org = "enabled"
             /\ Begin(r, [IdleJob EXCEPT !.at = "accept", !.inv = i, !.from = invitation[i].email,
                             !.who = IF account[invitation[i].email] = "live" THEN {}
                                     ELSE {invitation[i].email}])
             /\ metDeletion' = (metDeletion \/ Deleting)
      BY <2>1 DEF ReadInvitation
    <3>2. PICK e \in Address, s \in SUBSET Address :
             /\ e = invitation[i].email /\ s = IF account[e] = "live" THEN {} ELSE {e}
      BY <3>1 DEF OrgInv
    <3>3. PICK x : x = [IdleJob EXCEPT !.at = "accept", !.inv = i, !.from = e, !.who = s]
      OBVIOUS
    <3>4. /\ x \in OrgJobs /\ x.at = "accept" /\ x.inv = i /\ x.from = e /\ x.who = s
          /\ orgJob' = [orgJob EXCEPT ![r] = x]
      BY <3>1, <3>2, <3>3 DEF Begin, IdleJob, OrgJobs
    <3> QED BY <3>1, <3>2, <3>4
  <2>2. CASE ReadMember(r)
    <3>1. PICK e \in Address :
             /\ member[e] # "none"
             /\ Begin(r, [IdleJob EXCEPT !.at = "remove", !.from = e,
                             !.who = IF member[e] = "managed" THEN {e} ELSE {}])
      BY <2>2 DEF ReadMember
    <3>2. PICK s \in SUBSET Address : s = IF member[e] = "managed" THEN {e} ELSE {}
      OBVIOUS
    <3>3. PICK x : x = [IdleJob EXCEPT !.at = "remove", !.from = e, !.who = s]
      OBVIOUS
    <3>4. /\ x \in OrgJobs /\ x.at = "remove" /\ x.who = s
          /\ orgJob' = [orgJob EXCEPT ![r] = x]
      BY <3>1, <3>2, <3>3 DEF Begin, IdleJob, OrgJobs
    <3>5. s \cap RealmAddress = {}
      BY <3>2 DEF OrgInv, AddressTrue
    <3> QED BY <3>4, <3>5
  <2>3. CASE ReadManaged(r)
    <3>1. PICK x : x = [IdleJob EXCEPT !.at = "delete", !.who = ManagedMembers]
      OBVIOUS
    <3>2. /\ x \in OrgJobs /\ x.at = "delete" /\ x.who = ManagedMembers
          /\ orgJob' = [orgJob EXCEPT ![r] = x]
      BY <2>3, <3>1 DEF ReadManaged, Begin, IdleJob, OrgJobs, ManagedMembers
    <3>3. ManagedMembers \cap RealmAddress = {}
      BY DEF OrgInv, AddressTrue, ManagedMembers
    <3> QED BY <2>3, <3>2, <3>3 DEF ReadManaged
  <2>4. CASE ReadOrganization(r)
    <3>1. PICK f \in {"enabled", "disabled"} : Begin(r, [IdleJob EXCEPT !.at = "edit", !.copy = f])
      BY <2>4 DEF ReadOrganization
    <3>2. PICK x : x = [IdleJob EXCEPT !.at = "edit", !.copy = f]
      OBVIOUS
    <3>3. x \in OrgJobs /\ x.at = "edit" /\ orgJob' = [orgJob EXCEPT ![r] = x]
      BY <3>1, <3>2 DEF Begin, IdleJob, OrgJobs
    <3> QED BY <3>3
  <2> QED BY <2>1, <2>2, <2>3, <2>4
<1>3. OrgTypeOK'
  BY <1>1, <1>2 DEF OrgInv, OrgTypeOK
<1>4. ManagedMembers' = ManagedMembers
  BY <1>1 DEF ManagedMembers
<1>5. orgJob \in [OrgRequest -> OrgJobs]
  BY DEF OrgInv, OrgTypeOK
<1>6. orgJob'[r] = x /\ \A q \in OrgRequest : q # r => orgJob'[q] = orgJob[q]
  BY <1>2, <1>5
<1>7. ASSUME NEW q \in OrgRequest PROVE OrgJobTrue(q)'
  BY <1>1, <1>2, <1>4, <1>6 DEF OrgInv, OrgJobTrue
<1>8. DeletionMet'
  <2>1. CASE x.at = "accept"
    <3>1. Deleting' => Deleting
      BY <1>6, <2>1 DEF Deleting, Doing
    <3> QED BY <1>1, <1>2, <2>1, <3>1 DEF DeletionMet, OrgInv
  <2>2. CASE x.at # "accept"
    <3>1. Accepting' => Accepting
      BY <1>6, <2>2 DEF Accepting, Doing
    <3>2. x.at # "delete" => (Deleting' => Deleting)
      BY <1>6 DEF Deleting, Doing
    <3> QED BY <1>1, <1>2, <3>1, <3>2 DEF DeletionMet, OrgInv
  <2> QED BY <2>1, <2>2
<1>9. InvitationUsedOnce' /\ AccountsFollowOrganization'
  BY <1>1, <1>4 DEF InvitationUsedOnce, AccountsFollowOrganization, OrgInv
<1>10. \A e \in Address : AddressTrue(e)'
  BY <1>1 DEF AddressTrue, OrgInv
<1> QED BY <1>1, <1>3, <1>7, <1>8, <1>9, <1>10 DEF OrgInv

\* A request that ends, and takes no managed member with it that a deletion has not read,
\* keeps the invariant with what it does to accounts and members.
LEMMA OrgEndStep ==
    ASSUME OrgInv, NEW r \in OrgRequest, End(r), UNCHANGED metDeletion, OrgTypeOK',
           \A e \in Address : AddressTrue(e)',
           \A i \in Invitation : invitation'[i].status # "unborn" => invitation'[i].email \in Address,
           ManagedMembers' \subseteq ManagedMembers \/ Doing(r, "accept"),
           org' = "deleted" => org = "deleted" \/ Doing(r, "delete"),
           InvitationUsedOnce', AccountsFollowOrganization'
    PROVE  OrgInv'
<1>1. /\ orgJob'[r].at = "done"
      /\ \A q \in OrgRequest : q # r => orgJob'[q] = orgJob[q]
  BY OrgEnds DEF OrgInv
<1>2. /\ Deleting' => Deleting
      /\ Accepting' => Accepting
      /\ \A q \in OrgRequest : Doing(q, "delete")' => Deleting
  BY <1>1 DEF Deleting, Accepting, Doing
<1>3. DeletionMet'
  BY <1>2 DEF DeletionMet, OrgInv, Deleting
<1>4. ASSUME NEW q \in OrgRequest PROVE OrgJobTrue(q)'
  <2>1. CASE q = r
    BY <1>1, <2>1 DEF OrgJobTrue
  <2>2. CASE q # r
    <3>1. orgJob'[q] = orgJob[q] /\ OrgJobTrue(q)
      BY <1>1, <2>2 DEF OrgInv
    <3>2. orgJob[q].at = "delete" /\ Doing(r, "accept") => metDeletion
      BY DEF OrgInv, DeletionMet, Deleting, Accepting, Doing
    <3> QED BY <3>1, <3>2 DEF OrgJobTrue
  <2> QED BY <2>1, <2>2
<1> QED BY <1>3, <1>4 DEF OrgInv

\* Acceptance.
LEMMA AcceptStep ==
    ASSUME OrgInv, NEW r \in OrgRequest, Accept(r)
    PROVE  OrgInv'
<1>1. PICK e \in Address, i \in Invitation : e = orgJob[r].from /\ i = orgJob[r].inv
  BY DEF Accept, Doing, OrgInv, OrgJobTrue
<1>2. /\ invitation[i].status = "pending" /\ (Creates(r) => account[e] = "none")
      /\ invitation' = [invitation EXCEPT ![i].status = "accepted"]
      /\ timesAccepted' = [timesAccepted EXCEPT ![i] = @ + 1]
      /\ account' = IF Creates(r) THEN [account EXCEPT ![e] = "live"] ELSE account
      /\ member' = IF member[e] = "none"
                   THEN [member EXCEPT ![e] = IF Creates(r) THEN "managed" ELSE "unmanaged"]
                   ELSE member
      /\ End(r) /\ UNCHANGED <<org, culled, metDeletion>> /\ Doing(r, "accept")
  BY <1>1 DEF Accept, StillPending
<1>3. /\ account \in [Address -> {"none", "live", "deleted"}]
      /\ member \in [Address -> {"none", "managed", "unmanaged"}]
      /\ invitation \in [Invitation -> InvitationRow] /\ invitation[i] \in InvitationRow
      /\ timesAccepted \in [Invitation -> Nat] /\ timesAccepted[i] = 0
  BY <1>2 DEF OrgInv, OrgTypeOK, InvitationUsedOnce
<1>4. /\ account' \in [Address -> {"none", "live", "deleted"}]
      /\ member' \in [Address -> {"none", "managed", "unmanaged"}]
  BY <1>2, <1>3
<1>5. /\ invitation' \in [Invitation -> InvitationRow] /\ invitation'[i].status = "accepted"
      /\ invitation'[i].email = invitation[i].email
      /\ \A k \in Invitation : k # i => invitation'[k] = invitation[k]
      /\ timesAccepted' \in [Invitation -> Nat] /\ timesAccepted'[i] = 1
      /\ \A k \in Invitation : k # i => timesAccepted'[k] = timesAccepted[k]
  BY <1>2, <1>3 DEF InvitationRow
<1>6. OrgTypeOK'
  BY <1>2, <1>4, <1>5, OrgEnds DEF OrgInv, OrgTypeOK
<1>7. ASSUME NEW a \in Address PROVE AddressTrue(a)'
  BY <1>2, <1>3, <1>4 DEF OrgInv, AddressTrue
<1>8. InvitationUsedOnce'
  BY <1>2, <1>5 DEF InvitationUsedOnce, OrgInv
<1>9. AccountsFollowOrganization'
  <2>1. org = "deleted" => metDeletion
    BY <1>2 DEF OrgInv, DeletionMet, Accepting
  <2> QED BY <1>2, <2>1 DEF AccountsFollowOrganization, OrgInv
<1>10. \A k \in Invitation : invitation'[k].status # "unborn" => invitation'[k].email \in Address
  BY <1>2, <1>5 DEF OrgInv
<1> QED BY <1>2, <1>6, <1>7, <1>8, <1>9, <1>10, OrgEndStep

\* A request that deletes the accounts it has read, with a membership or with the
\* organization.
LEMMA CullStep ==
    ASSUME OrgInv, NEW r \in OrgRequest, RemoveMember(r) \/ DeleteOrganization(r)
    PROVE  OrgInv'
<1>1. PICK w : w = orgJob[r].who
  OBVIOUS
<1>2. /\ w \subseteq Address /\ w \cap RealmAddress = {}
      /\ Doing(r, "delete") => metDeletion \/ ManagedMembers \subseteq w
  BY <1>1 DEF RemoveMember, DeleteOrganization, Doing, OrgInv, OrgTypeOK, OrgJobs, OrgJobTrue
<1>3. /\ account \in [Address -> {"none", "live", "deleted"}]
      /\ member \in [Address -> {"none", "managed", "unmanaged"}]
      /\ culled \subseteq Address
  BY DEF OrgInv, OrgTypeOK
<1>4. /\ account' = Cull(w) /\ culled' = culled \cup w
      /\ End(r) /\ UNCHANGED <<invitation, timesAccepted, metDeletion>>
      /\ org' = "deleted" => org = "deleted" \/ Doing(r, "delete")
      /\ org' \in {"enabled", "disabled", "deleted"}
      /\ member' = member \/ member' = [member EXCEPT ![orgJob[r].from] = "none"]
      /\ Doing(r, "remove") \/ Doing(r, "delete")
  BY <1>1 DEF RemoveMember, DeleteOrganization, OrgInv, OrgTypeOK
<1>5. /\ account' \in [Address -> {"none", "live", "deleted"}]
      /\ \A e \in Address : /\ account'[e] = "none" <=> account[e] = "none"
                            /\ account[e] = "deleted" => account'[e] = "deleted"
                            /\ e \in w /\ account[e] # "none" => account'[e] = "deleted"
  BY <1>3, <1>4 DEF Cull
<1>6. /\ member' \in [Address -> {"none", "managed", "unmanaged"}]
      /\ \A e \in Address : member'[e] = "managed" => member[e] = "managed"
  BY <1>3, <1>4
<1>7. OrgTypeOK'
  BY <1>2, <1>3, <1>4, <1>5, <1>6, OrgEnds DEF OrgInv, OrgTypeOK
<1>8. ASSUME NEW a \in Address PROVE AddressTrue(a)'
  BY <1>5, <1>6 DEF OrgInv, AddressTrue
<1>9. ManagedMembers' \subseteq ManagedMembers
  BY <1>6 DEF ManagedMembers
<1>10. AccountsFollowOrganization'
  <2>1. culled' \cap RealmAddress = {}
    BY <1>2, <1>4 DEF OrgInv, AccountsFollowOrganization
  <2>2. ASSUME org' = "deleted", ~metDeletion, NEW e \in ManagedMembers' PROVE account'[e] = "deleted"
    <3>1. e \in Address /\ e \in ManagedMembers /\ account[e] # "none"
      BY <1>9, <2>2 DEF ManagedMembers, OrgInv, AddressTrue
    <3>2. CASE org = "deleted"
      BY <1>5, <2>2, <3>1, <3>2 DEF OrgInv, AccountsFollowOrganization
    <3>3. CASE Doing(r, "delete")
      BY <1>2, <1>5, <2>2, <3>1, <3>3
    <3> QED BY <1>4, <2>2, <3>2, <3>3
  <2> QED BY <1>4, <2>1, <2>2 DEF AccountsFollowOrganization
<1>11. InvitationUsedOnce'
  BY <1>4 DEF InvitationUsedOnce, OrgInv
<1>12. \A k \in Invitation : invitation'[k].status # "unborn" => invitation'[k].email \in Address
  BY <1>4 DEF OrgInv
<1> QED BY <1>4, <1>7, <1>8, <1>9, <1>10, <1>11, <1>12, OrgEndStep

\* The organization is edited, or an acceptance fails.
LEMMA OrgOtherEnd ==
    ASSUME OrgInv, NEW r \in OrgRequest, EditOrganization(r) \/ RejectAcceptance(r)
    PROVE  OrgInv'
<1>1. /\ End(r) /\ UNCHANGED <<account, member, invitation, timesAccepted, culled, metDeletion>>
      /\ org' \in {"enabled", "disabled", "deleted"}
      /\ org' = "deleted" <=> org = "deleted"
  BY DEF EditOrganization, RejectAcceptance, orgGhosts, OrgInv, OrgTypeOK, OrgJobs
<1>2. OrgTypeOK'
  BY <1>1, OrgEnds DEF OrgInv, OrgTypeOK
<1>3. ManagedMembers' = ManagedMembers
  BY <1>1 DEF ManagedMembers
<1>4. /\ InvitationUsedOnce' /\ AccountsFollowOrganization'
      /\ \A a \in Address : AddressTrue(a)'
      /\ \A k \in Invitation : invitation'[k].status # "unborn" => invitation'[k].email \in Address
  BY <1>1, <1>3 DEF OrgInv, InvitationUsedOnce, AccountsFollowOrganization, AddressTrue
<1> QED BY <1>1, <1>2, <1>3, <1>4, OrgEndStep

\* Members are added and accounts deleted by administrators.
LEMMA OrgAdminStep ==
    ASSUME OrgInv, NEW e \in Address, AddMember(e) \/ DeleteAccount(e)
    PROVE  OrgInv'
<1>1. /\ UNCHANGED <<org, invitation, orgJob, timesAccepted, culled, metDeletion>>
      /\ account' \in [Address -> {"none", "live", "deleted"}]
      /\ member' \in [Address -> {"none", "managed", "unmanaged"}]
      /\ \A a \in Address : /\ member'[a] = "managed" <=> member[a] = "managed"
                            /\ account'[a] = "none" <=> account[a] = "none"
                            /\ account[a] = "deleted" => account'[a] = "deleted"
  BY DEF AddMember, DeleteAccount, orgGhosts, OrgInv, OrgTypeOK
<1>2. ManagedMembers' = ManagedMembers
  BY <1>1 DEF ManagedMembers
<1>3. OrgTypeOK'
  BY <1>1 DEF OrgInv, OrgTypeOK
<1>4. \A a \in Address : AddressTrue(a)'
  BY <1>1 DEF OrgInv, AddressTrue
<1>5. AccountsFollowOrganization'
  BY <1>1, <1>2 DEF OrgInv, AccountsFollowOrganization, ManagedMembers
<1>6. (Deleting' <=> Deleting) /\ (Accepting' <=> Accepting)
  BY <1>1 DEF Deleting, Accepting, Doing
<1>7. /\ InvitationUsedOnce' /\ DeletionMet'
      /\ \A r \in OrgRequest : OrgJobTrue(r)'
      /\ \A k \in Invitation : invitation'[k].status # "unborn" => invitation'[k].email \in Address
  BY <1>1, <1>2, <1>6 DEF OrgInv, InvitationUsedOnce, DeletionMet, OrgJobTrue
<1> QED BY <1>3, <1>4, <1>5, <1>7 DEF OrgInv

\* A step that changes nothing.
LEMMA OrgStutter == OrgInv /\ UNCHANGED orgVars => OrgInv'
BY DEF orgVars, orgGhosts, OrgInv, OrgTypeOK, OrgJobTrue, AddressTrue, DeletionMet, Deleting,
       Accepting, Doing, ManagedMembers, InvitationUsedOnce, AccountsFollowOrganization

\* The rows of an organization and the requests under way agree in every reachable state.
THEOREM OrgInvariance == OrgSpec => []OrgInv
<1>1. OrgInv /\ [OrgNext]_orgVars => OrgInv'
  BY InvitationStep, OrgReads, AcceptStep, CullStep, OrgOtherEnd, OrgAdminStep, OrgStutter
     DEF OrgNext
<1> QED BY <1>1, OrgInvInit, PTL DEF OrgSpec

\* An invitation brings one member in, and none once it is revoked, for any number of
\* requests that overlap.
THEOREM InvitationOnce == OrgSpec => []InvitationUsedOnce
<1>1. OrgInv => InvitationUsedOnce
  BY DEF OrgInv
<1> QED BY <1>1, OrgInvariance, PTL

\* Deleting the organization deletes the accounts made for it, unless an acceptance met the
\* deletion, and never one that the realm had before.
THEOREM AccountsGoWithIt == OrgSpec => []AccountsFollowOrganization
<1>1. OrgInv => AccountsFollowOrganization
  BY DEF OrgInv
<1> QED BY <1>1, OrgInvariance, PTL
-----------------------------------------------------------------------------
(* SocialLogin.                                                            *)

\* A state that was consumed stays used.
StatesInv == \A s \in consumed : loginState[s] = "used"

\* What a callback holds at its place.  Past the state, that state was not consumed before
\* it came; past the link, the account is the one its subject is linked to, unless the link
\* has been removed since.
CallbackTrue(c) ==
    /\ callback[c].at # "done" => callback[c].answer = "none"
    /\ callback[c].at \in {"new", "consume", "exchange"} => callback[c].subject = Nothing
    /\ callback[c].at \notin {"new", "done"} =>
          callback[c].state \in LoginState /\ callback[c].state \notin lateFor[c]
    /\ callback[c].subject # Nothing => callback[c].state \notin lateFor[c]
    /\ callback[c].at \notin {"new", "consume", "exchange", "done"} => callback[c].subject \in Upstream
    /\ callback[c].at = "insert" => callback[c].user \in LocalUser
    /\ callback[c].at \in {"enrol", "session"} \/ callback[c].answer = "code" =>
          /\ callback[c].subject \in Upstream /\ callback[c].user \in LocalUser
          /\ callback[c].subject \notin unlinked => fed[callback[c].subject] = callback[c].user

SocialInv ==
    /\ SocialTypeOK
    /\ StatesInv
    /\ \A c \in Callback : CallbackTrue(c)

\* The types of a callback's row.
LEMMA CallbackTypes ==
    ASSUME SocialTypeOK, NEW c \in Callback
    PROVE  /\ callback[c] \in CallbackJob
           /\ callback[c].state \in LoginState \cup {Nothing}
           /\ callback[c].subject \in Upstream \cup {Nothing}
           /\ callback[c].email \in Mail \cup {Nothing}
           /\ callback[c].user \in LocalUser \cup {Nothing}
BY DEF SocialTypeOK, CallbackJob

\* Nobody has come.
LEMMA SocialInvInit == SocialInit => SocialInv
<1> SUFFICES ASSUME SocialInit PROVE SocialInv
  OBVIOUS
<1>1. IdleCallback \in CallbackJob
  BY DEF IdleCallback, CallbackJob
<1>2. SocialTypeOK
  BY <1>1 DEF SocialInit, SocialTypeOK, LocalRow
<1> QED BY <1>2 DEF SocialInit, SocialInv, StatesInv, CallbackTrue, IdleCallback

\* A step of one callback keeps the invariant when it keeps the types and the states that
\* were consumed, makes its new row true, and takes no link away from the others.
LEMMA OneCallback ==
    ASSUME SocialInv, NEW c \in Callback, NEW x \in CallbackJob,
           callback' = [callback EXCEPT ![c] = x],
           provider' = provider, secondFactor' = secondFactor, unlinked' = unlinked,
           loginState' \in [LoginState -> {"unborn", "live", "used", "expired"}],
           local' \in [LocalUser -> LocalRow],
           fed' \in [Upstream -> LocalUser \cup {Nothing}],
           consumed' \subseteq LoginState, StatesInv',
           lateFor' \in [Callback -> SUBSET LoginState],
           \A d \in Callback : d # c => lateFor'[d] = lateFor[d],
           \A u \in Upstream : fed[u] # Nothing => fed'[u] = fed[u],
           CallbackTrue(c)'
    PROVE  SocialInv'
<1>1. /\ callback \in [Callback -> CallbackJob]
      /\ \A d \in Callback : d # c => callback'[d] = callback[d]
  BY DEF SocialInv, SocialTypeOK
<1>2. SocialTypeOK'
  BY <1>1 DEF SocialInv, SocialTypeOK
<1>3. ASSUME NEW d \in Callback, d # c PROVE CallbackTrue(d)'
  BY <1>1, <1>3, SocialAssumption DEF SocialInv, CallbackTrue
<1> QED BY <1>2, <1>3 DEF SocialInv

\* A callback that ends without a code, or goes on, with nothing else changed.
LEMMA CallbackMoves ==
    ASSUME SocialInv, NEW c \in Callback, NEW x \in CallbackJob,
           callback' = [callback EXCEPT ![c] = x],
           UNCHANGED <<provider, loginState, local, fed, secondFactor, socialGhosts>>,
           CallbackTrue(c)'
    PROVE  SocialInv'
<1>1. StatesInv'
  BY DEF SocialInv, StatesInv, socialGhosts
<1> QED BY <1>1, OneCallback DEF SocialInv, SocialTypeOK, socialGhosts

\* The callback finds its state, and later consumes it.
LEMMA StateStep ==
    ASSUME SocialInv, NEW c \in Callback, FindState(c) \/ ConsumeState(c)
    PROVE  SocialInv'
<1>1. SocialTypeOK /\ lateFor \in [Callback -> SUBSET LoginState]
      /\ callback \in [Callback -> CallbackJob] /\ callback[c] \in CallbackJob
      /\ consumed \subseteq LoginState
      /\ loginState \in [LoginState -> {"unborn", "live", "used", "expired"}]
  BY DEF SocialInv, SocialTypeOK
<1>2. CASE FindState(c)
  <2>1. PICK s \in LoginState :
           callback' = [callback EXCEPT ![c] =
             [IdleCallback EXCEPT !.state = s, !.linkByEmail = provider.linkByEmail,
                !.autoCreate = provider.autoCreate,
                !.at = IF provider.enabled /\ StateFound(s) THEN "consume" ELSE "done",
                !.answer = IF provider.enabled /\ StateFound(s) THEN "none" ELSE "error"]]
    BY <1>2 DEF FindState
  <2>2. PICK a \in {"consume", "done"}, o \in {"none", "error"} :
           /\ a = IF provider.enabled /\ StateFound(s) THEN "consume" ELSE "done"
           /\ o = IF provider.enabled /\ StateFound(s) THEN "none" ELSE "error"
    OBVIOUS
  <2>3. PICK x : x = [IdleCallback EXCEPT !.state = s, !.linkByEmail = provider.linkByEmail,
                         !.autoCreate = provider.autoCreate, !.at = a, !.answer = o]
    OBVIOUS
  <2>4. provider.linkByEmail \in BOOLEAN /\ provider.autoCreate \in BOOLEAN
    BY <1>1 DEF SocialTypeOK
  <2>5. /\ x \in CallbackJob /\ x.state = s /\ x.at = a /\ x.answer = o /\ x.subject = Nothing
        /\ callback' = [callback EXCEPT ![c] = x] /\ callback'[c] = x
    BY <1>1, <2>1, <2>2, <2>3, <2>4 DEF IdleCallback, CallbackJob
  <2>6. /\ lateFor' = [lateFor EXCEPT ![c] = consumed]
        /\ UNCHANGED <<provider, loginState, local, fed, secondFactor, consumed, unlinked>>
    BY <1>2 DEF FindState
  <2>7. lateFor' \in [Callback -> SUBSET LoginState] /\ lateFor'[c] = consumed
        /\ \A d \in Callback : d # c => lateFor'[d] = lateFor[d]
    BY <1>1, <2>6
  <2>8. a = "consume" => s \notin consumed /\ o = "none"
    BY <2>2 DEF StateFound, SocialInv, StatesInv
  <2>9. CallbackTrue(c)'
    BY <2>2, <2>5, <2>7, <2>8 DEF CallbackTrue
  <2>10. StatesInv'
    BY <2>6 DEF SocialInv, StatesInv
  <2> QED BY <1>1, <2>5, <2>6, <2>7, <2>9, <2>10, OneCallback DEF SocialTypeOK
<1>3. CASE ConsumeState(c)
  <2>1. PICK s \in LoginState : s = callback[c].state
    BY <1>3 DEF ConsumeState, SocialInv, CallbackTrue
  <2>2. PICK x : x = [callback[c] EXCEPT !.at = "exchange"]
    OBVIOUS
  <2>3. /\ x \in CallbackJob /\ x.at = "exchange" /\ x.state = callback[c].state
        /\ x.subject = callback[c].subject /\ x.answer = callback[c].answer
        /\ callback' = [callback EXCEPT ![c] = x] /\ callback'[c] = x
    BY <1>1, <1>3, <2>2 DEF ConsumeState, Advances, CallbackJob
  <2>4. /\ loginState' = [loginState EXCEPT ![s] = "used"] /\ consumed' = consumed \cup {s}
        /\ UNCHANGED <<provider, local, fed, secondFactor, lateFor, unlinked>>
        /\ callback[c].at = "consume"
    BY <1>3, <2>1 DEF ConsumeState
  <2>5. StatesInv' /\ consumed' \subseteq LoginState
        /\ loginState' \in [LoginState -> {"unborn", "live", "used", "expired"}]
    BY <1>1, <2>4 DEF SocialInv, StatesInv
  <2>6. CallbackTrue(c)'
    BY <2>3, <2>4 DEF SocialInv, CallbackTrue
  <2> QED BY <1>1, <2>3, <2>4, <2>5, <2>6, OneCallback DEF SocialTypeOK
<1> QED BY <1>2, <1>3

\* The upstream answers, and the account is looked for.
LEMMA LookupStep ==
    ASSUME SocialInv, NEW c \in Callback, ExchangeCode(c) \/ FindLink(c) \/ FindByEmail(c)
    PROVE  SocialInv'
<1>1. /\ callback \in [Callback -> CallbackJob] /\ callback[c] \in CallbackJob
      /\ fed \in [Upstream -> LocalUser \cup {Nothing}]
      /\ CallbackTrue(c) /\ Nothing \notin Upstream /\ Nothing \notin LocalUser
  BY SocialAssumption DEF SocialInv, SocialTypeOK
<1>2. UNCHANGED <<provider, loginState, local, fed, secondFactor, socialGhosts>>
  BY DEF ExchangeCode, FindLink, FindByEmail
<1>3. UNCHANGED <<lateFor, unlinked>>
  BY <1>2 DEF socialGhosts
<1>4. CASE ExchangeCode(c)
  <2>1. PICK u \in Upstream, e \in Mail \cup {Nothing} :
           callback' = [callback EXCEPT ![c].at = "link", ![c].subject = u, ![c].email = e]
    BY <1>4 DEF ExchangeCode
  <2>2. PICK x : x = [callback[c] EXCEPT !.at = "link", !.subject = u, !.email = e]
    OBVIOUS
  <2>3. /\ x \in CallbackJob /\ x.at = "link" /\ x.subject = u /\ x.state = callback[c].state
        /\ x.answer = callback[c].answer
        /\ callback' = [callback EXCEPT ![c] = x] /\ callback'[c] = x
    BY <1>1, <2>1, <2>2 DEF CallbackJob
  <2>4. CallbackTrue(c)'
    BY <1>1, <1>3, <1>4, <2>3 DEF CallbackTrue, ExchangeCode
  <2> QED BY <1>2, <2>3, <2>4, CallbackMoves
<1>5. CASE FindLink(c)
  <2>1. PICK u : u = fed[callback[c].subject]
    OBVIOUS
  <2>2. u \in LocalUser \cup {Nothing} /\ callback[c].subject \in Upstream
        /\ callback[c].state \in LoginState /\ callback[c].state \notin lateFor[c]
        /\ callback[c].answer = "none"
    BY <1>1, <1>5, <2>1 DEF FindLink, CallbackTrue
  <2>3. CASE u = Nothing
    <3>1. PICK x : x = [callback[c] EXCEPT !.at = "email"]
      OBVIOUS
    <3>2. /\ x \in CallbackJob /\ x.at = "email" /\ x.state = callback[c].state
          /\ x.subject = callback[c].subject /\ x.answer = callback[c].answer
          /\ callback' = [callback EXCEPT ![c] = x] /\ callback'[c] = x
      BY <1>1, <1>5, <2>1, <2>3, <3>1 DEF FindLink, CallbackJob
    <3>3. CallbackTrue(c)'
      BY <1>3, <2>2, <3>2 DEF CallbackTrue
    <3> QED BY <1>2, <3>2, <3>3, CallbackMoves
  <2>4. CASE u # Nothing /\ local[u].status = "live"
    <3>1. PICK x : x = [callback[c] EXCEPT !.at = "enrol", !.user = u]
      OBVIOUS
    <3>2. /\ x \in CallbackJob /\ x.at = "enrol" /\ x.state = callback[c].state /\ x.user = u
          /\ x.subject = callback[c].subject /\ x.answer = callback[c].answer
          /\ callback' = [callback EXCEPT ![c] = x] /\ callback'[c] = x
      BY <1>1, <1>5, <2>1, <2>2, <2>4, <3>1 DEF FindLink, CallbackJob
    <3>3. CallbackTrue(c)'
      BY <1>2, <1>3, <2>1, <2>2, <2>4, <3>2 DEF CallbackTrue
    <3> QED BY <1>2, <3>2, <3>3, CallbackMoves
  <2>5. CASE u # Nothing /\ local[u].status # "live"
    <3>1. PICK x : x = [callback[c] EXCEPT !.at = "done", !.answer = "error"]
      OBVIOUS
    <3>2. /\ x \in CallbackJob /\ x.at = "done" /\ x.state = callback[c].state
          /\ x.subject = callback[c].subject /\ x.answer = "error"
          /\ callback' = [callback EXCEPT ![c] = x] /\ callback'[c] = x
      BY <1>1, <1>5, <2>1, <2>5, <3>1 DEF FindLink, CallbackJob
    <3>3. CallbackTrue(c)'
      BY <1>3, <2>2, <3>2 DEF CallbackTrue
    <3> QED BY <1>2, <3>2, <3>3, CallbackMoves
  <2> QED BY <2>3, <2>4, <2>5
<1>6. CASE FindByEmail(c)
  <2>1. /\ callback[c].at = "email" /\ callback[c].subject \in Upstream
        /\ callback[c].state \in LoginState /\ callback[c].state \notin lateFor[c]
        /\ callback[c].answer = "none"
    BY <1>1, <1>6 DEF FindByEmail, CallbackTrue
  <2>2. PICK x : /\ x \in CallbackJob /\ callback' = [callback EXCEPT ![c] = x]
                 /\ x.state = callback[c].state /\ x.subject = callback[c].subject
                 /\ \/ x.at = "insert" /\ x.user \in LocalUser /\ x.answer = "none"
                    \/ x.at = "create" /\ x.answer = "none"
                    \/ x.at = "done" /\ x.answer = "error"
    <3>1. CASE \E u \in LocalUser :
                  callback' = [callback EXCEPT ![c].at = "insert", ![c].user = u]
      <4>1. PICK u \in LocalUser :
               callback' = [callback EXCEPT ![c].at = "insert", ![c].user = u]
        BY <3>1
      <4>2. PICK y : y = [callback[c] EXCEPT !.at = "insert", !.user = u]
        OBVIOUS
      <4>3. y \in CallbackJob /\ callback' = [callback EXCEPT ![c] = y] /\ y.at = "insert"
            /\ y.user = u /\ y.state = callback[c].state /\ y.subject = callback[c].subject
            /\ y.answer = callback[c].answer
        BY <1>1, <4>1, <4>2 DEF CallbackJob
      <4> QED BY <2>1, <4>3
    <3>2. CASE Advances(c, "create")
      <4>1. PICK y : y = [callback[c] EXCEPT !.at = "create"]
        OBVIOUS
      <4>2. y \in CallbackJob /\ callback' = [callback EXCEPT ![c] = y] /\ y.at = "create"
            /\ y.state = callback[c].state /\ y.subject = callback[c].subject
            /\ y.answer = callback[c].answer
        BY <1>1, <3>2, <4>1 DEF CallbackJob, Advances
      <4> QED BY <2>1, <4>2
    <3>3. CASE CallbackEnds(c, "error")
      <4>1. PICK y : y = [callback[c] EXCEPT !.at = "done", !.answer = "error"]
        OBVIOUS
      <4>2. y \in CallbackJob /\ callback' = [callback EXCEPT ![c] = y] /\ y.at = "done"
            /\ y.state = callback[c].state /\ y.subject = callback[c].subject
            /\ y.answer = "error"
        BY <1>1, <3>3, <4>1 DEF CallbackJob, CallbackEnds
      <4> QED BY <4>2
    <3> QED BY <1>6, <3>1, <3>2, <3>3 DEF FindByEmail
  <2>3. callback'[c] = x
    BY <1>1, <2>2
  <2>4. CallbackTrue(c)'
    BY <1>3, <2>1, <2>2, <2>3 DEF CallbackTrue
  <2> QED BY <1>2, <2>2, <2>4, CallbackMoves
<1> QED BY <1>4, <1>5, <1>6

\* The account and its link are made.
LEMMA MakeStep ==
    ASSUME SocialInv, NEW c \in Callback, CreateLocalUser(c) \/ InsertLink(c)
    PROVE  SocialInv'
<1>1. /\ callback \in [Callback -> CallbackJob] /\ callback[c] \in CallbackJob
      /\ fed \in [Upstream -> LocalUser \cup {Nothing}] /\ local \in [LocalUser -> LocalRow]
      /\ CallbackTrue(c) /\ Nothing \notin Upstream /\ Nothing \notin LocalUser
      /\ callback[c].email \in Mail \cup {Nothing}
  BY SocialAssumption, CallbackTypes DEF SocialInv, SocialTypeOK
<1>2. /\ callback[c].subject \in Upstream /\ callback[c].state \in LoginState
      /\ callback[c].state \notin lateFor[c] /\ callback[c].answer = "none"
      /\ callback[c].at = "insert" => callback[c].user \in LocalUser
  BY <1>1 DEF CreateLocalUser, InsertLink, CallbackTrue
<1>3. /\ UNCHANGED <<provider, loginState, secondFactor, socialGhosts>>
      /\ UNCHANGED <<consumed, lateFor, unlinked>>
  BY DEF CreateLocalUser, InsertLink, socialGhosts
<1>4. StatesInv'
  BY <1>3 DEF SocialInv, StatesInv
<1>5. CASE CreateLocalUser(c)
  <2>1. PICK u \in LocalUser :
           /\ local' = [local EXCEPT ![u] = [status |-> "live", email |-> callback[c].email]]
           /\ callback' = [callback EXCEPT ![c].at = "insert", ![c].user = u]
    BY <1>5 DEF CreateLocalUser
  <2>2. PICK x : x = [callback[c] EXCEPT !.at = "insert", !.user = u]
    OBVIOUS
  <2>3. /\ x \in CallbackJob /\ x.at = "insert" /\ x.user = u /\ x.state = callback[c].state
        /\ x.subject = callback[c].subject /\ x.answer = "none"
        /\ callback' = [callback EXCEPT ![c] = x] /\ callback'[c] = x
    BY <1>1, <1>2, <2>1, <2>2 DEF CallbackJob
  <2>4. local' \in [LocalUser -> LocalRow] /\ fed' = fed
    BY <1>1, <1>5, <2>1 DEF LocalRow, CreateLocalUser
  <2>5. CallbackTrue(c)'
    BY <1>2, <1>3, <2>3 DEF CallbackTrue
  <2> QED BY <1>1, <1>3, <1>4, <2>3, <2>4, <2>5, OneCallback DEF SocialInv, SocialTypeOK
<1>6. CASE InsertLink(c)
  <2>1. PICK v \in Upstream, u \in LocalUser : v = callback[c].subject /\ u = callback[c].user
    BY <1>2, <1>6 DEF InsertLink
  <2>2. /\ fed[v] = Nothing /\ fed' = [fed EXCEPT ![v] = u] /\ local' = local
        /\ callback' = [callback EXCEPT ![c].at = "enrol"]
    BY <1>6, <2>1 DEF InsertLink, FreeSubject, Advances
  <2>3. PICK x : x = [callback[c] EXCEPT !.at = "enrol"]
    OBVIOUS
  <2>4. /\ x \in CallbackJob /\ x.at = "enrol" /\ x.user = u /\ x.state = callback[c].state
        /\ x.subject = v /\ x.answer = "none"
        /\ callback' = [callback EXCEPT ![c] = x] /\ callback'[c] = x
    BY <1>1, <1>2, <2>1, <2>2, <2>3 DEF CallbackJob
  <2>5. /\ fed' \in [Upstream -> LocalUser \cup {Nothing}] /\ fed'[v] = u
        /\ \A w \in Upstream : fed[w] # Nothing => fed'[w] = fed[w]
    BY <1>1, <2>2
  <2>6. CallbackTrue(c)'
    BY <1>2, <1>3, <2>1, <2>4, <2>5 DEF CallbackTrue
  <2> QED BY <1>1, <1>3, <1>4, <2>2, <2>4, <2>5, <2>6, OneCallback DEF SocialInv, SocialTypeOK
<1> QED BY <1>5, <1>6

\* The callback is answered, or goes on to its session.
LEMMA AnswerStep ==
    ASSUME SocialInv, NEW c \in Callback, CheckSecondFactor(c) \/ IssueCode(c) \/ CallbackFails(c)
    PROVE  SocialInv'
<1>1. /\ callback \in [Callback -> CallbackJob] /\ callback[c] \in CallbackJob /\ CallbackTrue(c)
  BY DEF SocialInv, SocialTypeOK
<1>2. UNCHANGED <<provider, loginState, local, fed, secondFactor, socialGhosts>>
  BY DEF CheckSecondFactor, IssueCode, CallbackFails
<1>3. UNCHANGED <<lateFor, unlinked>>
  BY <1>2 DEF socialGhosts
<1>4. \/ Advances(c, "session") /\ callback[c].at = "enrol"
      \/ CallbackEnds(c, "code") /\ callback[c].at = "session"
      \/ CallbackEnds(c, "error") /\ callback[c].at \notin {"new", "done"}
  BY DEF CheckSecondFactor, IssueCode, CallbackFails
<1>5. CASE Advances(c, "session") /\ callback[c].at = "enrol"
  <2>1. PICK x : x = [callback[c] EXCEPT !.at = "session"]
    OBVIOUS
  <2>2. /\ x \in CallbackJob /\ x.at = "session" /\ x.user = callback[c].user
        /\ x.state = callback[c].state /\ x.subject = callback[c].subject
        /\ x.answer = callback[c].answer
        /\ callback' = [callback EXCEPT ![c] = x] /\ callback'[c] = x
    BY <1>1, <1>5, <2>1 DEF CallbackJob, Advances
  <2>3. CallbackTrue(c)'
    BY <1>1, <1>2, <1>3, <1>5, <2>2 DEF CallbackTrue
  <2> QED BY <1>2, <2>2, <2>3, CallbackMoves
<1>6. ASSUME NEW a \in {"code", "error"}, CallbackEnds(c, a), callback[c].at \notin {"new", "done"},
             a = "code" => callback[c].at = "session"
      PROVE  SocialInv'
  <2>1. PICK x : x = [callback[c] EXCEPT !.at = "done", !.answer = a]
    OBVIOUS
  <2>2. /\ x \in CallbackJob /\ x.at = "done" /\ x.user = callback[c].user
        /\ x.state = callback[c].state /\ x.subject = callback[c].subject
        /\ x.answer = a
        /\ callback' = [callback EXCEPT ![c] = x] /\ callback'[c] = x
    BY <1>1, <1>6, <2>1 DEF CallbackJob, CallbackEnds
  <2>3. CallbackTrue(c)'
    BY <1>1, <1>2, <1>3, <1>6, <2>2 DEF CallbackTrue
  <2> QED BY <1>2, <2>2, <2>3, CallbackMoves
<1> QED BY <1>4, <1>5, <1>6

\* What happens beside the callbacks: links go only with a note, and no state that was
\* consumed comes back.
LEMMA BesideStep ==
    ASSUME SocialInv,
           \/ UpdateProvider
           \/ \E s \in LoginState : Initiate(s) \/ ExpireState(s)
           \/ \E u \in Upstream : RemoveLink(u)
           \/ \E u \in LocalUser : DeleteLocalUser(u) \/ \E k \in Factor : EnrolFactor(u, k)
           \/ UNCHANGED socialVars
    PROVE  SocialInv'
<1>1. UNCHANGED <<callback, consumed, lateFor>>
  BY DEF UpdateProvider, Initiate, ExpireState, RemoveLink, DeleteLocalUser, EnrolFactor,
         socialVars, socialGhosts
<1>2. SocialTypeOK'
  <2> USE DEF socialGhosts, SocialInv, SocialTypeOK
  <2>1. CASE UpdateProvider
    BY <2>1 DEF UpdateProvider
  <2>2. ASSUME NEW s \in LoginState, Initiate(s) \/ ExpireState(s) PROVE SocialTypeOK'
    BY <2>2 DEF Initiate, ExpireState
  <2>3. ASSUME NEW u \in Upstream, RemoveLink(u) PROVE SocialTypeOK'
    BY <2>3 DEF RemoveLink
  <2>4. ASSUME NEW u \in LocalUser, DeleteLocalUser(u) PROVE SocialTypeOK'
    BY <2>4 DEF DeleteLocalUser, LocalRow
  <2>5. ASSUME NEW u \in LocalUser, NEW k \in Factor, EnrolFactor(u, k) PROVE SocialTypeOK'
    <3>1. <<u, k>> \in LocalUser \X Factor
      BY <2>5
    <3>2. secondFactor' \subseteq LocalUser \X Factor
      BY <2>5, <3>1 DEF EnrolFactor
    <3> QED BY <2>5, <3>2 DEF EnrolFactor
  <2>6. CASE UNCHANGED socialVars
    BY <2>6 DEF socialVars
  <2> QED BY <2>1, <2>2, <2>3, <2>4, <2>5, <2>6
<1>3. StatesInv'
  BY <1>1 DEF UpdateProvider, Initiate, ExpireState, RemoveLink, DeleteLocalUser, EnrolFactor,
              socialVars, socialGhosts, SocialInv, SocialTypeOK, StatesInv
<1>4. /\ unlinked \subseteq unlinked'
      /\ \A u \in Upstream : u \notin unlinked' => fed'[u] = fed[u]
  BY DEF UpdateProvider, Initiate, ExpireState, RemoveLink, DeleteLocalUser, EnrolFactor,
         socialVars, socialGhosts, SocialInv, SocialTypeOK
<1>5. ASSUME NEW c \in Callback PROVE CallbackTrue(c)'
  BY <1>1, <1>4 DEF SocialInv, CallbackTrue
<1> QED BY <1>2, <1>3, <1>5 DEF SocialInv

\* What a callback holds is true of the rows in every reachable state.
THEOREM SocialInvariance == SocialSpec => []SocialInv
<1>1. SocialInv /\ [SocialNext]_socialVars => SocialInv'
  BY StateStep, LookupStep, MakeStep, AnswerStep, BesideStep DEF SocialNext
<1> QED BY <1>1, SocialInvInit, PTL DEF SocialSpec

\* A state that was consumed lets in no callback that comes later, for any number of
\* callbacks.
THEOREM SpentStates == SocialSpec => []ConsumedStateRefused
<1>1. SocialInv => ConsumedStateRefused
  BY DEF SocialInv, CallbackTrue, ConsumedStateRefused
<1> QED BY <1>1, SocialInvariance, PTL

\* Every code is for the account that its subject is linked to, for any number of subjects,
\* accounts and overlapping callbacks.
THEOREM OneAccount == SocialSpec => []SubjectHasOneAccount
<1>1. SocialInv => SubjectHasOneAccount
  BY DEF SocialInv, CallbackTrue, SubjectHasOneAccount
<1> QED BY <1>1, SocialInvariance, PTL
-----------------------------------------------------------------------------
(* UserAccount.                                                            *)

\* The copy of the row that a request will write says "verified" of an address that was
\* proved, or that the request itself proves or vouches for.
CopyTrue(r) ==
    job[r].at \in {"write", "settle"} /\ job[r].copy.verified =>
       \/ job[r].copy.email \in proved
       \/ job[r].at = "write" /\ job[r].kind = "admin"
       \/ job[r].at = "settle" /\ job[r].kind = "verify" /\ job[r].copy.email = sentTo[job[r].link]

\* A request uses a link that was sent and that nobody used before it came, unless that
\* use was not marked.
LinkTrue(r) ==
    /\ job[r].link # NoLink => link[job[r].link] # "unborn"
    /\ job[r].at = "settle" => job[r].link \in ResetLink \cup VerifyLink
    /\ job[r].at = "settle" /\ job[r].kind = "verify" => job[r].link \in VerifyLink
    /\ job[r].at = "mark" \/ (job[r].at = "write" /\ job[r].kind = "recover")
          => job[r].link \in RecoveryLink
    /\ job[r].link \in late[r] => job[r].link \in unmarked

SpentTrue == \A l \in spent : link[l] = "used" \/ l \in unmarked

\* A request that is about to unlink an identity leaves a password or another identity.
UnlinkTrue(r) ==
    rivals \/ reverted \/
       /\ job[r].at \in {"check", "unlink"} => job[r].kind = "unlink"
       /\ job[r].at \in {"check", "unlink"} /\ job[r].copy.password # NoPassword
             => row.password # NoPassword
       /\ job[r].at = "unlink"
             => row.password # NoPassword \/ \A i \in Identity : linked \ {i} # {}

OneUnlinks ==
    rivals \/ \A q, r \in AccountRequest :
       /\ job[q].kind = "unlink" /\ job[q].at # "done"
       /\ job[r].kind = "unlink" /\ job[r].at # "done"
       => q = r

AccountInv ==
    /\ AccountTypeOK
    /\ VerifiedAddressWasProved /\ \A r \in AccountRequest : CopyTrue(r)
    /\ SpentLinkRefused /\ SpentTrue /\ \A r \in AccountRequest : LinkTrue(r)
    /\ MethodLeft /\ OneUnlinks /\ \A r \in AccountRequest : UnlinkTrue(r)

\* The types of a request's row.
LEMMA JobTypes ==
    ASSUME AccountTypeOK, NEW r \in AccountRequest
    PROVE  /\ job[r] \in Job /\ job[r].copy \in UserRow /\ job[r].kind \in JobKinds
           /\ job[r].link \in Link \cup {NoLink} /\ job[r].todo \in SUBSET RequiredAction
           /\ job[r].at \in JobPlaces
BY DEF AccountTypeOK, Job

\* The copy that a request without one has is a row.
LEMMA NoCopyType == AccountTypeOK => NoCopy \in UserRow
<1> SUFFICES ASSUME AccountTypeOK PROVE NoCopy \in UserRow
  OBVIOUS
<1>1. row.email \in Email
  BY DEF AccountTypeOK, UserRow
<1> QED BY <1>1 DEF NoCopy, UserRow

\* What Move does to a request.
LEMMA Moved ==
    ASSUME AccountTypeOK, NEW r \in AccountRequest, NEW place \in JobPlaces, Move(r, place)
    PROVE  \E x \in Job : /\ job' = [job EXCEPT ![r] = x]
                          /\ x.at = place /\ x.kind = job[r].kind /\ x.link = job[r].link
                          /\ place # "done" => x.copy = job[r].copy
<1>1. PICK w : w = IF place = "done" THEN NoCopy ELSE job[r].copy
  OBVIOUS
<1>2. PICK x : x = [job[r] EXCEPT !.at = place, !.copy = w]
  OBVIOUS
<1>3. w \in UserRow /\ job[r] \in Job
  BY <1>1, JobTypes, NoCopyType
<1>4. /\ x \in Job /\ x.at = place /\ x.kind = job[r].kind /\ x.link = job[r].link /\ x.copy = w
  BY <1>2, <1>3 DEF Job
<1>5. job' = [job EXCEPT ![r] = x]
  BY <1>1, <1>2, <1>3 DEF Move, Job, AccountTypeOK
<1> QED BY <1>1, <1>4, <1>5

\* What a step leaves of the rows that requests rely on.
RowsGoOn ==
    /\ proved \subseteq proved' /\ unmarked \subseteq unmarked'
    /\ \A l \in Link : link[l] # "unborn" => link'[l] # "unborn"
    /\ \A l \in VerifyLink : link[l] # "unborn" => sentTo'[l] = sentTo[l]
    /\ (rivals => rivals') /\ (reverted => reverted')
    /\ row.password # NoPassword => row'.password # NoPassword \/ reverted'

\* A request that a step leaves alone keeps what is true of it.
LEMMA JobKept ==
    ASSUME AccountInv, RowsGoOn, NEW q \in AccountRequest, job'[q] = job[q], late'[q] = late[q]
    PROVE  /\ CopyTrue(q)' /\ LinkTrue(q)'
           /\ linked' = linked => UnlinkTrue(q)'
<1>1. CopyTrue(q) /\ LinkTrue(q) /\ UnlinkTrue(q)
  BY DEF AccountInv
<1>2. job[q].link \in Link \cup {NoLink} /\ VerifyLink \subseteq Link
  BY JobTypes DEF AccountInv, Link
<1>3. job[q].at = "settle" /\ job[q].kind = "verify"
         => /\ job[q].link \in VerifyLink /\ link[job[q].link] # "unborn"
            /\ sentTo'[job[q].link] = sentTo[job[q].link]
  BY <1>1, <1>2, AccountAssumption DEF LinkTrue, RowsGoOn, Link
<1>4. CopyTrue(q)'
  BY <1>1, <1>3 DEF CopyTrue, RowsGoOn
<1>5. LinkTrue(q)'
  BY <1>1, <1>2 DEF LinkTrue, RowsGoOn
<1>6. linked' = linked => UnlinkTrue(q)'
  BY <1>1 DEF UnlinkTrue, RowsGoOn
<1> QED BY <1>4, <1>5, <1>6

\* A request that has arrived moves on: it brings nothing new, and what it writes keeps the
\* invariants of the rows.
LEMMA RequestMoves ==
    ASSUME AccountInv, AccountTypeOK', RowsGoOn, NEW r \in AccountRequest, NEW x \in Job,
           job' = [job EXCEPT ![r] = x], late' = late,
           x.kind = job[r].kind, x.link = job[r].link, job[r].at # "done",
           x.at \notin {"new", "write", "settle", "check"},
           x.at = "mark" => job[r].at = "write" /\ job[r].kind = "recover",
           \A q \in AccountRequest : UnlinkTrue(q)',
           VerifiedAddressWasProved', SpentLinkRefused', SpentTrue', MethodLeft'
    PROVE  AccountInv'
<1>1. /\ job \in [AccountRequest -> Job] /\ job'[r] = x
      /\ \A q \in AccountRequest : q # r => job'[q] = job[q]
  BY DEF AccountInv, AccountTypeOK
<1>2. ASSUME NEW q \in AccountRequest PROVE CopyTrue(q)' /\ LinkTrue(q)'
  <2>1. CASE q # r
    BY <1>1, <2>1, JobKept
  <2>2. CASE q = r
    <3>1. LinkTrue(r) /\ job[r].link \in Link \cup {NoLink}
      BY JobTypes DEF AccountInv
    <3> QED BY <1>1, <2>2, <3>1 DEF CopyTrue, LinkTrue, RowsGoOn
  <2> QED BY <2>1, <2>2
<1>3. OneUnlinks'
  BY <1>1 DEF AccountInv, OneUnlinks, RowsGoOn
<1> QED BY <1>2, <1>3 DEF AccountInv

\* A request that changes neither the row, nor a link, nor an identity, and does not go on
\* to unlink one.
LEMMA QuietMove ==
    ASSUME AccountInv, NEW r \in AccountRequest, NEW x \in Job, job' = [job EXCEPT ![r] = x],
           x.kind = job[r].kind, x.link = job[r].link, job[r].at # "done",
           x.at \notin {"new", "write", "settle", "check", "mark", "unlink"},
           UNCHANGED <<row, linked, link, sentTo, scene, proved, spent, late, twice, rivals, reverted>>,
           required' \subseteq RequiredAction, factor' \in BOOLEAN, signedIn' \in BOOLEAN,
           unmarked' \subseteq RecoveryLink, unmarked \subseteq unmarked'
    PROVE  AccountInv'
<1>1. /\ job \in [AccountRequest -> Job] /\ job'[r] = x
      /\ \A q \in AccountRequest : q # r => job'[q] = job[q]
  BY DEF AccountInv, AccountTypeOK
<1>2. AccountTypeOK'
  BY <1>1 DEF AccountInv, AccountTypeOK
<1>3. RowsGoOn
  BY DEF RowsGoOn
<1>4. ASSUME NEW q \in AccountRequest PROVE UnlinkTrue(q)'
  <2>1. CASE q # r
    BY <1>1, <1>3, <2>1, JobKept
  <2>2. CASE q = r
    BY <1>1, <2>2 DEF UnlinkTrue
  <2> QED BY <2>1, <2>2
<1>5. VerifiedAddressWasProved' /\ SpentLinkRefused' /\ SpentTrue' /\ MethodLeft'
  BY DEF AccountInv, VerifiedAddressWasProved, SpentLinkRefused, SpentTrue, MethodLeft
<1> QED BY <1>2, <1>3, <1>4, <1>5, RequestMoves

\* The statements that touch only required actions, sessions and the request itself.
LEMMA QuietStep ==
    ASSUME AccountInv, NEW r \in AccountRequest,
           AbandonLink(r) \/ Complete(r) \/ ClearRequired(r) \/ InsertRequired(r)
             \/ SweepSessions(r) \/ LoseRequest(r)
    PROVE  AccountInv'
<1>1. AccountTypeOK /\ job \in [AccountRequest -> Job] /\ job[r] \in Job /\ unmarked \subseteq RecoveryLink
      /\ required \subseteq RequiredAction /\ factor \in BOOLEAN /\ signedIn \in BOOLEAN
      /\ LinkTrue(r)
  BY DEF AccountInv, AccountTypeOK
<1> USE DEF accountData, accountGhosts
<1>2. CASE AbandonLink(r)
  <2>1. /\ Move(r, "done") /\ job[r].at = "settle" /\ UNCHANGED <<scene, accountData, accountGhosts>>
    BY <1>2 DEF AbandonLink, At
  <2>2. PICK x \in Job : /\ job' = [job EXCEPT ![r] = x]
                         /\ x.at = "done" /\ x.kind = job[r].kind /\ x.link = job[r].link
    BY <1>1, <2>1, Moved DEF JobPlaces
  <2> QED BY <1>1, <2>1, <2>2, QuietMove
<1>3. CASE Complete(r)
  <2>1. /\ Move(r, "done") /\ job[r].at = "complete" /\ required' \subseteq required
        /\ UNCHANGED <<scene, row, linked, factor, signedIn, link, sentTo, accountGhosts>>
    BY <1>3 DEF Complete, At
  <2>2. PICK x \in Job : /\ job' = [job EXCEPT ![r] = x]
                         /\ x.at = "done" /\ x.kind = job[r].kind /\ x.link = job[r].link
    BY <1>1, <2>1, Moved DEF JobPlaces
  <2> QED BY <1>1, <2>1, <2>2, QuietMove
<1>4. CASE ClearRequired(r)
  <2>1. PICK place \in {"done", "insert"} : Move(r, place)
    BY <1>4 DEF ClearRequired
  <2>2. /\ job[r].at = "clear" /\ required' = {}
        /\ UNCHANGED <<scene, row, linked, factor, signedIn, link, sentTo, accountGhosts>>
    BY <1>4 DEF ClearRequired, At
  <2>3. PICK x \in Job : /\ job' = [job EXCEPT ![r] = x]
                         /\ x.at = place /\ x.kind = job[r].kind /\ x.link = job[r].link
    BY <1>1, <2>1, Moved DEF JobPlaces
  <2> QED BY <1>1, <2>2, <2>3, QuietMove
<1>5. CASE InsertRequired(r)
  <2>1. PICK a \in job[r].todo :
          /\ required' = required \cup {a}
          /\ job' = [job EXCEPT ![r].todo = @ \ {a},
                                ![r].at = IF job[r].todo = {a} THEN "done" ELSE "insert"]
    BY <1>5 DEF InsertRequired
  <2>2. PICK place \in {"done", "insert"} : place = IF job[r].todo = {a} THEN "done" ELSE "insert"
    OBVIOUS
  <2>3. PICK x : x = [job[r] EXCEPT !.todo = job[r].todo \ {a}, !.at = place]
    OBVIOUS
  <2>4. job[r].todo \subseteq RequiredAction
    BY <1>1, JobTypes
  <2>5. /\ x \in Job /\ job' = [job EXCEPT ![r] = x]
        /\ x.at = place /\ x.kind = job[r].kind /\ x.link = job[r].link
    <3>1. job[r].todo \ {a} \in SUBSET RequiredAction
      BY <2>4
    <3>2. x \in Job /\ x.at = place /\ x.kind = job[r].kind /\ x.link = job[r].link
      BY <1>1, <2>3, <3>1 DEF Job, JobPlaces
    <3>3. job' = [job EXCEPT ![r] = x]
      <4>1. job' = [job EXCEPT ![r].todo = @ \ {a}, ![r].at = place]
        BY <2>1, <2>2
      <4>2. job' = [job EXCEPT ![r] = [job[r] EXCEPT !.todo = job[r].todo \ {a}, !.at = place]]
        BY <1>1, <4>1 DEF Job
      <4> QED BY <2>3, <4>2
    <3> QED BY <3>2, <3>3
  <2>6. /\ job[r].at = "insert"
        /\ UNCHANGED <<scene, row, linked, factor, signedIn, link, sentTo, accountGhosts>>
    BY <1>5 DEF InsertRequired, At
  <2>7. required' \subseteq RequiredAction
    BY <1>1, <2>1, <2>4 DEF AccountInv, AccountTypeOK
  <2>8. /\ UNCHANGED <<row, linked, link, sentTo, scene, proved, spent, late, twice, rivals, reverted>>
        /\ factor' \in BOOLEAN /\ signedIn' \in BOOLEAN
        /\ unmarked' \subseteq RecoveryLink /\ unmarked \subseteq unmarked'
    BY <1>1, <2>6 DEF AccountInv, AccountTypeOK, accountGhosts
  <2> QED BY <1>1, <2>2, <2>5, <2>6, <2>7, <2>8, QuietMove
<1>6. CASE SweepSessions(r)
  <2>1. PICK place \in {"done", "complete"} : Move(r, place)
    BY <1>6 DEF SweepSessions
  <2>2. /\ job[r].at = "sweep" /\ signedIn' = FALSE
        /\ UNCHANGED <<scene, row, linked, required, factor, link, sentTo, accountGhosts>>
    BY <1>6 DEF SweepSessions, At
  <2>3. PICK x \in Job : /\ job' = [job EXCEPT ![r] = x]
                         /\ x.at = place /\ x.kind = job[r].kind /\ x.link = job[r].link
    BY <1>1, <2>1, Moved DEF JobPlaces
  <2> QED BY <1>1, <2>2, <2>3, QuietMove
<1>7. CASE LoseRequest(r)
  <2>1. /\ Move(r, "done") /\ job[r].at # "done"
        /\ UNCHANGED <<scene, accountData, proved, spent, late, twice, rivals, reverted>>
    BY <1>7 DEF LoseRequest
  <2>2. unmarked' \subseteq RecoveryLink /\ unmarked \subseteq unmarked'
    BY <1>1, <1>7 DEF LoseRequest, LinkTrue, At
  <2>3. PICK x \in Job : /\ job' = [job EXCEPT ![r] = x]
                         /\ x.at = "done" /\ x.kind = job[r].kind /\ x.link = job[r].link
    BY <1>1, <2>1, Moved DEF JobPlaces
  <2> QED BY <1>1, <2>1, <2>2, <2>3, QuietMove
<1> QED BY <1>2, <1>3, <1>4, <1>5, <1>6, <1>7

\* The statement of UserRepo::update leaves a row of the declared type, the one there was
\* or the copy.
LEMMA WrittenRow ==
    ASSUME AccountTypeOK, NEW copy \in UserRow
    PROVE  /\ Written(copy) \in UserRow
           /\ Written(copy) = row \/ /\ Written(copy).email = copy.email
                                     /\ Written(copy).verified = copy.verified
BY DEF AccountTypeOK, Written, UserRow

\* A row written with its note keeps a method to sign in with.
LEMMA WrittenMethod ==
    ASSUME AccountInv, NoteReverted, row' \in UserRow, linked' = linked, rivals' = rivals
    PROVE  /\ MethodLeft'
           /\ reverted' \in BOOLEAN /\ (reverted => reverted')
           /\ row.password # NoPassword => row'.password # NoPassword \/ reverted'
BY DEF AccountInv, AccountTypeOK, NoteReverted, MethodLeft

\* The row is written whole, from a copy that may be old.
LEMMA WriteStep ==
    ASSUME AccountInv, NEW r \in AccountRequest, WriteRow(r)
    PROVE  AccountInv'
<1>1. /\ AccountTypeOK /\ job \in [AccountRequest -> Job] /\ job[r] \in Job
      /\ job[r].copy \in UserRow /\ LinkTrue(r) /\ CopyTrue(r) /\ job[r].at = "write"
      /\ job[r].copy.email \in Email
  BY JobTypes DEF AccountInv, AccountTypeOK, WriteRow, At, UserRow
<1>2. PICK place \in {"sweep", "complete", "mark", "done"} :
         Move(r, place) /\ (place = "mark" => job[r].kind = "recover")
  BY DEF WriteRow
<1>3. PICK x \in Job : /\ job' = [job EXCEPT ![r] = x]
                       /\ x.at = place /\ x.kind = job[r].kind /\ x.link = job[r].link
  BY <1>1, <1>2, Moved DEF JobPlaces
<1>4. /\ row' = Written(job[r].copy) /\ NoteReverted
      /\ proved' = IF job[r].kind = "admin" /\ job[r].copy.verified
                   THEN proved \cup {job[r].copy.email} ELSE proved
      /\ UNCHANGED <<scene, linked, required, factor, signedIn, link, sentTo, spent, late, twice,
                     unmarked, rivals>>
  BY DEF WriteRow
<1>5. row' \in UserRow /\ (row' = row \/ (row'.email = job[r].copy.email
                                           /\ row'.verified = job[r].copy.verified))
  BY <1>1, <1>4, WrittenRow
<1>6. /\ MethodLeft' /\ reverted' \in BOOLEAN /\ (reverted => reverted')
      /\ row.password # NoPassword => row'.password # NoPassword \/ reverted'
  BY <1>4, <1>5, WrittenMethod
<1>7. AccountTypeOK'
  BY <1>1, <1>3, <1>4, <1>5, <1>6 DEF AccountTypeOK
<1>8. proved \subseteq proved'
  BY <1>4
<1>9. RowsGoOn
  BY <1>4, <1>6, <1>8 DEF RowsGoOn
<1>10. VerifiedAddressWasProved'
  <2>1. CASE row' = row
    BY <1>8, <2>1 DEF AccountInv, VerifiedAddressWasProved
  <2>2. CASE row'.email = job[r].copy.email /\ row'.verified = job[r].copy.verified
    BY <1>1, <1>4, <1>8, <2>2 DEF VerifiedAddressWasProved, CopyTrue
  <2> QED BY <1>5, <2>1, <2>2
<1>11. SpentLinkRefused' /\ SpentTrue'
  BY <1>4 DEF AccountInv, SpentLinkRefused, SpentTrue
<1>12. /\ job'[r] = x /\ \A q \in AccountRequest : q # r => job'[q] = job[q]
  BY <1>1, <1>3
<1>13. ASSUME NEW q \in AccountRequest PROVE UnlinkTrue(q)'
  <2>1. CASE q # r
    BY <1>4, <1>9, <1>12, <2>1, JobKept
  <2>2. CASE q = r
    BY <1>2, <1>3, <1>12, <2>2 DEF UnlinkTrue
  <2> QED BY <2>1, <2>2
<1> QED BY <1>1, <1>2, <1>3, <1>4, <1>6, <1>7, <1>9, <1>10, <1>11, <1>13, RequestMoves

\* The confirmation of a reset or of a verification commits.
LEMMA SettleStep ==
    ASSUME AccountInv, NEW r \in AccountRequest, SettleLink(r)
    PROVE  AccountInv'
<1>1. /\ AccountTypeOK /\ job \in [AccountRequest -> Job] /\ job[r] \in Job
      /\ job[r].copy \in UserRow /\ LinkTrue(r) /\ CopyTrue(r) /\ job[r].at = "settle"
      /\ link \in [Link -> {"unborn", "live", "used", "expired"}]
      /\ sentTo \in [VerifyLink -> Email] /\ proved \subseteq Email
  BY JobTypes DEF AccountInv, AccountTypeOK, SettleLink, At
<1>2. PICK l \in Link : l = job[r].link
  BY <1>1 DEF LinkTrue, Link
<1>3. job[r].kind = "verify" => sentTo[l] \in Email
  BY <1>1, <1>2 DEF LinkTrue
<1>4. PICK x \in Job : /\ job' = [job EXCEPT ![r] = x]
                       /\ x.at = "done" /\ x.kind = job[r].kind /\ x.link = job[r].link
  BY <1>1, Moved DEF JobPlaces, SettleLink
<1>5. /\ row' = Written(job[r].copy) /\ NoteReverted
      /\ link' = [link EXCEPT ![l] = "used"]
      /\ spent' = spent \cup {l} /\ twice' = IF l \in late[r] THEN twice \cup {l} ELSE twice
      /\ proved' = IF job[r].kind = "verify" THEN proved \cup {sentTo[l]} ELSE proved
      /\ UNCHANGED <<scene, linked, required, factor, signedIn, sentTo, late, unmarked, rivals>>
  BY <1>2 DEF SettleLink, Spend
<1>6. row' \in UserRow /\ (row' = row \/ (row'.email = job[r].copy.email
                                           /\ row'.verified = job[r].copy.verified))
  BY <1>1, <1>5, WrittenRow
<1>7. /\ MethodLeft' /\ reverted' \in BOOLEAN /\ (reverted => reverted')
      /\ row.password # NoPassword => row'.password # NoPassword \/ reverted'
  BY <1>5, <1>6, WrittenMethod
<1>8. link' \in [Link -> {"unborn", "live", "used", "expired"}] /\ link'[l] = "used"
      /\ \A k \in Link : k # l => link'[k] = link[k]
  BY <1>1, <1>5
<1>9. AccountTypeOK'
  BY <1>1, <1>3, <1>4, <1>5, <1>6, <1>7, <1>8 DEF AccountTypeOK
<1>10. proved \subseteq proved'
  BY <1>5
<1>11. RowsGoOn
  BY <1>5, <1>7, <1>8, <1>10 DEF RowsGoOn
<1>12. VerifiedAddressWasProved'
  <2>1. CASE row' = row
    BY <1>10, <2>1 DEF AccountInv, VerifiedAddressWasProved
  <2>2. CASE row'.email = job[r].copy.email /\ row'.verified = job[r].copy.verified
    BY <1>1, <1>2, <1>5, <1>10, <2>2 DEF VerifiedAddressWasProved, CopyTrue
  <2> QED BY <1>6, <2>1, <2>2
<1>13. SpentLinkRefused'
  BY <1>1, <1>2, <1>5 DEF AccountInv, SpentLinkRefused, LinkTrue
<1>14. SpentTrue'
  BY <1>1, <1>5, <1>8 DEF AccountInv, SpentTrue, AccountTypeOK
<1>15. /\ job'[r] = x /\ \A q \in AccountRequest : q # r => job'[q] = job[q]
  BY <1>1, <1>4
<1>16. ASSUME NEW q \in AccountRequest PROVE UnlinkTrue(q)'
  <2>1. CASE q # r
    BY <1>5, <1>11, <1>15, <2>1, JobKept
  <2>2. CASE q = r
    BY <1>4, <1>15, <2>2 DEF UnlinkTrue
  <2> QED BY <2>1, <2>2
<1> QED BY <1>1, <1>4, <1>5, <1>7, <1>9, <1>11, <1>12, <1>13, <1>14, <1>16, RequestMoves

\* A recovery marks its link, or does not.
LEMMA MarkStep ==
    ASSUME AccountInv, NEW r \in AccountRequest, MarkRecovery(r)
    PROVE  AccountInv'
<1>1. /\ AccountTypeOK /\ job \in [AccountRequest -> Job] /\ job[r] \in Job
      /\ LinkTrue(r) /\ job[r].at = "mark" /\ unmarked \subseteq RecoveryLink
      /\ link \in [Link -> {"unborn", "live", "used", "expired"}]
  BY DEF AccountInv, AccountTypeOK, MarkRecovery, At
<1>2. PICK l \in RecoveryLink : l = job[r].link
  BY <1>1 DEF LinkTrue
<1>3. l \in Link
  BY DEF Link
<1>4. PICK x \in Job : /\ job' = [job EXCEPT ![r] = x]
                       /\ x.at = "done" /\ x.kind = job[r].kind /\ x.link = job[r].link
  BY <1>1, Moved DEF JobPlaces, MarkRecovery
<1>5. /\ \/ link' = [link EXCEPT ![l] = "used"] /\ unmarked' = unmarked
         \/ link' = link /\ unmarked' = unmarked \cup {l}
      /\ spent' = spent \cup {l} /\ twice' = IF l \in late[r] THEN twice \cup {l} ELSE twice
      /\ UNCHANGED <<scene, row, linked, required, factor, signedIn, sentTo, proved, late, rivals,
                     reverted>>
  BY <1>2 DEF MarkRecovery, Spend
<1>6. /\ link' \in [Link -> {"unborn", "live", "used", "expired"}]
      /\ link'[l] = "used" \/ (link'[l] = link[l] /\ l \in unmarked')
      /\ \A k \in Link : k # l => link'[k] = link[k]
      /\ unmarked \subseteq unmarked' /\ unmarked' \subseteq RecoveryLink
  BY <1>1, <1>3, <1>5
<1>7. AccountTypeOK'
  BY <1>1, <1>3, <1>4, <1>5, <1>6 DEF AccountTypeOK
<1>8. RowsGoOn
  BY <1>5, <1>6 DEF RowsGoOn
<1>9. VerifiedAddressWasProved' /\ MethodLeft'
  BY <1>5 DEF AccountInv, VerifiedAddressWasProved, MethodLeft
<1>10. SpentLinkRefused'
  BY <1>1, <1>2, <1>5, <1>6 DEF AccountInv, SpentLinkRefused, LinkTrue
<1>11. SpentTrue'
  BY <1>1, <1>5, <1>6 DEF AccountInv, SpentTrue, AccountTypeOK
<1>12. /\ job'[r] = x /\ \A q \in AccountRequest : q # r => job'[q] = job[q]
  BY <1>1, <1>4
<1>13. ASSUME NEW q \in AccountRequest PROVE UnlinkTrue(q)'
  <2>1. CASE q # r
    BY <1>5, <1>8, <1>12, <2>1, JobKept
  <2>2. CASE q = r
    BY <1>4, <1>12, <2>2 DEF UnlinkTrue
  <2> QED BY <2>1, <2>2
<1> QED BY <1>1, <1>4, <1>5, <1>7, <1>8, <1>9, <1>10, <1>11, <1>13, RequestMoves

\* An account with more than one identity has one when any is removed.
LEMMA MoreThanOne ==
    ASSUME NEW S, ~(Cardinality(S) <= 1), NEW i
    PROVE  S \ {i} # {}
<1>1. Cardinality({}) = 0 /\ Cardinality({i}) = 1
  BY FS_EmptySet, FS_Singleton
<1>2. S # {} /\ S # {i}
  BY <1>1
<1> QED BY <1>2

\* The console counts the methods of its copy and of the identities it reads.
LEMMA CheckStep ==
    ASSUME AccountInv, NEW r \in AccountRequest, CheckMethods(r)
    PROVE  AccountInv'
<1>1. /\ AccountTypeOK /\ job \in [AccountRequest -> Job] /\ job[r] \in Job
      /\ UnlinkTrue(r) /\ job[r].at = "check"
  BY DEF AccountInv, AccountTypeOK, CheckMethods, At
<1>2. PICK place \in {"done", "unlink"} :
         /\ Move(r, place)
         /\ place = "unlink" => job[r].copy.password # NoPassword \/ ~(Cardinality(linked) <= 1)
  BY DEF CheckMethods
<1>3. PICK x \in Job : /\ job' = [job EXCEPT ![r] = x]
                       /\ x.at = place /\ x.kind = job[r].kind /\ x.link = job[r].link
                       /\ place # "done" => x.copy = job[r].copy
  BY <1>1, <1>2, Moved DEF JobPlaces
<1>4. UNCHANGED <<scene, row, linked, required, factor, signedIn, link, sentTo, proved, spent, late,
                  twice, unmarked, rivals, reverted>>
  BY DEF CheckMethods, accountData, accountGhosts
<1>5. AccountTypeOK'
  BY <1>1, <1>3, <1>4 DEF AccountTypeOK
<1>6. RowsGoOn
  BY <1>4 DEF RowsGoOn
<1>7. VerifiedAddressWasProved' /\ MethodLeft' /\ SpentLinkRefused' /\ SpentTrue'
  BY <1>4 DEF AccountInv, VerifiedAddressWasProved, MethodLeft, SpentLinkRefused, SpentTrue
<1>8. /\ job'[r] = x /\ \A q \in AccountRequest : q # r => job'[q] = job[q]
  BY <1>1, <1>3
<1>9. ASSUME NEW q \in AccountRequest PROVE UnlinkTrue(q)'
  <2>1. CASE q # r
    BY <1>4, <1>6, <1>8, <2>1, JobKept
  <2>2. CASE q = r
    <3>1. ~(Cardinality(linked) <= 1) => \A i \in Identity : linked \ {i} # {}
      BY MoreThanOne
    <3> QED BY <1>1, <1>2, <1>3, <1>4, <1>8, <2>2, <3>1 DEF UnlinkTrue
  <2> QED BY <2>1, <2>2
<1> QED BY <1>1, <1>2, <1>3, <1>4, <1>5, <1>6, <1>7, <1>9, RequestMoves

\* One identity goes.
LEMMA UnlinkStep ==
    ASSUME AccountInv, NEW r \in AccountRequest, Unlink(r)
    PROVE  AccountInv'
<1>1. /\ AccountTypeOK /\ job \in [AccountRequest -> Job] /\ job[r] \in Job
      /\ UnlinkTrue(r) /\ job[r].at = "unlink" /\ linked \subseteq Identity
  BY DEF AccountInv, AccountTypeOK, Unlink, At
<1>2. PICK i \in Identity : linked' = linked \ {i}
  BY DEF Unlink
<1>3. PICK x \in Job : /\ job' = [job EXCEPT ![r] = x]
                       /\ x.at = "done" /\ x.kind = job[r].kind /\ x.link = job[r].link
  BY <1>1, Moved DEF JobPlaces, Unlink
<1>4. UNCHANGED <<scene, row, required, factor, signedIn, link, sentTo, proved, spent, late,
                  twice, unmarked, rivals, reverted>>
  BY DEF Unlink, accountGhosts
<1>5. AccountTypeOK'
  BY <1>1, <1>2, <1>3, <1>4 DEF AccountTypeOK
<1>6. RowsGoOn
  BY <1>4 DEF RowsGoOn
<1>7. VerifiedAddressWasProved' /\ SpentLinkRefused' /\ SpentTrue'
  BY <1>4 DEF AccountInv, VerifiedAddressWasProved, SpentLinkRefused, SpentTrue
<1>8. MethodLeft'
  BY <1>1, <1>2, <1>4 DEF AccountInv, MethodLeft, UnlinkTrue
<1>9. /\ job'[r] = x /\ \A q \in AccountRequest : q # r => job'[q] = job[q]
  BY <1>1, <1>3
<1>10. ASSUME NEW q \in AccountRequest PROVE UnlinkTrue(q)'
  <2>1. CASE q # r
    <3>1. job'[q] = job[q] /\ UnlinkTrue(q)
      BY <1>9, <2>1 DEF AccountInv
    <3>2. CASE rivals \/ reverted
      BY <1>4, <3>2 DEF UnlinkTrue
    <3>3. CASE ~rivals /\ ~reverted
      \* No other request is unlinking one.
      <4>1. job[r].kind = "unlink"
        BY <1>1, <3>3 DEF UnlinkTrue
      <4>2. job[q].at \notin {"check", "unlink"}
        BY <1>1, <2>1, <3>1, <3>3, <4>1 DEF AccountInv, OneUnlinks, UnlinkTrue
      <4> QED BY <3>1, <4>2 DEF UnlinkTrue
    <3> QED BY <3>2, <3>3
  <2>2. CASE q = r
    BY <1>3, <1>9, <2>2 DEF UnlinkTrue
  <2> QED BY <2>1, <2>2
<1> QED BY <1>1, <1>3, <1>4, <1>5, <1>6, <1>7, <1>8, <1>10, RequestMoves

\* A request arrives: the copy it takes is no better proved than the row, and the link it
\* brings is live.
LEMMA EnterStep ==
    ASSUME AccountInv, NEW r \in AccountRequest, NEW kind \in JobKinds, NEW place \in JobPlaces,
           NEW copy \in UserRow, NEW l \in Link \cup {NoLink}, NEW todo \in SUBSET RequiredAction,
           Enter(r, kind, place, copy, l, todo),
           UNCHANGED <<row, linked, required, signedIn, link, sentTo>>, factor' \in BOOLEAN,
           place \notin {"new", "mark", "unlink"},
           place \in {"write", "settle"} /\ copy.verified =>
              \/ row.verified /\ copy.email = row.email
              \/ place = "write" /\ kind = "admin"
              \/ place = "settle" /\ kind = "verify" /\ copy.email = sentTo[l],
           l # NoLink => link[l] = "live",
           place = "settle" => l \in ResetLink \cup VerifyLink,
           place = "settle" /\ kind = "verify" => l \in VerifyLink,
           place = "write" /\ kind = "recover" => l \in RecoveryLink,
           place = "check" => kind = "unlink" /\ copy = row
    PROVE  AccountInv'
<1>1. /\ AccountTypeOK /\ job \in [AccountRequest -> Job] /\ spent \subseteq Link
      /\ late \in [AccountRequest -> SUBSET Link] /\ rivals \in BOOLEAN
      /\ unmarked \subseteq RecoveryLink
  BY DEF AccountInv, AccountTypeOK
<1>2. PICK x : x = [at |-> place, kind |-> kind, copy |-> copy, link |-> l, todo |-> todo]
  OBVIOUS
<1>3. /\ x \in Job
      /\ x.at = place /\ x.kind = kind /\ x.copy = copy /\ x.link = l
  BY <1>2 DEF Job
<1>4. /\ job' = [job EXCEPT ![r] = x] /\ late' = [late EXCEPT ![r] = spent]
      /\ UNCHANGED <<scene, proved, spent, twice, unmarked, reverted>>
  BY <1>2 DEF Enter
<1>5. /\ rivals' \in BOOLEAN /\ (rivals => rivals')
      /\ kind = "unlink" => \A q \in AccountRequest :
            rivals' \/ job[q].kind # "unlink" \/ job[q].at = "done"
  BY <1>1 DEF Enter, At
<1>6. /\ job'[r] = x /\ late'[r] = spent
      /\ \A q \in AccountRequest : q # r => job'[q] = job[q] /\ late'[q] = late[q]
  BY <1>1, <1>4
<1>7. AccountTypeOK'
  BY <1>1, <1>3, <1>4, <1>5 DEF AccountInv, AccountTypeOK
<1>8. RowsGoOn
  BY <1>4, <1>5 DEF RowsGoOn
<1>9. VerifiedAddressWasProved' /\ SpentLinkRefused' /\ SpentTrue' /\ MethodLeft'
  BY <1>4, <1>5 DEF AccountInv, VerifiedAddressWasProved, SpentLinkRefused, SpentTrue, MethodLeft
<1>10. CopyTrue(r)'
  BY <1>3, <1>4, <1>6 DEF AccountInv, VerifiedAddressWasProved, CopyTrue
<1>11. LinkTrue(r)'
  <2>1. l \in spent => l \in unmarked
    BY <1>1, AccountAssumption DEF AccountInv, SpentTrue, Link
  <2> QED BY <1>3, <1>4, <1>6, <2>1 DEF LinkTrue
<1>12. UnlinkTrue(r)'
  BY <1>3, <1>4, <1>6 DEF UnlinkTrue
<1>13. ASSUME NEW q \in AccountRequest PROVE CopyTrue(q)' /\ LinkTrue(q)' /\ UnlinkTrue(q)'
  <2>1. CASE q # r
    BY <1>6, <1>8, <2>1, JobKept
  <2> QED BY <1>10, <1>11, <1>12, <2>1
<1>14. OneUnlinks'
  <2> SUFFICES ASSUME ~rivals', NEW p \in AccountRequest, NEW q \in AccountRequest,
                      job'[p].kind = "unlink" /\ job'[p].at # "done",
                      job'[q].kind = "unlink" /\ job'[q].at # "done"
               PROVE  p = q
    BY DEF OneUnlinks
  <2> QED BY <1>3, <1>5, <1>6 DEF AccountInv, OneUnlinks
<1> QED BY <1>7, <1>9, <1>13, <1>14 DEF AccountInv

\* A request arrives with a link.
LEMMA ReadLinkStep ==
    ASSUME AccountInv, NEW r \in AccountRequest,
           ReadReset(r) \/ ReadVerification(r) \/ ReadRecovery(r)
    PROVE  AccountInv'
<1>1. /\ row \in UserRow /\ factor \in BOOLEAN /\ {} \in SUBSET RequiredAction
      /\ sentTo \in [VerifyLink -> Email]
  BY DEF AccountInv, AccountTypeOK
<1>2. {"reset", "verify", "recover"} \subseteq JobKinds /\ {"settle", "write"} \subseteq JobPlaces
  BY DEF JobKinds, JobPlaces
<1> USE DEF accountData, Redeemable
<1>3. CASE ReadReset(r)
  <2>1. PICK l \in ResetLink, p \in Password :
          /\ link[l] = "live" /\ Enter(r, "reset", "settle", [row EXCEPT !.password = p], l, {})
          /\ UNCHANGED <<row, linked, required, factor, signedIn, link, sentTo>>
    BY <1>3 DEF ReadReset
  <2>2. PICK copy : copy = [row EXCEPT !.password = p]
    OBVIOUS
  <2>3. copy \in UserRow /\ copy.verified = row.verified /\ copy.email = row.email
    BY <1>1, <2>2 DEF UserRow
  <2>4. l \in Link \cup {NoLink}
    BY DEF Link
  <2>5. Enter(r, "reset", "settle", copy, l, {})
    BY <2>1, <2>2
  <2> QED BY <1>1, <1>2, <2>1, <2>3, <2>4, <2>5, EnterStep
<1>4. CASE ReadVerification(r)
  <2>1. PICK l \in VerifyLink :
          /\ link[l] = "live" /\ row.email = sentTo[l]
          /\ Enter(r, "verify", "settle", [row EXCEPT !.verified = TRUE], l, {})
          /\ UNCHANGED <<row, linked, required, factor, signedIn, link, sentTo>>
    BY <1>4 DEF ReadVerification
  <2>2. PICK copy : copy = [row EXCEPT !.verified = TRUE]
    OBVIOUS
  <2>3. copy \in UserRow /\ copy.email = sentTo[l]
    BY <1>1, <2>1, <2>2 DEF UserRow
  <2>4. l \in Link \cup {NoLink}
    BY DEF Link
  <2>5. Enter(r, "verify", "settle", copy, l, {})
    BY <2>1, <2>2
  <2> QED BY <1>1, <1>2, <2>1, <2>3, <2>4, <2>5, EnterStep
<1>5. CASE ReadRecovery(r)
  <2>1. PICK l \in RecoveryLink, p \in Password :
          /\ link[l] = "live" /\ Enter(r, "recover", "write", [row EXCEPT !.password = p], l, {})
          /\ UNCHANGED <<row, linked, required, factor, signedIn, link, sentTo>>
    BY <1>5 DEF ReadRecovery
  <2>2. PICK copy : copy = [row EXCEPT !.password = p]
    OBVIOUS
  <2>3. copy \in UserRow /\ copy.verified = row.verified /\ copy.email = row.email
    BY <1>1, <2>2 DEF UserRow
  <2>4. l \in Link \cup {NoLink}
    BY DEF Link
  <2>5. Enter(r, "recover", "write", copy, l, {})
    BY <2>1, <2>2
  <2> QED BY <1>1, <1>2, <2>1, <2>3, <2>4, <2>5, EnterStep
<1> QED BY <1>3, <1>4, <1>5

\* A request arrives that will write a row it has read.
LEMMA ReadRowStep ==
    ASSUME AccountInv, NEW r \in AccountRequest,
           ReadProfile(r) \/ ReadPassword(r) \/ ReadForced(r) \/ ReadDetails(r) \/ ReadAdmin(r)
    PROVE  AccountInv'
<1>1. row \in UserRow /\ factor \in BOOLEAN /\ {} \in SUBSET RequiredAction
  BY DEF AccountInv, AccountTypeOK
<1>2. {"profile", "password", "forced", "details", "admin"} \subseteq JobKinds
      /\ "write" \in JobPlaces
  BY DEF JobKinds, JobPlaces
<1>3. PICK kind \in {"profile", "password", "forced", "details", "admin"}, copy \in UserRow :
        /\ Enter(r, kind, "write", copy, NoLink, {})
        /\ UNCHANGED <<row, linked, required, factor, signedIn, link, sentTo>>
        /\ copy.verified => kind = "admin" \/ (row.verified /\ copy.email = row.email)
  <2>1. CASE ReadProfile(r)
    <3>1. PICK e \in Email, c \in BOOLEAN :
            /\ Enter(r, "profile", "write",
                     [row EXCEPT !.email = e, !.verified = row.verified /\ e = row.email,
                                 !.complete = c], NoLink, {})
            /\ UNCHANGED <<row, linked, required, factor, signedIn, link, sentTo>>
      BY <2>1 DEF ReadProfile, accountData
    <3>2. PICK v \in BOOLEAN : v = (row.verified /\ e = row.email)
      OBVIOUS
    <3>3. PICK copy : copy = [row EXCEPT !.email = e, !.verified = v, !.complete = c]
      OBVIOUS
    <3>4. copy \in UserRow /\ copy.verified = v /\ copy.email = e
      BY <1>1, <3>3 DEF UserRow
    <3>5. Enter(r, "profile", "write", copy, NoLink, {})
      BY <3>1, <3>2, <3>3
    <3> QED BY <3>1, <3>2, <3>4, <3>5
  <2>2. CASE ReadPassword(r) \/ ReadForced(r)
    <3>1. PICK kind \in {"password", "forced"}, p \in Password :
            /\ Enter(r, kind, "write", [row EXCEPT !.password = p], NoLink, {})
            /\ UNCHANGED <<row, linked, required, factor, signedIn, link, sentTo>>
      BY <2>2 DEF ReadPassword, ReadForced, accountData
    <3>2. PICK copy : copy = [row EXCEPT !.password = p]
      OBVIOUS
    <3>3. copy \in UserRow /\ copy.verified = row.verified /\ copy.email = row.email
      BY <1>1, <3>2 DEF UserRow
    <3>4. Enter(r, kind, "write", copy, NoLink, {})
      BY <3>1, <3>2
    <3> QED BY <3>1, <3>3, <3>4
  <2>3. CASE ReadDetails(r)
    <3>1. /\ Enter(r, "details", "write", [row EXCEPT !.complete = TRUE], NoLink, {})
          /\ UNCHANGED <<row, linked, required, factor, signedIn, link, sentTo>>
      BY <2>3 DEF ReadDetails, accountData
    <3>2. PICK copy : copy = [row EXCEPT !.complete = TRUE]
      OBVIOUS
    <3>3. copy \in UserRow /\ copy.verified = row.verified /\ copy.email = row.email
      BY <1>1, <3>2 DEF UserRow
    <3>4. Enter(r, "details", "write", copy, NoLink, {})
      BY <3>1, <3>2
    <3> QED BY <3>1, <3>3, <3>4
  <2>4. CASE ReadAdmin(r)
    <3>1. PICK e \in Email, v \in BOOLEAN, n \in BOOLEAN :
            /\ Enter(r, "admin", "write",
                     [row EXCEPT !.email = e, !.verified = v, !.enabled = n], NoLink, {})
            /\ UNCHANGED <<row, linked, required, factor, signedIn, link, sentTo>>
      BY <2>4 DEF ReadAdmin, accountData
    <3>2. PICK copy : copy = [row EXCEPT !.email = e, !.verified = v, !.enabled = n]
      OBVIOUS
    <3>3. copy \in UserRow
      BY <1>1, <3>2 DEF UserRow
    <3>4. Enter(r, "admin", "write", copy, NoLink, {})
      BY <3>1, <3>2
    <3> QED BY <3>1, <3>3, <3>4
  <2> QED BY <2>1, <2>2, <2>3, <2>4
<1> QED BY <1>1, <1>2, <1>3, EnterStep

\* A request arrives that will not write the row.
LEMMA ReadOtherStep ==
    ASSUME AccountInv, NEW r \in AccountRequest,
           ReadUnlink(r) \/ ReadFactor(r) \/ ReadAssign(r) \/ ResetFactor(r)
    PROVE  AccountInv'
<1>1. row \in UserRow /\ factor \in BOOLEAN
  BY DEF AccountInv, AccountTypeOK
<1>2. PICK kind \in {"unlink", "mfa", "assign"}, place \in {"check", "complete", "clear", "sweep"},
           todo \in SUBSET RequiredAction :
        /\ Enter(r, kind, place, row, NoLink, todo)
        /\ UNCHANGED <<row, linked, required, signedIn, link, sentTo>> /\ factor' \in BOOLEAN
        /\ place = "check" => kind = "unlink"
  <2>1. CASE ReadUnlink(r)
    BY <1>1, <2>1 DEF ReadUnlink, accountData
  <2>2. CASE ReadFactor(r)
    BY <1>1, <2>2 DEF ReadFactor, accountData
  <2>3. CASE ReadAssign(r)
    BY <1>1, <2>3 DEF ReadAssign, accountData
  <2>4. CASE ResetFactor(r)
    <3>1. /\ Enter(r, "mfa", "sweep", row, NoLink, {}) /\ factor' = FALSE
          /\ UNCHANGED <<row, linked, required, signedIn, link, sentTo>>
      BY <2>4 DEF ResetFactor
    <3>2. factor' \in BOOLEAN /\ {} \in SUBSET RequiredAction
      BY <3>1
    <3> QED BY <3>1, <3>2, Zenon
  <2> QED BY <2>1, <2>2, <2>3, <2>4
<1>3. kind \in JobKinds /\ place \in JobPlaces
  BY DEF JobKinds, JobPlaces
<1> QED BY <1>1, <1>2, <1>3, EnterStep

\* The rows change by no request: links are sent and expire, a workflow or an
\* administrator disables or deletes the account.
LEMMA NoRequestStep ==
    ASSUME AccountInv,
           UNCHANGED <<linked, required, factor, signedIn, scene, job, accountGhosts>>,
           row' \in UserRow, row'.password = row.password,
           row'.verified = row.verified, row'.email = row.email,
           link' \in [Link -> {"unborn", "live", "used", "expired"}],
           sentTo' \in [VerifyLink -> Email],
           \A l \in Link : link[l] # "unborn" => link'[l] # "unborn",
           \A l \in Link : link[l] = "used" => link'[l] = "used",
           \A l \in VerifyLink : link[l] # "unborn" => sentTo'[l] = sentTo[l]
    PROVE  AccountInv'
<1> USE DEF accountGhosts
<1>1. AccountTypeOK'
  BY DEF AccountInv, AccountTypeOK
<1>2. RowsGoOn
  BY DEF RowsGoOn
<1>3. VerifiedAddressWasProved' /\ MethodLeft' /\ SpentLinkRefused' /\ OneUnlinks'
  BY DEF AccountInv, VerifiedAddressWasProved, MethodLeft, SpentLinkRefused, OneUnlinks
<1>4. SpentTrue'
  BY DEF AccountInv, AccountTypeOK, SpentTrue
<1>5. \A q \in AccountRequest : CopyTrue(q)' /\ LinkTrue(q)' /\ UnlinkTrue(q)'
  BY <1>2, JobKept
<1> QED BY <1>1, <1>3, <1>4, <1>5 DEF AccountInv

\* A link is stored and mailed, or expires.
LEMMA LinkStep ==
    ASSUME AccountInv,
           \/ \E l \in ResetLink : SendReset(l)
           \/ \E l \in VerifyLink : SendVerification(l)
           \/ \E l \in RecoveryLink : InitiateRecovery(l)
           \/ \E l \in Link : ExpireLink(l)
    PROVE  AccountInv'
<1>1. /\ row \in UserRow /\ row.email \in Email /\ sentTo \in [VerifyLink -> Email]
      /\ link \in [Link -> {"unborn", "live", "used", "expired"}]
  BY DEF AccountInv, AccountTypeOK, UserRow
<1>2. PICK l \in Link, s \in {"live", "expired"} :
        /\ link' = [link EXCEPT ![l] = s] /\ link[l] \in {"unborn", "live"}
        /\ \/ UNCHANGED sentTo
           \/ link[l] = "unborn" /\ sentTo' = [sentTo EXCEPT ![l] = row.email]
        /\ UNCHANGED <<row, linked, required, factor, signedIn, scene, job, accountGhosts>>
  <2>1. CASE \E l \in ResetLink : SendReset(l)
    BY <2>1 DEF SendReset, Sent, Link
  <2>2. CASE \E l \in VerifyLink : SendVerification(l)
    BY <2>2 DEF SendVerification, Sent, Link
  <2>3. CASE \E l \in RecoveryLink : InitiateRecovery(l)
    BY <2>3 DEF InitiateRecovery, Sent, Link
  <2>4. CASE \E l \in Link : ExpireLink(l)
    BY <2>4 DEF ExpireLink
  <2> QED BY <2>1, <2>2, <2>3, <2>4
<1>3. /\ link' \in [Link -> {"unborn", "live", "used", "expired"}]
      /\ link'[l] = s /\ \A k \in Link : k # l => link'[k] = link[k]
  BY <1>1, <1>2
<1>4. sentTo' \in [VerifyLink -> Email] /\ \A k \in VerifyLink : k # l => sentTo'[k] = sentTo[k]
  BY <1>1, <1>2
<1>5. \A k \in VerifyLink : link[k] # "unborn" => sentTo'[k] = sentTo[k]
  BY <1>2, <1>4
<1>6. \A k \in Link : /\ link[k] # "unborn" => link'[k] # "unborn"
                      /\ link[k] = "used" => link'[k] = "used"
  BY <1>2, <1>3
<1> QED BY <1>1, <1>2, <1>3, <1>4, <1>5, <1>6, NoRequestStep

\* The account is disabled, enabled or deleted.
LEMMA ColumnStep ==
    ASSUME AccountInv, DeleteUser \/ SetEnabled
    PROVE  AccountInv'
<1>1. /\ row \in UserRow /\ row.enabled \in BOOLEAN /\ sentTo \in [VerifyLink -> Email]
      /\ link \in [Link -> {"unborn", "live", "used", "expired"}]
  BY DEF AccountInv, AccountTypeOK, UserRow
<1>2. PICK n \in BOOLEAN, d \in {row.deleted, TRUE} :
        row' = [row EXCEPT !.deleted = d, !.enabled = n]
  <2>1. CASE DeleteUser
    BY <1>1, <2>1 DEF DeleteUser
  <2>2. CASE SetEnabled
    <3>1. PICK n \in BOOLEAN : row' = [row EXCEPT !.enabled = n]
      BY <2>2 DEF SetEnabled
    <3>2. row' = [row EXCEPT !.deleted = row.deleted, !.enabled = n]
      BY <1>1, <3>1 DEF UserRow
    <3> QED BY <3>2
  <2> QED BY <2>1, <2>2
<1>3. /\ row' \in UserRow /\ row'.password = row.password
      /\ row'.verified = row.verified /\ row'.email = row.email
  BY <1>1, <1>2 DEF UserRow
<1>4. UNCHANGED <<linked, required, factor, signedIn, link, sentTo, scene, job, accountGhosts>>
  BY DEF DeleteUser, SetEnabled
<1> QED BY <1>1, <1>3, <1>4, NoRequestStep

\* Every step of the account keeps the invariant.
LEMMA AccountStepKeeps == AccountInv /\ [AccountNext]_accountVars => AccountInv'
<1> SUFFICES ASSUME AccountInv, [AccountNext]_accountVars PROVE AccountInv'
  OBVIOUS
<1>1. CASE UNCHANGED accountVars
  <2>1. UNCHANGED <<row, linked, required, factor, signedIn, link, sentTo, job, scene>>
        /\ UNCHANGED accountGhosts
    BY <1>1 DEF accountVars, accountData
  <2>2. /\ row \in UserRow /\ sentTo \in [VerifyLink -> Email]
        /\ link \in [Link -> {"unborn", "live", "used", "expired"}]
    BY DEF AccountInv, AccountTypeOK
  <2> QED BY <2>1, <2>2, NoRequestStep
<1>2. ASSUME NEW r \in AccountRequest, AccountStep(r) PROVE AccountInv'
  <2>1. CASE AbandonLink(r) \/ Complete(r) \/ ClearRequired(r) \/ InsertRequired(r)
               \/ SweepSessions(r) \/ LoseRequest(r)
    BY <2>1, QuietStep
  <2>2. CASE ReadReset(r) \/ ReadVerification(r) \/ ReadRecovery(r)
    BY <2>2, ReadLinkStep
  <2>3. CASE ReadProfile(r) \/ ReadPassword(r) \/ ReadForced(r) \/ ReadDetails(r) \/ ReadAdmin(r)
    BY <2>3, ReadRowStep
  <2>4. CASE ReadUnlink(r) \/ ReadFactor(r) \/ ReadAssign(r) \/ ResetFactor(r)
    BY <2>4, ReadOtherStep
  <2>5. CASE WriteRow(r)
    BY <2>5, WriteStep
  <2>6. CASE SettleLink(r)
    BY <2>6, SettleStep
  <2>7. CASE MarkRecovery(r)
    BY <2>7, MarkStep
  <2>8. CASE CheckMethods(r)
    BY <2>8, CheckStep
  <2>9. CASE Unlink(r)
    BY <2>9, UnlinkStep
  <2> QED BY <1>2, <2>1, <2>2, <2>3, <2>4, <2>5, <2>6, <2>7, <2>8, <2>9 DEF AccountStep
<1>3. CASE \/ \E l \in ResetLink : SendReset(l)
           \/ \E l \in VerifyLink : SendVerification(l)
           \/ \E l \in RecoveryLink : InitiateRecovery(l)
           \/ \E l \in Link : ExpireLink(l)
  BY <1>3, LinkStep
<1>4. CASE DeleteUser \/ SetEnabled
  BY <1>4, ColumnStep
<1> QED BY <1>1, <1>2, <1>3, <1>4 DEF AccountNext

\* The account starts with the invariant.
LEMMA AccountStart == AccountInit => AccountInv
<1> SUFFICES ASSUME AccountInit PROVE AccountInv
  OBVIOUS
<1>1. row \in UserRow /\ ~row.verified /\ linked \subseteq Identity
      /\ (row.password # NoPassword \/ linked # {})
  <2>1. PICK e \in Email, p \in Password \cup {NoPassword} :
          /\ row = [email |-> e, verified |-> FALSE, password |-> p, complete |-> FALSE,
                    enabled |-> TRUE, deleted |-> FALSE]
          /\ (linked = {} /\ p \in Password) \/ linked = Identity
    BY DEF AccountInit
  <2>2. row \in UserRow /\ ~row.verified /\ row.password = p
    BY <2>1 DEF UserRow
  <2> QED BY <2>1, <2>2, AccountAssumption
<1>2. NoCopy \in UserRow /\ row.email \in Email
  <2>1. row.email \in Email
    BY <1>1 DEF UserRow
  <2> QED BY <2>1 DEF NoCopy, UserRow
<1>3. PICK x : x = [at |-> "new", kind |-> "none", copy |-> NoCopy, link |-> NoLink, todo |-> {}]
  OBVIOUS
<1>4. x \in Job /\ x.at = "new" /\ x.kind = "none" /\ x.link = NoLink
  BY <1>2, <1>3 DEF Job, JobPlaces, JobKinds
<1>5. /\ job = [r \in AccountRequest |-> x] /\ required \subseteq {"update_password"}
      /\ factor = TRUE /\ signedIn = TRUE /\ scene \in AccountScenes
      /\ link = [l \in Link |-> "unborn"] /\ sentTo = [l \in VerifyLink |-> row.email]
      /\ proved = {} /\ spent = {} /\ twice = {} /\ unmarked = {}
      /\ late = [r \in AccountRequest |-> {}] /\ rivals = FALSE /\ reverted = FALSE
  BY <1>3 DEF AccountInit
<1>6. AccountTypeOK
  BY <1>1, <1>2, <1>4, <1>5, AccountAssumption DEF AccountTypeOK
<1>7. \A r \in AccountRequest : CopyTrue(r) /\ LinkTrue(r) /\ UnlinkTrue(r)
  BY <1>4, <1>5 DEF CopyTrue, LinkTrue, UnlinkTrue
<1>8. VerifiedAddressWasProved /\ SpentLinkRefused /\ SpentTrue /\ MethodLeft /\ OneUnlinks
  BY <1>1, <1>4, <1>5 DEF VerifiedAddressWasProved, SpentLinkRefused, SpentTrue, MethodLeft, OneUnlinks
<1> QED BY <1>6, <1>7, <1>8 DEF AccountInv

\* However requests about an account, the links of its owner, administrators and workflows
\* interleave, its row, links and requests keep the invariant.
THEOREM AccountInvariance == AccountSpec => []AccountInv
<1>1. AccountInit => AccountInv
  BY AccountStart
<1>2. AccountInv /\ [AccountNext]_accountVars => AccountInv'
  BY AccountStepKeeps
<1> QED BY <1>1, <1>2, PTL DEF AccountSpec

\* An address counts as verified only if a link sent to it was used or an administrator
\* vouched for it.
THEOREM VerifiedAddress == AccountSpec => []VerifiedAddressWasProved
<1>1. AccountInv => VerifiedAddressWasProved
  BY DEF AccountInv
<1> QED BY <1>1, AccountInvariance, PTL

\* A request that comes when a use of its reset, verification or recovery link has been
\* answered is refused, unless the recovery could not mark its link.
THEOREM SpentLinks == AccountSpec => []SpentLinkRefused
<1>1. AccountInv => SpentLinkRefused
  BY DEF AccountInv
<1> QED BY <1>1, AccountInvariance, PTL

\* An account keeps a password or an identity to sign in with, unless two requests to
\* unlink overlap or a stale copy takes the password away.
THEOREM MethodStays == AccountSpec => []MethodLeft
<1>1. AccountInv => MethodLeft
  BY DEF AccountInv
<1> QED BY <1>1, AccountInvariance, PTL

\* A row that is deleted is changed by no step, except that it may be disabled as well.
LEMMA DeletedStays ==
    ASSUME AccountInv, [AccountNext]_accountVars, row.deleted
    PROVE  row' \in {row, [row EXCEPT !.enabled = FALSE]}
<1>1. row \in UserRow /\ row.deleted = TRUE
  BY DEF AccountInv, AccountTypeOK, UserRow
<1>2. CASE row' = row
  BY <1>2
<1>3. CASE DeleteUser
  <2>1. PICK n \in {row.enabled, FALSE} : row' = [row EXCEPT !.deleted = TRUE, !.enabled = n]
    BY <1>3 DEF DeleteUser
  <2>2. CASE n = FALSE
    BY <1>1, <2>1, <2>2 DEF UserRow
  <2>3. CASE n = row.enabled
    BY <1>1, <2>1, <2>3 DEF UserRow
  <2> QED BY <2>1, <2>2, <2>3
<1>4. ASSUME NEW r \in AccountRequest, WriteRow(r) \/ SettleLink(r) PROVE row' = row
  BY <1>1, <1>4 DEF WriteRow, SettleLink, Written
<1>5. ASSUME NEW r \in AccountRequest, AccountStep(r), ~WriteRow(r), ~SettleLink(r)
      PROVE  row' = row
  BY <1>5 DEF AccountStep, accountData, ReadReset, ReadVerification, AbandonLink, ReadRecovery,
     MarkRecovery, ReadProfile, ReadPassword, ReadUnlink, CheckMethods, Unlink, ReadForced,
     ReadDetails, ReadFactor, Complete, ReadAdmin, ReadAssign, ClearRequired, InsertRequired,
     ResetFactor, SweepSessions, LoseRequest
<1>6. ~SetEnabled
  BY <1>1 DEF SetEnabled, Found
<1>7. ASSUME \/ \E l \in ResetLink : SendReset(l)
             \/ \E l \in VerifyLink : SendVerification(l)
             \/ \E l \in RecoveryLink : InitiateRecovery(l)
             \/ \E l \in Link : ExpireLink(l)
      PROVE  row' = row
  BY <1>7 DEF SendReset, SendVerification, InitiateRecovery, Sent, ExpireLink
<1>8. UNCHANGED accountVars => row' = row
  BY DEF accountVars, accountData
<1> QED BY <1>2, <1>3, <1>4, <1>5, <1>6, <1>7, <1>8 DEF AccountNext

\* A request that read the row before the account was deleted neither brings it back nor
\* changes it.
THEOREM StaysDeleted == AccountSpec => DeletedForGood
<1>1. AccountInv /\ [AccountNext]_accountVars
         => [row.deleted => row' \in {row, [row EXCEPT !.enabled = FALSE]}]_accountVars
  BY DeletedStays
<1> QED BY <1>1, AccountInvariance, PTL DEF AccountSpec, DeletedForGood
=============================================================================
