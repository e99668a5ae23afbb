------------------------------ MODULE RoleGraph ------------------------------
(***************************************************************************)
(* Composite roles: which roles a role includes, and the roles a user ends *)
(* up with.  Adding an inclusion is a query that looks for a cycle and an   *)
(* INSERT, each a transaction of its own; everything else is one statement. *)
(* Deleting a role or a group only sets its deleted_at.                     *)
(***************************************************************************)
EXTENDS Naturals, FiniteSets

CONSTANTS
    Role,         \* roles of one realm
    RoleGroup,    \* groups of the realm
    RoleAdmin,    \* requests to include a role in another
    NoRole        \* an administrator who is not adding

ASSUME RoleAssumption == NoRole \notin Role /\ IsFiniteSet(Role)

VARIABLES
    composite,    \* role_composites: <<parent, child>>
    liveRole,     \* roles whose deleted_at is NULL
    heldRole,     \* user_roles of one user
    memberOf,     \* user_groups of that user
    groupRole,    \* group_roles: <<group, role>>
    liveGroup,    \* groups whose deleted_at is NULL
    adding,       \* per administrator: the inclusion that passed the cycle check
    overlapped    \* ghost: an inclusion was inserted between a check and its INSERT

roleVars == <<composite, liveRole, heldRole, memberOf, groupRole, liveGroup, adding, overlapped>>

RoleTypeOK ==
    /\ composite \subseteq Role \X Role
    /\ liveRole \subseteq Role /\ heldRole \subseteq Role
    /\ memberOf \subseteq RoleGroup /\ liveGroup \subseteq RoleGroup
    /\ groupRole \subseteq RoleGroup \X Role
    /\ adding \in [RoleAdmin -> [parent : Role \cup {NoRole}, child : Role \cup {NoRole}]]
    /\ overlapped \in BOOLEAN

-----------------------------------------------------------------------------
NotAdding == [parent |-> NoRole, child |-> NoRole]

\* Mutant of Children: the walk stops at a deleted role.
ChildrenOfLive(s) == {e[2] : e \in {d \in composite : d[1] \in s \cap liveRole}}

Children(s) == {e[2] : e \in {d \in composite : d[1] \in s}}

\* WITH RECURSIVE ... UNION: rows are added until a round brings none that is new, which
\* happens after as many rounds as there are roles.
Closure(s) ==
    LET round[n \in 0..Cardinality(Role)] ==
            IF n = 0 THEN s ELSE round[n - 1] \cup Children(round[n - 1])
    IN round[Cardinality(Role)]

\* would_create_cycle: is the parent among the roles the child includes?
WouldCreateCycle(p, c) == p \in Closure(Children({c}))

\* find_effective_by_user_id: from the direct roles and those of the groups, whether
\* these are deleted or not, down to every included role that is not deleted.
Direct == heldRole \cup {e[2] : e \in {d \in groupRole : d[1] \in memberOf}}
Effective == Closure(Direct) \cap liveRole

-----------------------------------------------------------------------------
\* Mutant of CheckInclusion: only the roles included directly are looked at.
CheckDirect(a) ==
    \E p, c \in liveRole :
        /\ adding[a] = NotAdding
        /\ p # c /\ p \notin Children({c})
        /\ adding' = [adding EXCEPT ![a] = [parent |-> p, child |-> c]]
        /\ UNCHANGED <<composite, liveRole, heldRole, memberOf, groupRole, liveGroup, overlapped>>

\* add_role_composite: both roles are found, and no cycle is.
CheckInclusion(a) ==
    \E p, c \in liveRole :
        /\ adding[a] = NotAdding
        /\ p # c /\ ~WouldCreateCycle(p, c)
        /\ adding' = [adding EXCEPT ![a] = [parent |-> p, child |-> c]]
        /\ UNCHANGED <<composite, liveRole, heldRole, memberOf, groupRole, liveGroup, overlapped>>

\* INSERT ... ON CONFLICT DO NOTHING.
InsertInclusion(a) ==
    /\ adding[a] # NotAdding
    /\ composite' = composite \cup {<<adding[a].parent, adding[a].child>>}
    /\ adding' = [adding EXCEPT ![a] = NotAdding]
    /\ overlapped' = (overlapped \/ \E b \in RoleAdmin \ {a} : adding[b] # NotAdding)
    /\ UNCHANGED <<liveRole, heldRole, memberOf, groupRole, liveGroup>>

\* The connection is lost between the two statements.
AbandonInclusion(a) ==
    /\ adding[a] # NotAdding
    /\ adding' = [adding EXCEPT ![a] = NotAdding]
    /\ UNCHANGED <<composite, liveRole, heldRole, memberOf, groupRole, liveGroup, overlapped>>

RemoveInclusion(e) ==
    /\ e \in composite
    /\ composite' = composite \ {e}
    /\ UNCHANGED <<liveRole, heldRole, memberOf, groupRole, liveGroup, adding, overlapped>>

\* delete_role: the inclusions and the assignments of the role stay.
DeleteRole(r) ==
    /\ r \in liveRole
    /\ liveRole' = liveRole \ {r}
    /\ UNCHANGED <<composite, heldRole, memberOf, groupRole, liveGroup, adding, overlapped>>

\* delete_group: its members and its roles stay.
DeleteGroup(g) ==
    /\ g \in liveGroup
    /\ liveGroup' = liveGroup \ {g}
    /\ UNCHANGED <<composite, liveRole, heldRole, memberOf, groupRole, adding, overlapped>>

GiveRole(r) ==
    /\ \/ r \in liveRole /\ heldRole' = heldRole \cup {r}
       \/ heldRole' = heldRole \ {r}
    /\ UNCHANGED <<composite, liveRole, memberOf, groupRole, liveGroup, adding, overlapped>>

GiveGroup(g) ==
    /\ \/ g \in liveGroup /\ memberOf' = memberOf \cup {g}
       \/ memberOf' = memberOf \ {g}
    /\ UNCHANGED <<composite, liveRole, heldRole, groupRole, liveGroup, adding, overlapped>>

\* A role is assigned to a group that is found; an assignment is removed unseen.
GiveGroupRole(g, r) ==
    /\ \/ g \in liveGroup /\ r \in liveRole /\ groupRole' = groupRole \cup {<<g, r>>}
       \/ groupRole' = groupRole \ {<<g, r>>}
    /\ UNCHANGED <<composite, liveRole, heldRole, memberOf, liveGroup, adding, overlapped>>

-----------------------------------------------------------------------------
RoleInit ==
    /\ composite = {} /\ liveRole = Role /\ heldRole = {}
    /\ memberOf = {} /\ groupRole = {} /\ liveGroup = RoleGroup
    /\ adding = [a \in RoleAdmin |-> NotAdding]
    /\ overlapped = FALSE

RoleNext ==
    \/ \E a \in RoleAdmin : CheckInclusion(a) \/ InsertInclusion(a) \/ AbandonInclusion(a)
    \/ \E e \in composite : RemoveInclusion(e)
    \/ \E r \in Role : DeleteRole(r) \/ GiveRole(r)
    \/ \E g \in RoleGroup : DeleteGroup(g) \/ GiveGroup(g) \/ \E r \in Role : GiveGroupRole(g, r)

RoleSpec == RoleInit /\ [][RoleNext]_roleVars

-----------------------------------------------------------------------------
(* Properties.                                                             *)

\* "The console rejects a relationship that would make a role contain itself, including
\* indirect cycles": a cycle only comes from two additions that overlapped.
NoRoleContainsItself == overlapped \/ \A r \in Role : r \notin Closure(Children({r}))

\* Deleting a role or a group never changes the effective roles of a user by more than the
\* deleted role: what it includes, and what a deleted group gives, stays until the
\* inclusion or the assignment itself is removed.
DeletionSparesOthers ==
    [][liveRole' # liveRole \/ liveGroup' # liveGroup
          => Effective' = Effective \ (liveRole \ liveRole')]_roleVars
=============================================================================
