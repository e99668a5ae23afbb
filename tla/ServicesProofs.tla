---------------------------- MODULE ServicesProofs ----------------------------
(***************************************************************************)
(* Theorems about RoleGraph (the recursive query computes the roles that   *)
(* are reached, whatever the inclusions are, and no role contains itself   *)
(* unless two additions overlapped), about ApiKey (a request is            *)
(* authenticated only by a key that was good at one instant of it), and    *)
(* about the components together, as MCServices composes them.             *)
(***************************************************************************)
EXTENDS GrantProofs, AccountProofs, SignInProofs

-----------------------------------------------------------------------------
(* Induction over the rounds of the query, from the well-foundedness of <. *)

\* A set of numbers has a least one.
LEMMA Least ==
    ASSUME NEW T \in SUBSET Nat, T # {}
    PROVE  \E n \in T : \A m \in T : ~(m < n)
<1>1. IsWellFoundedOn(OpToRel(<, Nat), Nat)
  BY NatLessThanWellFounded
<1>2. \E n \in T : \A m \in T : <<m, n>> \notin OpToRel(<, Nat)
  BY <1>1, WFMin
<1>3. \A m, n \in Nat : m < n => <<m, n>> \in OpToRel(<, Nat)
  BY DEF OpToRel
<1> QED BY <1>2, <1>3

\* A set of naturals that holds 0 and every successor holds every natural: the order of
\* the naturals is well founded.
LEMMA SetInduction ==
    ASSUME NEW S, 0 \in S, \A n \in Nat : n \in S => n + 1 \in S
    PROVE  \A n \in Nat : n \in S
<1> SUFFICES ASSUME NEW k \in Nat, k \notin S PROVE FALSE
  OBVIOUS
<1>1. PICK T : T = {n \in Nat : n \notin S}
  OBVIOUS
<1>2. PICK n \in T : \A m \in T : ~(m < n)
  BY <1>1, Least
<1>3. n \in Nat /\ n # 0 /\ n \notin S
  BY <1>1, <1>2
<1>4. n - 1 \in Nat /\ n - 1 < n /\ (n - 1) + 1 = n
  BY <1>3
<1>5. n - 1 \notin S
  BY <1>3, <1>4
<1> QED BY <1>1, <1>2, <1>4, <1>5

-----------------------------------------------------------------------------
(* The query, for any relation between roles.                              *)

Included(E, s) == {e[2] : e \in {d \in E : d[1] \in s}}

\* g holds the rows after each of the first n rounds.
Rounds(g, E, s, n) ==
    g = [m \in 0..n |-> IF m = 0 THEN s ELSE g[m - 1] \cup Included(E, g[m - 1])]

Reached(E, s) == (CHOOSE g : Rounds(g, E, s, Cardinality(Role)))[Cardinality(Role)]

\* Closure and Children are these, for the inclusions there are now.
LEMMA QueryReaches ==
    /\ \A s : Children(s) = Included(composite, s) /\ Children(s)' = Included(composite', s)
    /\ \A s : Closure(s) = Reached(composite, s) /\ Closure(s)' = Reached(composite', s)
BY DEF Closure, Children, Included, Reached, Rounds

\* Any number of rounds can be made.
LEMMA RoundsExist == ASSUME NEW E, NEW s PROVE \A n \in Nat : \E g : Rounds(g, E, s, n)
<1>1. PICK S : S = {n \in Nat : \E g : Rounds(g, E, s, n)}
  OBVIOUS
<1>2. 0 \in S
  <2>1. PICK g : g = [m \in 0..0 |-> s]
    OBVIOUS
  <2>2. Rounds(g, E, s, 0)
    BY <2>1 DEF Rounds
  <2> QED BY <1>1, <2>2
<1>3. ASSUME NEW n \in Nat, n \in S PROVE n + 1 \in S
  <2>1. PICK g : Rounds(g, E, s, n)
    BY <1>1, <1>3
  <2>2. PICK h : h = [m \in 0..(n + 1) |-> IF m = n + 1 THEN g[n] \cup Included(E, g[n]) ELSE g[m]]
    OBVIOUS
  <2>3. \A m \in 0..n : h[m] = g[m]
    BY <2>2
  <2>4. ASSUME NEW m \in 0..(n + 1)
        PROVE  h[m] = IF m = 0 THEN s ELSE h[m - 1] \cup Included(E, h[m - 1])
    <3>1. CASE m = n + 1
      <4>1. h[m] = g[n] \cup Included(E, g[n]) /\ h[n] = g[n] /\ m - 1 = n /\ m # 0
        BY <2>2, <2>3, <3>1
      <4> QED BY <4>1
    <3>2. CASE m \in 0..n /\ m = 0
      BY <2>1, <2>3, <3>2 DEF Rounds
    <3>3. CASE m \in 1..n
      <4>1. /\ m \in 0..n /\ m - 1 \in 0..n /\ m # 0
        BY <3>3
      <4>2. g[m] = g[m - 1] \cup Included(E, g[m - 1])
        BY <2>1, <4>1 DEF Rounds
      <4> QED BY <2>3, <4>1, <4>2
    <3> QED BY <3>1, <3>2, <3>3
  <2>5. Rounds(h, E, s, n + 1)
    BY <2>2, <2>4 DEF Rounds
  <2> QED BY <1>1, <2>5
<1>4. \A n \in Nat : n \in S
  BY <1>2, <1>3, SetInduction
<1> QED BY <1>1, <1>4

\* The rounds of the query.
LEMMA TheRounds ==
    ASSUME NEW E, NEW s
    PROVE  \E g : /\ g[0] = s
                  /\ \A n \in Nat : n < Cardinality(Role) => g[n + 1] = g[n] \cup Included(E, g[n])
                  /\ Reached(E, s) = g[Cardinality(Role)]
<1>1. Cardinality(Role) \in Nat
  BY RoleAssumption, FS_CardinalityType
<1>2. PICK g : g = CHOOSE h : Rounds(h, E, s, Cardinality(Role))
  OBVIOUS
<1>3. Rounds(g, E, s, Cardinality(Role))
  BY <1>1, <1>2, RoundsExist
<1>4. g[0] = s
  BY <1>1, <1>3 DEF Rounds
<1>5. ASSUME NEW n \in Nat, n < Cardinality(Role) PROVE g[n + 1] = g[n] \cup Included(E, g[n])
  <2>1. n + 1 \in 0..Cardinality(Role) /\ n + 1 # 0 /\ (n + 1) - 1 = n
    BY <1>1, <1>5
  <2> QED BY <1>3, <2>1 DEF Rounds
<1> QED BY <1>2, <1>4, <1>5 DEF Reached

Stable(E, T) == Included(E, T) \subseteq T

\* What the query returns: the roles it starts from, nothing outside any set that holds
\* these and what its members include, and, as there are enough rounds, such a set itself.
THEOREM ReachedIsLeast ==
    ASSUME NEW E, E \subseteq Role \X Role, NEW s, s \subseteq Role
    PROVE  /\ s \subseteq Reached(E, s) /\ Stable(E, Reached(E, s)) /\ Reached(E, s) \subseteq Role
           /\ \A T : s \subseteq T /\ Stable(E, T) => Reached(E, s) \subseteq T
<1>1. Cardinality(Role) \in Nat /\ IsFiniteSet(Role)
  BY RoleAssumption, FS_CardinalityType
<1>2. PICK g : /\ g[0] = s
               /\ \A n \in Nat : n < Cardinality(Role) => g[n + 1] = g[n] \cup Included(E, g[n])
               /\ Reached(E, s) = g[Cardinality(Role)]
  BY TheRounds
<1>3. \A T : Included(E, T) \subseteq Role
  BY DEF Included
<1>4. PICK S : S = {n \in Nat : n <= Cardinality(Role) =>
                       /\ s \subseteq g[n] /\ g[n] \subseteq Role
                       /\ \A T : s \subseteq T /\ Stable(E, T) => g[n] \subseteq T
                       /\ Stable(E, g[n]) \/ n <= Cardinality(g[n])}
  OBVIOUS
<1>5. 0 \in S
  <2>1. Cardinality(g[0]) \in Nat
    BY <1>1, <1>2, FS_Subset, FS_CardinalityType
  <2> QED BY <1>2, <1>4, <2>1
<1>6. ASSUME NEW n \in Nat, n \in S PROVE n + 1 \in S
  <2> SUFFICES ASSUME n + 1 <= Cardinality(Role)
               PROVE  /\ s \subseteq g[n + 1] /\ g[n + 1] \subseteq Role
                      /\ \A T : s \subseteq T /\ Stable(E, T) => g[n + 1] \subseteq T
                      /\ Stable(E, g[n + 1]) \/ n + 1 <= Cardinality(g[n + 1])
    BY <1>4, <1>6
  <2>1. n <= Cardinality(Role) /\ n < Cardinality(Role)
    BY <1>1
  <2>2. /\ s \subseteq g[n] /\ g[n] \subseteq Role
        /\ \A T : s \subseteq T /\ Stable(E, T) => g[n] \subseteq T
        /\ Stable(E, g[n]) \/ n <= Cardinality(g[n])
    BY <1>4, <1>6, <2>1
  <2>3. PICK A, B : A = g[n] /\ B = g[n + 1]
    OBVIOUS
  <2>4. B = A \cup Included(E, A)
    BY <1>2, <2>1, <2>3
  <2>5. s \subseteq B /\ B \subseteq Role
    BY <1>3, <2>2, <2>3, <2>4
  <2>6. ASSUME NEW T, s \subseteq T, Stable(E, T) PROVE B \subseteq T
    <3>1. A \subseteq T
      BY <2>2, <2>3, <2>6
    <3>2. Included(E, A) \subseteq Included(E, T)
      BY <3>1 DEF Included
    <3> QED BY <2>4, <2>6, <3>1, <3>2 DEF Stable
  <2>7. Stable(E, B) \/ n + 1 <= Cardinality(B)
    <3>1. CASE Stable(E, A)
      <4>1. B = A
        BY <2>4, <3>1 DEF Stable
      <4> QED BY <3>1, <4>1
    <3>2. CASE ~Stable(E, A)
      <4>1. A \in SUBSET B /\ A # B
        BY <2>4, <3>2 DEF Stable
      <4>2. IsFiniteSet(B)
        BY <1>1, <2>5, FS_Subset
      <4>3. IsFiniteSet(A) /\ Cardinality(A) <= Cardinality(B) /\ Cardinality(A) # Cardinality(B)
        BY <4>1, <4>2, FS_Subset
      <4>4. Cardinality(A) \in Nat /\ Cardinality(B) \in Nat
        BY <4>2, <4>3, FS_CardinalityType
      <4>5. n <= Cardinality(A)
        BY <2>2, <2>3, <3>2
      <4> QED BY <4>3, <4>4, <4>5
    <3> QED BY <3>1, <3>2
  <2> QED BY <2>3, <2>5, <2>6, <2>7
<1>7. Cardinality(Role) \in S
  BY <1>1, <1>5, <1>6, SetInduction
<1>8. PICK R : R = Reached(E, s)
  OBVIOUS
<1>9. /\ s \subseteq R /\ R \subseteq Role
      /\ \A T : s \subseteq T /\ Stable(E, T) => R \subseteq T
      /\ Stable(E, R) \/ Cardinality(Role) <= Cardinality(R)
  BY <1>1, <1>2, <1>4, <1>7, <1>8
<1>10. Stable(E, R)
  <2>1. CASE Cardinality(Role) <= Cardinality(R)
    <3>1. IsFiniteSet(R) /\ Cardinality(R) <= Cardinality(Role)
          /\ (Cardinality(Role) = Cardinality(R) => Role = R)
      BY <1>1, <1>9, FS_Subset
    <3>2. Cardinality(R) \in Nat
      BY <3>1, FS_CardinalityType
    <3>3. Role = R
      BY <1>1, <2>1, <3>1, <3>2
    <3> QED BY <1>3, <3>3 DEF Stable
  <2> QED BY <1>9, <2>1
<1> QED BY <1>8, <1>9, <1>10

\* The roles that r includes, however many steps away.
Below(E, r) == Reached(E, Included(E, {r}))

\* The rows of the recursive query on the edges are the least closed set.
LEMMA BelowIsLeast ==
    ASSUME NEW E, E \subseteq Role \X Role, NEW r
    PROVE  /\ Included(E, {r}) \subseteq Below(E, r) /\ Stable(E, Below(E, r))
           /\ \A T : Included(E, {r}) \subseteq T /\ Stable(E, T) => Below(E, r) \subseteq T
<1>1. Included(E, {r}) \subseteq Role
  BY DEF Included
<1>2. /\ Included(E, {r}) \subseteq Reached(E, Included(E, {r}))
      /\ Stable(E, Reached(E, Included(E, {r})))
      /\ \A T : Included(E, {r}) \subseteq T /\ Stable(E, T)
                  => Reached(E, Included(E, {r})) \subseteq T
  BY <1>1, ReachedIsLeast
<1> QED BY <1>2 DEF Below

Acyclic(E) == \A r \in Role : r \notin Below(E, r)

\* Fewer inclusions reach fewer roles.
LEMMA BelowShrinks ==
    ASSUME NEW E, E \subseteq Role \X Role, NEW D, D \subseteq E, NEW r
    PROVE  Below(D, r) \subseteq Below(E, r)
<1>1. \A s : Included(D, s) \subseteq Included(E, s)
  BY DEF Included
<1>2. /\ Included(E, {r}) \subseteq Below(E, r) /\ Stable(E, Below(E, r))
  BY BelowIsLeast
<1>3. Included(D, {r}) \subseteq Below(E, r) /\ Stable(D, Below(E, r))
  BY <1>1, <1>2 DEF Stable
<1>4. D \subseteq Role \X Role
  OBVIOUS
<1> QED BY <1>3, <1>4, BelowIsLeast

\* An inclusion whose parent is not below its child closes no cycle.
LEMMA NoNewCycle ==
    ASSUME NEW E, E \subseteq Role \X Role, Acyclic(E), NEW p \in Role, NEW c \in Role,
           p # c, p \notin Below(E, c)
    PROVE  Acyclic(E \cup {<<p, c>>})
<1>1. PICK D : D = E \cup {<<p, c>>}
  OBVIOUS
<1>2. D \subseteq Role \X Role
  BY <1>1
<1>3. PICK C : C = {c} \cup Below(E, c)
  OBVIOUS
<1>4. Included(E, {c}) \subseteq Below(E, c) /\ Stable(E, Below(E, c))
  BY BelowIsLeast
<1>5. Stable(E, C) /\ p \notin C /\ c \in C
  BY <1>3, <1>4 DEF Stable, Included
<1>6. \A T : Stable(E, T) /\ (p \in T => c \in T) => Stable(D, T)
  BY <1>1 DEF Stable, Included
<1>7. ASSUME NEW r
      PROVE  /\ Included(D, {r}) \subseteq Included(E, {r}) \cup {c}
             /\ r # p => Included(D, {r}) \subseteq Included(E, {r})
  BY <1>1 DEF Included
<1>8. ASSUME NEW r \in Role PROVE r \notin Below(D, r)
  <2>1. Included(E, {r}) \subseteq Below(E, r) /\ Stable(E, Below(E, r)) /\ r \notin Below(E, r)
    BY <1>8, BelowIsLeast DEF Acyclic
  <2>2. CASE r \in C
    <3>1. Included(E, {r}) \subseteq C
      BY <1>5, <2>2 DEF Stable, Included
    <3>2. Below(E, r) \subseteq C
      BY <1>5, <3>1, BelowIsLeast
    <3>3. Stable(D, Below(E, r)) /\ r # p
      BY <1>5, <1>6, <2>1, <2>2, <3>2
    <3>4. Included(D, {r}) \subseteq Below(E, r)
      BY <1>7, <2>1, <3>3
    <3> QED BY <1>2, <2>1, <3>3, <3>4, BelowIsLeast
  <2>3. CASE r \notin C
    <3>1. PICK T : T = Below(E, r) \cup C
      OBVIOUS
    <3>2. Stable(E, T)
      BY <1>5, <2>1, <3>1 DEF Stable, Included
    <3>3. Stable(D, T) /\ Included(D, {r}) \subseteq T /\ r \notin T
      BY <1>5, <1>6, <1>7, <2>1, <2>3, <3>1, <3>2
    <3> QED BY <1>2, <3>3, BelowIsLeast
  <2> QED BY <2>2, <2>3
<1> QED BY <1>1, <1>8 DEF Acyclic

-----------------------------------------------------------------------------
(* The system.                                                             *)

\* An administrator who is adding includes a role in a role.
AddsRoles(a) == adding[a] # NotAdding => adding[a].parent \in Role /\ adding[a].child \in Role

\* What was checked holds until somebody else inserts.
CheckedTrue(a) ==
    adding[a] # NotAdding =>
       /\ adding[a].parent # adding[a].child
       /\ adding[a].parent \notin Below(composite, adding[a].child)

RoleInv ==
    /\ RoleTypeOK /\ \A a \in RoleAdmin : AddsRoles(a)
    /\ overlapped \/ (Acyclic(composite) /\ \A a \in RoleAdmin : CheckedTrue(a))

\* The query of would_create_cycle, and the property, in these terms.
LEMMA CycleCheck ==
    /\ \A p, c : WouldCreateCycle(p, c) <=> p \in Below(composite, c)
    /\ NoRoleContainsItself <=> (overlapped \/ Acyclic(composite))
BY QueryReaches DEF WouldCreateCycle, NoRoleContainsItself, Below, Acyclic

\* Types, of what is stored and of what is being added.
LEMMA RoleTypesKept ==
    ASSUME RoleTypeOK, \A a \in RoleAdmin : AddsRoles(a), [RoleNext]_roleVars
    PROVE  RoleTypeOK' /\ \A a \in RoleAdmin : AddsRoles(a)'
<1> PICK Pair : Pair = [parent : Role \cup {NoRole}, child : Role \cup {NoRole}]
  OBVIOUS
<1>1. NotAdding \in Pair /\ \A p, c \in Role : [parent |-> p, child |-> c] \in Pair
  BY DEF NotAdding
<1>t. adding \in [RoleAdmin -> Pair]
  BY DEF RoleTypeOK
<1>2. ASSUME NEW a \in RoleAdmin, NEW x \in Pair, adding' = [adding EXCEPT ![a] = x],
             x # NotAdding => x.parent \in Role /\ x.child \in Role
      PROVE  adding' \in [RoleAdmin -> Pair] /\ \A b \in RoleAdmin : AddsRoles(b)'
  BY <1>t, <1>2 DEF AddsRoles
<1>3. ASSUME NEW a \in RoleAdmin, CheckInclusion(a)
      PROVE  RoleTypeOK' /\ \A b \in RoleAdmin : AddsRoles(b)'
  <2>1. PICK p \in Role, c \in Role : adding' = [adding EXCEPT ![a] = [parent |-> p, child |-> c]]
    BY <1>3 DEF CheckInclusion, RoleTypeOK
  <2>2. PICK x \in Pair : x = [parent |-> p, child |-> c]
    BY <1>1
  <2>3. adding' \in [RoleAdmin -> Pair] /\ \A b \in RoleAdmin : AddsRoles(b)'
    BY <1>2, <2>1, <2>2
  <2> QED BY <1>3, <2>3 DEF CheckInclusion, RoleTypeOK
<1>4. ASSUME NEW a \in RoleAdmin, InsertInclusion(a) \/ AbandonInclusion(a)
      PROVE  RoleTypeOK' /\ \A b \in RoleAdmin : AddsRoles(b)'
  <2>1. adding' = [adding EXCEPT ![a] = NotAdding]
    BY <1>4 DEF InsertInclusion, AbandonInclusion
  <2>2. adding' \in [RoleAdmin -> Pair] /\ \A b \in RoleAdmin : AddsRoles(b)'
    BY <1>1, <1>2, <2>1
  <2>3. composite' \subseteq Role \X Role
    BY <1>4 DEF InsertInclusion, AbandonInclusion, RoleTypeOK, AddsRoles
  <2>4. overlapped' \in BOOLEAN
    BY <1>4 DEF InsertInclusion, AbandonInclusion, RoleTypeOK
  <2> QED BY <1>4, <2>2, <2>3, <2>4 DEF InsertInclusion, AbandonInclusion, RoleTypeOK
<1>5. ASSUME \/ \E e \in composite : RemoveInclusion(e)
             \/ \E r \in Role : DeleteRole(r) \/ GiveRole(r)
             \/ \E g \in RoleGroup :
                   DeleteGroup(g) \/ GiveGroup(g) \/ \E r \in Role : GiveGroupRole(g, r)
             \/ UNCHANGED roleVars
      PROVE  RoleTypeOK' /\ \A b \in RoleAdmin : AddsRoles(b)'
  <2>1. UNCHANGED <<adding, overlapped>>
    BY <1>5 DEF RemoveInclusion, DeleteRole, GiveRole, DeleteGroup, GiveGroup, GiveGroupRole,
                roleVars
  <2>2. \A b \in RoleAdmin : AddsRoles(b)'
    BY <2>1 DEF AddsRoles
  <2>3. /\ composite' \subseteq Role \X Role
        /\ liveRole' \subseteq Role /\ heldRole' \subseteq Role
        /\ memberOf' \subseteq RoleGroup /\ liveGroup' \subseteq RoleGroup
        /\ groupRole' \subseteq RoleGroup \X Role
    BY <1>5 DEF RemoveInclusion, DeleteRole, GiveRole, DeleteGroup, GiveGroup, GiveGroupRole,
                roleVars, RoleTypeOK
  <2> QED BY <2>1, <2>2, <2>3 DEF RoleTypeOK
<1> QED BY <1>3, <1>4, <1>5 DEF RoleNext

\* Inclusions: an insertion closes no cycle, a removal none.
LEMMA InclusionsKept ==
    ASSUME RoleInv, [RoleNext]_roleVars
    PROVE  overlapped' \/ (Acyclic(composite)' /\ \A a \in RoleAdmin : CheckedTrue(a)')
<1> SUFFICES ASSUME ~overlapped'
             PROVE  Acyclic(composite)' /\ \A a \in RoleAdmin : CheckedTrue(a)'
  OBVIOUS
<1>t. composite \subseteq Role \X Role /\ DOMAIN adding = RoleAdmin
  BY DEF RoleInv, RoleTypeOK
<1>1. CASE UNCHANGED <<composite, adding, overlapped>>
  BY <1>1 DEF RoleInv, CheckedTrue
<1>2. ASSUME NEW a \in RoleAdmin, CheckInclusion(a)
      PROVE  Acyclic(composite)' /\ \A b \in RoleAdmin : CheckedTrue(b)'
  <2>1. PICK p, c : /\ p # c /\ ~WouldCreateCycle(p, c)
                    /\ adding' = [adding EXCEPT ![a] = [parent |-> p, child |-> c]]
    BY <1>2 DEF CheckInclusion
  <2>2. composite' = composite /\ overlapped' = overlapped
    BY <1>2 DEF CheckInclusion
  <2>3. p \notin Below(composite, c)
    BY <2>1, CycleCheck
  <2>4. ASSUME NEW b \in RoleAdmin PROVE CheckedTrue(b)'
    BY <1>t, <2>1, <2>2, <2>3, <2>4 DEF RoleInv, CheckedTrue
  <2> QED BY <2>2, <2>4 DEF RoleInv
<1>3. ASSUME NEW a \in RoleAdmin, InsertInclusion(a)
      PROVE  Acyclic(composite)' /\ \A b \in RoleAdmin : CheckedTrue(b)'
  <2>1. PICK p, c : p = adding[a].parent /\ c = adding[a].child
    OBVIOUS
  <2>2. /\ ~overlapped /\ adding[a] # NotAdding
        /\ \A b \in RoleAdmin \ {a} : adding[b] = NotAdding
        /\ composite' = composite \cup {<<p, c>>}
        /\ adding' = [adding EXCEPT ![a] = NotAdding]
    BY <1>3, <2>1 DEF InsertInclusion
  <2>3. Acyclic(composite) /\ p \in Role /\ c \in Role /\ p # c /\ p \notin Below(composite, c)
    BY <2>1, <2>2 DEF RoleInv, CheckedTrue, AddsRoles
  <2>4. Acyclic(composite \cup {<<p, c>>})
    BY <1>t, <2>3, NoNewCycle
  <2>5. Acyclic(composite)'
    BY <2>2, <2>4
  <2>6. ASSUME NEW b \in RoleAdmin PROVE CheckedTrue(b)'
    BY <1>t, <2>2, <2>6 DEF CheckedTrue, NotAdding
  <2> QED BY <2>5, <2>6
<1>4. ASSUME NEW a \in RoleAdmin, AbandonInclusion(a)
      PROVE  Acyclic(composite)' /\ \A b \in RoleAdmin : CheckedTrue(b)'
  <2>1. /\ composite' = composite /\ overlapped' = overlapped
        /\ adding' = [adding EXCEPT ![a] = NotAdding]
    BY <1>4 DEF AbandonInclusion
  <2>2. ASSUME NEW b \in RoleAdmin PROVE CheckedTrue(b)'
    BY <1>t, <2>1, <2>2 DEF RoleInv, CheckedTrue, NotAdding
  <2> QED BY <2>1, <2>2 DEF RoleInv
<1>5. ASSUME NEW e \in composite, RemoveInclusion(e)
      PROVE  Acyclic(composite)' /\ \A b \in RoleAdmin : CheckedTrue(b)'
  <2>1. composite' = composite \ {e} /\ UNCHANGED <<adding, overlapped>>
    BY <1>5 DEF RemoveInclusion
  <2>2. \A r : Below(composite', r) \subseteq Below(composite, r)
    BY <1>t, <2>1, BelowShrinks
  <2>3. Acyclic(composite)'
    BY <2>1, <2>2 DEF RoleInv, Acyclic
  <2>4. ASSUME NEW b \in RoleAdmin PROVE CheckedTrue(b)'
    BY <2>1, <2>2, <2>4 DEF RoleInv, CheckedTrue
  <2> QED BY <2>3, <2>4
<1>6. /\ (\E r \in Role : DeleteRole(r) \/ GiveRole(r))
           \/ (\E g \in RoleGroup :
                 DeleteGroup(g) \/ GiveGroup(g) \/ \E r \in Role : GiveGroupRole(g, r))
         => UNCHANGED <<composite, adding, overlapped>>
      /\ UNCHANGED roleVars => UNCHANGED <<composite, adding, overlapped>>
  BY DEF DeleteRole, GiveRole, DeleteGroup, GiveGroup, GiveGroupRole, roleVars
<1> QED BY <1>1, <1>2, <1>3, <1>4, <1>5, <1>6 DEF RoleNext

\* The invariant of the roles.
THEOREM RoleInvariance == RoleSpec => []RoleInv
<1>1. RoleInit => RoleInv
  <2> SUFFICES ASSUME RoleInit PROVE RoleInv
    OBVIOUS
  <2>1. RoleTypeOK /\ \A a \in RoleAdmin : AddsRoles(a) /\ CheckedTrue(a)
    BY DEF RoleInit, RoleTypeOK, NotAdding, AddsRoles, CheckedTrue
  <2>2. composite = {}
    BY DEF RoleInit
  <2>3. Acyclic({})
    <3>1. \A r : Included({}, {r}) = {} /\ Stable({}, {})
      BY DEF Included, Stable
    <3>2. \A r : Below({}, r) = {}
      BY <3>1, BelowIsLeast
    <3> QED BY <3>2 DEF Acyclic
  <2> QED BY <2>1, <2>2, <2>3 DEF RoleInv
<1>2. RoleInv /\ [RoleNext]_roleVars => RoleInv'
  BY RoleTypesKept, InclusionsKept DEF RoleInv
<1> QED BY <1>1, <1>2, PTL DEF RoleSpec

\* add_role_composite lets no role contain itself, however long the chain of inclusions, but
\* for two additions that overlapped between the check and its INSERT.
THEOREM NoCycle == RoleSpec => [](RoleTypeOK /\ NoRoleContainsItself)
<1>1. RoleInv => RoleTypeOK /\ NoRoleContainsItself
  BY CycleCheck DEF RoleInv
<1> QED BY <1>1, RoleInvariance, PTL

\* delete_role and delete_group take from the effective roles of a user the deleted role and
\* nothing else: what it includes and what a deleted group gives stays.
THEOREM DeletionIsNarrow == RoleSpec => DeletionSparesOthers
<1>1. ASSUME [RoleNext]_roleVars, liveRole' # liveRole \/ liveGroup' # liveGroup
      PROVE  Effective' = Effective \ (liveRole \ liveRole')
  <2>1. /\ UNCHANGED <<composite, heldRole, memberOf, groupRole>>
        /\ liveRole' \subseteq liveRole
    BY <1>1 DEF RoleNext, CheckInclusion, InsertInclusion, AbandonInclusion, RemoveInclusion,
                DeleteRole, DeleteGroup, GiveRole, GiveGroup, GiveGroupRole, roleVars
  <2>2. PICK d : d = Direct
    OBVIOUS
  <2>3. Direct' = d
    BY <2>1, <2>2 DEF Direct
  <2>4. /\ Effective = Reached(composite, d) \cap liveRole
        /\ Effective' = Reached(composite', d) \cap liveRole'
    BY <2>2, <2>3, QueryReaches DEF Effective
  <2> QED BY <2>1, <2>4
<1>2. [RoleNext]_roleVars
        => [liveRole' # liveRole \/ liveGroup' # liveGroup
              => Effective' = Effective \ (liveRole \ liveRole')]_roleVars
  BY <1>1
<1> QED BY <1>2, PTL DEF RoleSpec, DeletionSparesOthers

-----------------------------------------------------------------------------
(* API keys: a request is authenticated only by a key that was good at one *)
(* instant of the request, for any number of keys and of requests.         *)

\* What a request under way may rely on: it has no answer yet, it names a row that exists
\* and stays, and its place tells what it was asked to do.
UnderWay(q) ==
    /\ keyJob[q].at # "done" => keyJob[q].answer = "none"
    /\ keyJob[q].at \in {"find", "check", "update", "generate"} =>
        /\ keyJob[q].key \in Key
        /\ key[keyJob[q].key].born
        /\ keyJob[q].op = "verify" <=> keyJob[q].at \in {"find", "check"}

\* Between the read and the comparison with the clock: the key was good when the row was
\* read, or the comparison will refuse it, because neither a grace period that has ended
\* nor an expiry comes back for the copy the request holds.
GoodOrRefused(q) ==
    keyJob[q].at = "check" =>
        \/ q \in wasGood
        \/ keyJob[q].grace = "past"
        \/ key[keyJob[q].key].expires = "past"

\* A request that has not been answered has nothing to justify.
KeyAnswered(q) ==
    keyJob[q].op = "verify" /\ keyJob[q].answer = "ok" => q \in wasGood

KeyInv ==
    /\ KeyTypeOK
    /\ \A q \in KeyRequest : UnderWay(q) /\ GoodOrRefused(q) /\ KeyAnswered(q)

-----------------------------------------------------------------------------
\* The invariant holds before the first request.
LEMMA KeyInvInit == KeyInit => KeyInv
BY KeyAssumption
   DEF KeyInit, KeyInv, KeyTypeOK, KeyRow, KeyJob, KeyAge, UnbornKey, IdleKeyJob, UnderWay,
       GoodOrRefused, KeyAnswered

\* What has been noted stays noted, and only requests are noted.
LEMMA NotedStays ==
    ASSUME KeyTypeOK, NoteGoodKeys
    PROVE  wasGood \subseteq wasGood' /\ wasGood' \subseteq KeyRequest
BY DEF KeyTypeOK, NoteGoodKeys

\* A step that changes no request keeps the invariant when every row that exists goes on
\* existing, and none that exists loses an expiry that has passed.
LEMMA RowsChange ==
    ASSUME KeyInv, NoteGoodKeys, UNCHANGED keyJob, key' \in [Key -> KeyRow],
           \A k \in Key : key[k].born => /\ key'[k].born
                                         /\ key[k].expires = "past" => key'[k].expires = "past"
    PROVE  KeyInv'
<1>1. KeyTypeOK'
  BY NotedStays DEF KeyInv, KeyTypeOK
<1>2. ASSUME NEW q \in KeyRequest PROVE (UnderWay(q) /\ GoodOrRefused(q) /\ KeyAnswered(q))'
  BY NotedStays DEF KeyInv, UnderWay, GoodOrRefused, KeyAnswered
<1> QED BY <1>1, <1>2 DEF KeyInv

\* A step of one request, on rows that change as above, keeps the invariant when it keeps
\* it for that request.
LEMMA RequestSteps ==
    ASSUME KeyInv, NoteGoodKeys, NEW q \in KeyRequest, NEW j \in KeyJob,
           keyJob' = [keyJob EXCEPT ![q] = j], key' \in [Key -> KeyRow],
           \A k \in Key : key[k].born => /\ key'[k].born
                                         /\ key[k].expires = "past" => key'[k].expires = "past",
           (UnderWay(q) /\ GoodOrRefused(q) /\ KeyAnswered(q))'
    PROVE  KeyInv'
<1>1. KeyTypeOK'
  BY NotedStays DEF KeyInv, KeyTypeOK
<1>2. ASSUME NEW r \in KeyRequest, r # q PROVE (UnderWay(r) /\ GoodOrRefused(r) /\ KeyAnswered(r))'
  <2>1. keyJob'[r] = keyJob[r]
    BY <1>2 DEF KeyInv, KeyTypeOK
  <2> QED BY <2>1, NotedStays DEF KeyInv, UnderWay, GoodOrRefused, KeyAnswered
<1> QED BY <1>1, <1>2 DEF KeyInv

\* An answer other than the success of an authentication ends a request harmlessly.
LEMMA EndsHarmlessly ==
    ASSUME KeyInv, NoteGoodKeys, NEW q \in KeyRequest, NEW answer \in {"ok", "error"},
           EndKeyJob(q, answer), key' \in [Key -> KeyRow],
           \A k \in Key : key[k].born => /\ key'[k].born
                                         /\ key[k].expires = "past" => key'[k].expires = "past",
           answer = "ok" /\ keyJob[q].op = "verify" => q \in wasGood
    PROVE  KeyInv'
<1> DEFINE j == [IdleKeyJob EXCEPT !.op = keyJob[q].op, !.at = "done", !.answer = answer]
<1>1. j \in KeyJob /\ j.at = "done" /\ j.op = keyJob[q].op /\ j.answer = answer
  <2>1. keyJob[q].op \in {"verify", "revoke", "rotate"}
    BY DEF KeyJob, KeyInv, KeyTypeOK
  <2>2. IdleKeyJob \in KeyJob
    BY DEF IdleKeyJob, KeyJob, KeyAge
  <2> QED BY <2>1, <2>2 DEF KeyJob
<1>2. keyJob' = [keyJob EXCEPT ![q] = j]
  BY DEF EndKeyJob
<1>3. keyJob'[q] = j
  BY <1>2 DEF KeyInv, KeyTypeOK
<1>4. (UnderWay(q) /\ GoodOrRefused(q) /\ KeyAnswered(q))'
  BY <1>1, <1>3, NotedStays DEF KeyInv, UnderWay, GoodOrRefused, KeyAnswered
<1> QED BY <1>1, <1>2, <1>4, RequestSteps

\* A new row takes the place of none that exists.
LEMMA MintAddsARow ==
    ASSUME KeyTypeOK, NEW k \in Key, NEW expires \in KeyAge, Mint(k, expires)
    PROVE  /\ key' \in [Key -> KeyRow]
           /\ \A r \in Key : key[r].born => key'[r] = key[r]
BY DEF KeyTypeOK, Mint, KeyRow, KeyAge

-----------------------------------------------------------------------------
\* Every step keeps the invariant.
LEMMA KeyInvNext == KeyInv /\ [KeyNext]_keyVars => KeyInv'
<1> SUFFICES ASSUME KeyInv, [KeyNext]_keyVars PROVE KeyInv'
  OBVIOUS
<1> USE DEF KeyInv
<1>1. ASSUME NEW k \in Key, CreateKey(k) PROVE KeyInv'
  <2>1. PICK expires \in {"never", "ahead"} : Mint(k, expires)
    BY <1>1 DEF CreateKey
  <2> QED BY <1>1, <2>1, MintAddsARow, RowsChange DEF CreateKey, KeyAge
<1>2. ASSUME NEW k \in Key, ExpireKey(k) PROVE KeyInv'
  <2>1. /\ key' \in [Key -> KeyRow]
        /\ \A r \in Key : key[r].born => /\ key'[r].born
                                         /\ key[r].expires = "past" => key'[r].expires = "past"
    BY <1>2 DEF ExpireKey, KeyTypeOK, KeyRow, KeyAge
  <2> QED BY <1>2, <2>1, RowsChange DEF ExpireKey
<1>3. ASSUME NEW k \in Key, GraceEnds(k) PROVE KeyInv'
  <2>1. /\ key' \in [Key -> KeyRow]
        /\ \A r \in Key : key'[r].born = key[r].born /\ key'[r].expires = key[r].expires
    BY <1>3 DEF GraceEnds, KeyTypeOK, KeyRow, KeyAge
  <2>2. ASSUME NEW q \in KeyRequest
        PROVE  /\ keyJob'[q] \in KeyJob
               /\ keyJob'[q].op = keyJob[q].op /\ keyJob'[q].at = keyJob[q].at
               /\ keyJob'[q].key = keyJob[q].key /\ keyJob'[q].answer = keyJob[q].answer
               /\ keyJob[q].grace = "past" => keyJob'[q].grace = "past"
    BY <1>3 DEF GraceEnds, KeyTypeOK, KeyJob, KeyAge
  <2>3. KeyTypeOK'
    <3>1. keyJob' \in [KeyRequest -> KeyJob]
      BY <1>3, <2>2 DEF GraceEnds
    <3> QED BY <1>3, <2>1, <3>1, NotedStays DEF GraceEnds, KeyTypeOK
  <2>4. ASSUME NEW q \in KeyRequest PROVE (UnderWay(q) /\ GoodOrRefused(q) /\ KeyAnswered(q))'
    BY <1>3, <2>1, <2>2, NotedStays DEF GraceEnds, UnderWay, GoodOrRefused, KeyAnswered
  <2> QED BY <2>3, <2>4
<1>4. ASSUME NEW q \in KeyRequest, Arrive(q) PROVE KeyInv'
  <2>1. PICK k \in Key, op \in {"verify", "revoke", "rotate"} :
           /\ key[k].born
           /\ keyJob' = [keyJob EXCEPT ![q].op = op, ![q].key = k,
                           ![q].at = IF op = "verify" THEN "find" ELSE "update"]
    BY <1>4 DEF Arrive
  <2> DEFINE j == [keyJob[q] EXCEPT !.op = op, !.key = k,
                                    !.at = IF op = "verify" THEN "find" ELSE "update"]
  <2>2. keyJob' = [keyJob EXCEPT ![q] = j] /\ j \in KeyJob /\ keyJob'[q] = j
    BY <2>1 DEF KeyTypeOK, KeyJob
  <2>3. /\ j.op = op /\ j.key = k /\ j.answer = keyJob[q].answer
        /\ j.at = IF op = "verify" THEN "find" ELSE "update"
    BY DEF KeyTypeOK, KeyJob
  <2>4. keyJob[q].answer = "none"
    BY <1>4 DEF Arrive, UnderWay
  <2> HIDE DEF j
  <2>5. (UnderWay(q) /\ GoodOrRefused(q) /\ KeyAnswered(q))'
    BY <1>4, <2>1, <2>2, <2>3, <2>4 DEF Arrive, UnderWay, GoodOrRefused, KeyAnswered
  <2> QED BY <1>4, <2>2, <2>5, RequestSteps DEF Arrive, KeyTypeOK
<1>5. ASSUME NEW q \in KeyRequest, FindKey(q) PROVE KeyInv'
  <2> DEFINE k == keyJob[q].key
  <2>1. CASE ~FoundByPrefix(k)
    BY <1>5, <2>1, EndsHarmlessly DEF FindKey, KeyTypeOK
  <2>2. CASE FoundByPrefix(k)
    <3> DEFINE j == [keyJob[q] EXCEPT !.at = "check", !.grace = key[k].grace]
    <3>1. k \in Key /\ key[k].born /\ keyJob[q].answer = "none" /\ keyJob[q].op = "verify"
      BY <1>5 DEF FindKey, UnderWay
    <3>2. /\ keyJob' = [keyJob EXCEPT ![q] = j] /\ j \in KeyJob /\ keyJob'[q] = j
          /\ j.at = "check" /\ j.grace = key[k].grace
          /\ j.key = k /\ j.op = "verify" /\ j.answer = "none"
      BY <1>5, <2>2, <3>1 DEF FindKey, KeyTypeOK, KeyJob, KeyRow
    <3>3. key[k].grace # "past" => q \in wasGood'
      BY <1>5, <2>2, <3>2 DEF FindKey, NoteGoodKeys, IsGood, FoundByPrefix
    <3>4. (UnderWay(q) /\ GoodOrRefused(q) /\ KeyAnswered(q))'
      BY <1>5, <3>1, <3>2, <3>3 DEF FindKey, UnderWay, GoodOrRefused, KeyAnswered
    <3> QED BY <1>5, <3>2, <3>4, RequestSteps DEF FindKey, KeyTypeOK
  <2> QED BY <2>1, <2>2
<1>6. ASSUME NEW q \in KeyRequest, CheckKey(q) PROVE KeyInv'
  <2> DEFINE good == key[keyJob[q].key].expires # "past" /\ keyJob[q].grace # "past"
  <2>1. EndKeyJob(q, IF good THEN "ok" ELSE "error") /\ UNCHANGED key /\ NoteGoodKeys
    BY <1>6 DEF CheckKey
  <2>2. good => q \in wasGood
    BY <1>6 DEF CheckKey, GoodOrRefused
  <2> QED BY <2>1, <2>2, EndsHarmlessly DEF KeyTypeOK
<1>7. ASSUME NEW q \in KeyRequest, RevokeKey(q) PROVE KeyInv'
  <2>1. /\ key' \in [Key -> KeyRow]
        /\ \A r \in Key : key'[r].born = key[r].born /\ key'[r].expires = key[r].expires
    BY <1>7 DEF RevokeKey, KeyTypeOK, KeyRow
  <2>2. keyJob[q].op # "verify"
    BY <1>7 DEF RevokeKey
  <2> QED BY <1>7, <2>1, <2>2, EndsHarmlessly DEF RevokeKey
<1>8. ASSUME NEW q \in KeyRequest, MarkRotated(q) PROVE KeyInv'
  <2> DEFINE j == [keyJob[q] EXCEPT !.at = "generate"]
  <2>1. /\ key' \in [Key -> KeyRow]
        /\ \A r \in Key : key'[r].born = key[r].born /\ key'[r].expires = key[r].expires
    BY <1>8 DEF MarkRotated, KeyTypeOK, KeyRow, KeyAge
  <2>2. /\ keyJob' = [keyJob EXCEPT ![q] = j] /\ j \in KeyJob /\ keyJob'[q] = j
        /\ j.at = "generate" /\ j.key = keyJob[q].key /\ j.op = "rotate"
        /\ j.answer = keyJob[q].answer
    <3>1. keyJob' = [keyJob EXCEPT ![q] = j]
      BY <1>8 DEF MarkRotated
    <3>2. keyJob[q] \in KeyJob /\ keyJob[q].op = "rotate"
      BY <1>8 DEF MarkRotated, KeyTypeOK
    <3>3. /\ j \in KeyJob /\ j.at = "generate" /\ j.key = keyJob[q].key /\ j.op = "rotate"
          /\ j.answer = keyJob[q].answer
      BY <3>2 DEF KeyJob
    <3>4. keyJob'[q] = j
      BY <1>8, <3>1 DEF KeyTypeOK
    <3> QED BY <3>1, <3>3, <3>4
  <2>3. (UnderWay(q) /\ GoodOrRefused(q) /\ KeyAnswered(q))'
    BY <1>8, <2>1, <2>2 DEF MarkRotated, UnderWay, GoodOrRefused, KeyAnswered
  <2>4. NoteGoodKeys
    BY <1>8 DEF MarkRotated
  <2> HIDE DEF j
  <2> QED BY <2>1, <2>2, <2>3, <2>4, RequestSteps
<1>9. ASSUME NEW q \in KeyRequest, GenerateSuccessor(q) PROVE KeyInv'
  <2>1. PICK k \in Key : Mint(k, "never")
    BY <1>9 DEF GenerateSuccessor
  <2>2. keyJob[q].op # "verify"
    BY <1>9 DEF GenerateSuccessor, UnderWay
  <2> QED BY <1>9, <2>1, <2>2, MintAddsARow, EndsHarmlessly DEF GenerateSuccessor, KeyAge
<1>10. ASSUME NEW q \in KeyRequest, KeyRequestFails(q) PROVE KeyInv'
  BY <1>10, EndsHarmlessly DEF KeyRequestFails, KeyTypeOK
<1>11. CASE UNCHANGED keyVars
  BY <1>11 DEF keyVars, KeyTypeOK, UnderWay, GoodOrRefused, KeyAnswered
<1> QED
  BY <1>1, <1>2, <1>3, <1>4, <1>5, <1>6, <1>7, <1>8, <1>9, <1>10, <1>11 DEF KeyNext

-----------------------------------------------------------------------------
\* A request that verify_key lets in used a key that was unrevoked, unexpired and within
\* its grace period at one instant of the request, however rotations, revocations and the
\* clock fall between its read and its comparisons.
THEOREM AuthenticatedByAGoodKey == KeySpec => []KeyUseWasGood
<1>1. KeyInv => KeyUseWasGood
  BY DEF KeyInv, KeyAnswered, KeyUseWasGood
<1> QED BY KeyInvInit, KeyInvNext, <1>1, PTL DEF KeySpec

-----------------------------------------------------------------------------
(* The components together.                                                *)

\* The services start as each component starts, and every step of theirs is one of the
\* component in focus and leaves the others as they are.
LEMMA ServicesRefine ==
    /\ Init => /\ AccountInit /\ SignInInit /\ AuthzInit /\ DeviceInit /\ RoleInit
               /\ OrgInit /\ KeyInit /\ SocialInit /\ PermissionInit
    /\ [Next]_servicesVars =>
          /\ [AccountNext]_accountVars /\ [SignInNext]_mfaVars /\ [AuthzNext]_authzVars
          /\ [DeviceNext]_deviceVars /\ [RoleNext]_roleVars /\ [OrgNext]_orgVars
          /\ [KeyNext]_keyVars /\ [SocialNext]_socialVars /\ [PermissionNext]_permissionVars
<1>1. Init => /\ AccountInit /\ SignInInit /\ AuthzInit /\ DeviceInit /\ RoleInit
              /\ OrgInit /\ KeyInit /\ SocialInit /\ PermissionInit
  BY DEF Init
<1>2. ASSUME [Next]_servicesVars
      PROVE  /\ [AccountNext]_accountVars /\ [SignInNext]_mfaVars /\ [AuthzNext]_authzVars
             /\ [DeviceNext]_deviceVars /\ [RoleNext]_roleVars /\ [OrgNext]_orgVars
             /\ [KeyNext]_keyVars /\ [SocialNext]_socialVars
             /\ [PermissionNext]_permissionVars
  <2>1. CASE UNCHANGED servicesVars
    BY <2>1 DEF servicesVars
  <2>2. CASE Next
    <3>1. /\ focus # "account" => UNCHANGED accountVars
          /\ focus # "mfa" => UNCHANGED mfaVars
          /\ focus # "authz" => UNCHANGED authzVars
          /\ focus # "device" => UNCHANGED deviceVars
          /\ focus # "role" => UNCHANGED roleVars
          /\ focus # "org" => UNCHANGED orgVars
          /\ focus # "key" => UNCHANGED keyVars
          /\ focus # "social" => UNCHANGED socialVars
          /\ focus # "uma" => UNCHANGED permissionVars
      BY <2>2 DEF Next, Keep, Components
    <3>2. /\ focus = "account" => AccountSteps
          /\ focus = "mfa" => MfaSteps
          /\ focus = "authz" => AuthzSteps
          /\ focus = "device" => DeviceSteps
          /\ focus = "role" => RoleSteps
          /\ focus = "org" => OrgSteps
          /\ focus = "key" => KeySteps
          /\ focus = "social" => SocialSteps
          /\ focus = "uma" => UmaSteps
      BY <2>2 DEF Next
    <3> QED
      BY <3>1, <3>2 DEF AccountSteps, MfaSteps, AuthzSteps, DeviceSteps, RoleSteps, OrgSteps,
                        KeySteps, SocialSteps, UmaSteps
  <2> QED BY <1>2, <2>1, <2>2
<1> QED BY <1>1, <1>2

\* A behaviour of the services is one of each component.
THEOREM ServicesSpec ==
    Spec => /\ AccountSpec /\ SignInSpec /\ AuthzSpec /\ DeviceSpec /\ RoleSpec /\ OrgSpec
            /\ KeySpec /\ SocialSpec /\ PermissionSpec
BY ServicesRefine, PTL
   DEF Spec, AccountSpec, SignInSpec, AuthzSpec, DeviceSpec, RoleSpec, OrgSpec, KeySpec,
       SocialSpec, PermissionSpec

\* Where the components are together, an authorization code, a permission ticket and an
\* invitation are used at most once, by requests that overlap as well.
THEOREM ServicesUseOnce == Spec => []UsedAtMostOnce
<1>1. CodeIssuesOnce /\ TicketWorksOnce /\ InvitationUsedOnce => UsedAtMostOnce
  BY DEF UsedAtMostOnce
<1> QED BY <1>1, ServicesSpec, CodesOnce, TicketOnce, InvitationOnce, PTL

\* Where the components are together, a spent link, state, pushed request or device code is
\* refused to whoever comes after the use was answered.
THEOREM ServicesSpentRefused == Spec => []SpentIsRefused
<1>1. SpentLinkRefused /\ ConsumedStateRefused /\ SpentPushRefused /\ ExchangedDeviceRefused
      => SpentIsRefused
  BY DEF SpentIsRefused
<1> QED BY <1>1, ServicesSpec, SpentLinks, SpentStates, SpentPushes, SpentDevices, PTL

\* Where the components are together, an upgrade leaves one RPT, and a code follows an
\* approval.
THEOREM ServicesGrantWell == Spec => []UpgradeReplaces /\ CodeNeedsApproval
BY ServicesSpec, UpgradesReplace, AnswersAreApproved, PTL

\* The other promises of the components hold where they are together.
THEOREM ServicesKeepPromises ==
    Spec => /\ []VerifiedAddressWasProved /\ []MethodLeft /\ []FactorsUsedOnce
            /\ []SignInsComplete /\ []NoRoleContainsItself /\ []AccountsFollowOrganization
            /\ []SubjectHasOneAccount /\ []KeyUseWasGood
BY ServicesSpec, VerifiedAddress, MethodStays, FactorsOnce, SignInsHold, NoCycle,
   AccountsGoWithIt, OneAccount, AuthenticatedByAGoodKey, PTL

\* And the promises about their steps.
THEOREM ServicesKeepSteps ==
    Spec => DeletedForGood /\ SupersededCodesDead /\ DeletionSparesOthers
BY ServicesSpec, StaysDeleted, SupersededDead, DeletionIsNarrow, PTL

\* Every table of the services holds rows it may hold, and every request is at a place its
\* handler has, whatever component is in focus.
THEOREM ServicesTypes == Spec => []TypesOK
<1>1. /\ AccountInv => AccountTypeOK
      /\ MfaInv => MfaTypeOK
      /\ OrgInv => OrgTypeOK
      /\ KeyInv => KeyTypeOK
      /\ SocialInv => SocialTypeOK
  BY DEF AccountInv, MfaInv, PlacesInv, OrgInv, KeyInv, SocialInv
<1>2. /\ AccountTypeOK /\ MfaTypeOK /\ AuthzTypeOK /\ DeviceTypeOK /\ RoleTypeOK
      /\ OrgTypeOK /\ KeyTypeOK /\ SocialTypeOK /\ PermissionTypeOK
      => TypesOK
  BY DEF TypesOK
<1>3. KeySpec => []KeyInv
  BY KeyInvInit, KeyInvNext, PTL DEF KeySpec
<1> QED
  BY <1>1, <1>2, <1>3, ServicesSpec, AccountInvariance, MfaInvariance, AuthzTypes, SpentDevices,
     NoCycle, OrgInvariance, SocialInvariance, TicketOnce, PTL
=============================================================================
