---------------------- MODULE RefreshTokenFamilyProofs ----------------------
(***************************************************************************)
(* Theorems about RefreshTokenFamily for every set of requests, logins,    *)
(* clients and kinds of request, and every lifetime: the invariants, the   *)
(* refinement of RefreshTokenContract, and what a detected replay revokes. *)
(***************************************************************************)
EXTENDS RefreshTokenFamily, TLAPS

-----------------------------------------------------------------------------
(* The inductive invariant.                                                *)

\* A request that is not inside a transaction holds no lock and has no writes.
Outside == {"idle", "check", "rotate", "lookup", "done"}

NoTransaction ==
    \A r \in Request : pc[r] \in Outside =>
       tx[r] = NoWrites /\ todo[r] = {} /\ \A s \in Session : lock[s] # r

\* The flags are columns of rows; a row that exists, or is the parent of one, was
\* inserted by a request that is finished.
FlagsOfRows ==
    /\ revoked \subseteq rows /\ rotated \subseteq rows /\ reused \subseteq rows
    /\ familyRevoked \subseteq revoked
    /\ \A r \in Request :
          r \in rows \/ (\E s \in rows : row[s].parent = r) => pc[r] = "done"

\* Every row a transaction changes is locked by it, and exists.
WritesAreLocked ==
    \A r \in Request :
       \A s \in tx[r].rotate \cup tx[r].reuse \cup tx[r].revoke \cup tx[r].delete :
          lock[s] = r /\ s \in rows

\* The two writes of a rotation go together, and its old row is still current.
Rotating(r) ==
    /\ lock[Token(r)] = r
    /\ Presentable(Token(r)) /\ Token(r) \notin rotated
    /\ Kind(r) = "refresh"
    /\ tx[r].reuse = {} /\ tx[r].revoke = {} /\ tx[r].delete = {}

RotationIsWhole ==
    \A r \in Request :
       /\ pc[r] \in {"check", "rotate"} => Kind(r) = "refresh"
       /\ pc[r] = "issue" => Rotating(r) /\ tx[r] = NoWrites /\ todo[r] = {}
       /\ pc[r] # "write" => tx[r].insert = {} /\ tx[r].rotate = {}
       /\ tx[r].insert = {} <=> tx[r].rotate = {}
       /\ tx[r].insert # {} =>
            /\ Rotating(r) /\ todo[r] = {}
            /\ tx[r].insert = {r} /\ tx[r].rotate = {Token(r)}
            /\ row[r].parent = Token(r) /\ row[r].family = row[Token(r)].family

\* A row with a committed successor is rotated or deleted.
ParentsAreRotated ==
    \A s \in rows :
       /\ row[s].parent \in rows => row[s].parent \in rotated
       /\ s \in Root <=> row[s].parent = NoSession

IInv ==
    /\ TypeOK
    /\ NoTransaction /\ FlagsOfRows /\ WritesAreLocked
    /\ RotationIsWhole /\ ParentsAreRotated
    /\ OneSuccessor /\ OneCurrentRow

-----------------------------------------------------------------------------
(* Types.                                                                  *)

Writes == [insert : SUBSET Session, rotate : SUBSET Session, reuse : SUBSET Session,
           revoke : SUBSET Session, delete : SUBSET Session]

\* There is a login, the rows of logins are rows, and no writes are writes.
LEMMA RootRowsAreRows ==
    /\ AnyRoot \in Root
    /\ \A s \in Root : RootRow[s] \in Row
    /\ NoWrites \in Writes
    BY IdentityAssumption, RootAssumption DEF AnyRoot, NoWrites, Writes

\* The row a rotation creates is a row of the same family.
LEMMA SuccessorIsRow ==
    ASSUME TypeOK, NEW p \in Session, NEW idle \in IdlePolicies
    PROVE  /\ Successor(p, idle) \in Row
           /\ Successor(p, idle).parent = p
           /\ Successor(p, idle).family = row[p].family
<1>1. row[p] \in Row  BY DEF TypeOK
<1>2. row[p].offlineMax \in Nat /\ clock + idle \in Nat
    BY <1>1, BoundAssumption DEF TypeOK, Row
<1>3. Earlier(clock + idle, row[p].offlineMax) \in Nat
    BY <1>2 DEF Earlier
<1>4. clock + AccessLife \in Nat /\ clock + RefreshLife \in Nat
    BY BoundAssumption DEF TypeOK
<1> QED  BY <1>1, <1>3, <1>4 DEF Successor, Row

\* The type of what a request was called with and of its writes.
LEMMA CallTypes ==
    ASSUME TypeOK, NEW r \in Request
    PROVE  /\ r \in Session /\ Token(r) \in Session
           /\ Kind(r) \in AllKinds
           /\ row[Token(r)] \in Row
           /\ tx[r] \in Writes
    BY DEF TypeOK, Token, Kind, Call, Session, Writes

\* Ending a request keeps every variable in its type.
LEMMA FinishTypes ==
    ASSUME TypeOK, NEW r \in Request, NEW a \in {"ok", "ignored", "none", "error"}, Finish(r, a)
    PROVE  TypeOK'
    BY RootRowsAreRows DEF TypeOK, Finish, Release, Places, table, Writes

\* Every step keeps every variable in its type.
LEMMA NextTypes == TypeOK /\ [Next]_vars => TypeOK'
<1> SUFFICES ASSUME TypeOK, [Next]_vars PROVE TypeOK'
    OBVIOUS
<1>1. ASSUME NEW r \in Request, Start(r) PROVE TypeOK'
    BY <1>1 DEF TypeOK, Start, Places, table
<1>2. ASSUME NEW r \in Request, Step(r) PROVE TypeOK'
    <2>1. CASE RejectToken(r)  BY <2>1, FinishTypes DEF RejectToken
    <2>2. CASE RejectClient(r)  BY <2>2, FinishTypes DEF RejectClient
    <2>3. CASE CheckRevokes(r)
        <3>1. [tx[r] EXCEPT !.reuse = IF Expired(Token(r)) THEN {} ELSE {Token(r)}] \in Writes
            BY CallTypes DEF Writes
        <3> QED  BY <2>3, <3>1, CallTypes DEF TypeOK, CheckRevokes, Places, table, Writes
    <2>4. CASE CheckPasses(r)  BY <2>4 DEF TypeOK, CheckPasses, Places, table
    <2>5. CASE RotateRejects(r)  BY <2>5, FinishTypes DEF RotateRejects
    <2>6. CASE RotateLocks(r)
        BY <2>6 DEF TypeOK, RotateLocks, Places, table, Token, Call
    <2>7. CASE IssueDenied(r)  BY <2>7, FinishTypes DEF IssueDenied
    <2>8. CASE Issue(r)
        <3>1. row' \in [Session -> Row]
            BY <2>8, CallTypes, SuccessorIsRow DEF Issue, TypeOK
        <3>2. [tx[r] EXCEPT !.insert = {r}, !.rotate = {Token(r)}] \in Writes
            BY CallTypes DEF Writes
        <3>3. tx' = [tx EXCEPT ![r] = [tx[r] EXCEPT !.insert = {r}, !.rotate = {Token(r)}]]
            BY <2>8 DEF Issue, TypeOK
        <3> QED  BY <2>8, <3>1, <3>2, <3>3 DEF TypeOK, Issue, Places, table, Writes
    <2>9. CASE LookupNothing(r)  BY <2>9, FinishTypes DEF LookupNothing
    <2>10. CASE LookupFinds(r)
        BY <2>10, CallTypes, SMTT(30) DEF TypeOK, LookupFinds, Places, table
    <2>11. CASE BeginStatement(r)
        BY <2>11 DEF TypeOK, BeginStatement, Places, table
    <2>12. CASE UpdateRow(r)
        <3>1. PICK s \in todo[r] :
                 /\ todo' = [todo EXCEPT ![r] = @ \ {s}]
                 /\ lock' = [lock EXCEPT ![s] = r]
                 /\ tx' = IF ~Matches(r, s) THEN tx
                          ELSE IF Kind(r) = "cleanup" THEN [tx EXCEPT ![r].delete = @ \cup {s}]
                          ELSE [tx EXCEPT ![r].revoke = @ \cup {s}]
            BY <2>12 DEF UpdateRow
        <3>2. s \in Session  BY <3>1 DEF TypeOK
        <3>3. /\ [tx[r] EXCEPT !.delete = @ \cup {s}] \in Writes
              /\ [tx[r] EXCEPT !.revoke = @ \cup {s}] \in Writes
            BY <3>2, CallTypes DEF Writes
        <3>4. tx' \in [Request -> Writes]
            BY <3>1, <3>3 DEF TypeOK, Writes
        <3> QED  BY <2>12, <3>1, <3>2, <3>4 DEF TypeOK, UpdateRow, table, Writes
    <2>13. CASE Commit(r)
        BY <2>13, RootRowsAreRows DEF TypeOK, Commit, Release, Places, Answer, Writes
    <2> QED
        BY <1>2, <2>1, <2>2, <2>3, <2>4, <2>5, <2>6, <2>7, <2>8, <2>9, <2>10,
           <2>11, <2>12, <2>13 DEF Step
<1>3. ASSUME NEW r \in Request, Crash(r) PROVE TypeOK'
    BY <1>3, FinishTypes DEF Crash
<1>4. ASSUME NEW r \in Request, DeadlockVictim(r) PROVE TypeOK'
    BY <1>4, FinishTypes DEF DeadlockVictim
<1>5. CASE Tick
    BY <1>5 DEF TypeOK, Tick, table
<1>6. CASE UNCHANGED vars
    BY <1>6 DEF TypeOK, vars, table
<1> QED
    BY <1>1, <1>2, <1>3, <1>4, <1>5, <1>6 DEF Next

\* The initial state has the types.
LEMMA InitTypes == Init => TypeOK
    BY IdentityAssumption, RootAssumption, RootRowsAreRows
    DEF Init, TypeOK, Places, Call, AllKinds, Session, Row, Writes

\* Every reachable state is well typed.
THEOREM TypeCorrect == Spec => []TypeOK
<1>1. Init => TypeOK  BY InitTypes
<1>2. TypeOK /\ [Next]_vars => TypeOK'  BY NextTypes
<1> QED  BY <1>1, <1>2, PTL DEF Spec

-----------------------------------------------------------------------------
(* Preservation of the inductive invariant.  The part that concerns the    *)
(* committed rows is separate from the part about open transactions.       *)

Chain == ParentsAreRotated /\ OneSuccessor /\ OneCurrentRow

\* Only a commit changes the committed rows, and a rotation only names its parent
\* in a row that is not committed.
LEMMA ChainUnchanged ==
    ASSUME Chain, rows' = rows, rotated' = rotated,
           \A s \in rows : row'[s] = row[s]
    PROVE  Chain'
    BY DEF Chain, ParentsAreRotated, OneSuccessor, OneCurrentRow

\* Ending a request without a commit.
LEMMA FinishKeeps ==
    ASSUME IInv, NEW r \in Request, NEW a \in {"ok", "ignored", "none", "error"}, Finish(r, a)
    PROVE  IInv'
<1>1. TypeOK'  BY FinishTypes DEF IInv
<1>2. Chain'
    BY ChainUnchanged DEF IInv, Chain, Finish, table
<1>3. \A s \in Session : lock'[s] = IF lock[s] = r THEN Free ELSE lock[s]
    BY DEF Finish, Release
<1>4. /\ tx'[r] = NoWrites /\ todo'[r] = {} /\ pc'[r] = "done"
      /\ \A q \in Request \ {r} : tx'[q] = tx[q] /\ todo'[q] = todo[q] /\ pc'[q] = pc[q]
    BY DEF Finish, IInv, TypeOK
<1>5. NoTransaction'
    BY <1>3, <1>4, IdentityAssumption DEF IInv, NoTransaction, Outside
<1>6. FlagsOfRows'
    BY <1>4 DEF IInv, FlagsOfRows, Finish, table
<1>7. WritesAreLocked'
    <2> SUFFICES ASSUME NEW q \in Request,
                        NEW s \in tx'[q].rotate \cup tx'[q].reuse \cup tx'[q].revoke \cup tx'[q].delete
                 PROVE  lock'[s] = q /\ s \in rows'
        BY DEF WritesAreLocked
    <2>1. q # r  BY <1>4 DEF NoWrites
    <2>2. lock[s] = q /\ s \in rows  BY <1>4, <2>1 DEF IInv, WritesAreLocked
    <2> QED  BY <1>3, <2>1, <2>2 DEF Finish, table, IInv, TypeOK
<1>8. RotationIsWhole'
    <2>1. \A q \in Request \ {r} : Rotating(q) => Rotating(q)'
        BY <1>3, <1>4, CallTypes
        DEF IInv, Rotating, Finish, table, Presentable, Token, Kind
    <2> QED  BY <1>4, <2>1 DEF IInv, RotationIsWhole, Finish, NoWrites, Token, Kind
<1> QED  BY <1>1, <1>2, <1>5, <1>6, <1>7, <1>8 DEF IInv, Chain

\* A step that touches neither the rows, the locks nor the write sets.
LEMMA QuietStep ==
    ASSUME IInv, TypeOK', NEW r \in Request, UNCHANGED <<table, row, lock, tx>>,
           \A q \in Request \ {r} : pc'[q] = pc[q] /\ call'[q] = call[q] /\ todo'[q] = todo[q],
           pc[r] \in (Outside \ {"done"}) \cup {"statement"} /\ tx[r].insert = {},
           pc'[r] \in {"check", "rotate"} => call'[r].kind = "refresh",
           \/ pc'[r] \in Outside \ {"done"} /\ pc[r] \in Outside /\ todo'[r] = {}
           \/ pc'[r] \in {"statement", "write"}
    PROVE  IInv'
<1>1. Chain'
    BY ChainUnchanged DEF IInv, Chain, table
<1>2. NoTransaction'
    BY DEF IInv, NoTransaction, Outside
<1>3. FlagsOfRows' /\ WritesAreLocked'
    BY DEF IInv, FlagsOfRows, WritesAreLocked, Outside, table
<1>4. RotationIsWhole'
    <2>1. \A q \in Request \ {r} : Rotating(q) => Rotating(q)'
        BY DEF Rotating, table, Presentable, Token, Kind
    <2> QED  BY <2>1 DEF IInv, RotationIsWhole, Outside, Token, Kind
<1> QED  BY <1>1, <1>2, <1>3, <1>4 DEF IInv, Chain

\* A step that takes the lock of one row.
LEMMA LockKeeps ==
    ASSUME IInv, NEW r \in Request, NEW s \in Session, Unlocked(r, s),
           lock' = [lock EXCEPT ![s] = r]
    PROVE  /\ lock'[s] = r
           /\ \A t \in Session, q \in Request : lock[t] = q => lock'[t] = q
           /\ \A t \in Session, q \in Request \ {r} : lock'[t] = q => lock[t] = q
    BY IdentityAssumption DEF IInv, TypeOK, Unlocked

\* Taking the lock of the presented token, with or without marking it reused.
LEMMA TokenLockKeeps ==
    ASSUME IInv, TypeOK', NEW r \in Request, Checked(r), UNCHANGED <<table, row, call, todo>>,
           pc[r] \in {"check", "rotate", "lookup"},
           lock' = [lock EXCEPT ![Token(r)] = r],
           pc' = [pc EXCEPT ![r] = IF MayRotate(r) /\ pc[r] = "rotate" THEN "issue" ELSE "statement"],
           pc'[r] = "issue" => Kind(r) = "refresh" /\ tx' = tx,
           \/ tx' = tx
           \/ \E S \in SUBSET {Token(r)} : tx' = [tx EXCEPT ![r].reuse = S]
    PROVE  IInv'
<1>1. Chain'
    BY ChainUnchanged DEF IInv, Chain, table
<1>2. /\ lock'[Token(r)] = r
      /\ \A t \in Session, q \in Request : lock[t] = q => lock'[t] = q
      /\ \A t \in Session, q \in Request \ {r} : lock'[t] = q => lock[t] = q
    BY LockKeeps, CallTypes DEF IInv, Checked, Locks
<1>3. NoTransaction'
    BY <1>2 DEF IInv, NoTransaction, Outside, TypeOK
<1>4. FlagsOfRows'
    BY DEF IInv, FlagsOfRows, table, TypeOK
<1>5. tx[r] = NoWrites /\ todo[r] = {}
    BY DEF IInv, NoTransaction, Outside
<1>6. /\ \A q \in Request \ {r} : tx'[q] = tx[q] /\ pc'[q] = pc[q]
      /\ tx'[r].insert = {} /\ tx'[r].rotate = {} /\ tx'[r].revoke = {} /\ tx'[r].delete = {}
      /\ tx'[r].reuse \subseteq {Token(r)}
    <2>1. \A q \in Request \ {r} : tx'[q] = tx[q] /\ pc'[q] = pc[q]
        BY DEF IInv, TypeOK
    <2>2. CASE tx' = tx  BY <1>5, <2>1, <2>2 DEF NoWrites
    <2>3. CASE \E S \in SUBSET {Token(r)} : tx' = [tx EXCEPT ![r].reuse = S]
        <3>1. PICK S \in SUBSET {Token(r)} : tx' = [tx EXCEPT ![r].reuse = S]
            BY <2>3
        <3>2. tx'[r] = [NoWrites EXCEPT !.reuse = S]
            BY <1>5, <3>1 DEF IInv, TypeOK
        <3> QED  BY <2>1, <3>2 DEF NoWrites
    <2> QED  BY <2>2, <2>3
<1>7. WritesAreLocked'
    <2> SUFFICES ASSUME NEW q \in Request,
                        NEW s \in tx'[q].rotate \cup tx'[q].reuse \cup tx'[q].revoke \cup tx'[q].delete
                 PROVE  lock'[s] = q /\ s \in rows'
        BY DEF WritesAreLocked
    <2>1. CASE q = r
        BY <1>2, <1>6, <2>1 DEF table, Checked, Locks, Presentable
    <2>2. CASE q # r
        <3>1. lock[s] = q /\ s \in rows
            BY <1>6, <2>2 DEF IInv, WritesAreLocked
        <3> QED  BY <1>2, <3>1 DEF IInv, TypeOK, table
    <2> QED  BY <2>1, <2>2
<1>8. RotationIsWhole'
    <2>1. \A q \in Request \ {r} : Rotating(q) => Rotating(q)'
        BY <1>2, <1>6, CallTypes DEF IInv, Rotating, table, Presentable, Token, Kind
    <2>2. ASSUME pc'[r] = "issue" PROVE Rotating(r)' /\ tx'[r] = NoWrites /\ todo'[r] = {}
        <3>1. MayRotate(r) /\ Kind(r) = "refresh" /\ tx' = tx
            BY <2>2 DEF IInv, TypeOK
        <3>2. Presentable(Token(r))' /\ Token(r)' \notin rotated'
            BY <3>1 DEF table, Presentable, Token, MayRotate, Checked, Locks
        <3>3. Rotating(r)'
            BY <1>2, <1>5, <3>1, <3>2 DEF Rotating, Token, Kind, NoWrites
        <3> QED  BY <1>5, <3>1, <3>3
    <2> QED  BY <1>6, <2>1, <2>2 DEF IInv, TypeOK, RotationIsWhole, Token, Kind
<1> QED  BY <1>1, <1>3, <1>4, <1>7, <1>8 DEF IInv, Chain

\* The two writes of a rotation.
LEMMA IssueKeeps ==
    ASSUME IInv, TypeOK', NEW r \in Request, Issue(r)
    PROVE  IInv'
<1>1. PICK idle \in IdlePolicies : row' = [row EXCEPT ![r] = Successor(Token(r), idle)]
    BY DEF Issue
<1>2. /\ row'[r].parent = Token(r) /\ row'[r].family = row[Token(r)].family
      /\ \A s \in Session \ {r} : row'[s] = row[s]
    BY <1>1, CallTypes, SuccessorIsRow DEF IInv, TypeOK
<1>3. r \notin rows
    BY DEF IInv, FlagsOfRows, Issue
<1>4. /\ Rotating(r) /\ tx[r] = NoWrites /\ todo[r] = {}
      /\ Token(r) \in rows /\ Token(r) # r
    BY <1>3 DEF IInv, RotationIsWhole, Issue, Rotating, Presentable
<1>5. /\ tx'[r] = [NoWrites EXCEPT !.insert = {r}, !.rotate = {Token(r)}]
      /\ pc'[r] = "write"
      /\ \A q \in Request \ {r} : tx'[q] = tx[q] /\ pc'[q] = pc[q]
    BY <1>4 DEF Issue, IInv, TypeOK
<1>6. Chain'
    BY <1>2, <1>3, ChainUnchanged DEF IInv, TypeOK, Chain, Issue, table
<1>7. NoTransaction' /\ FlagsOfRows'
    BY <1>2, <1>3, <1>5 DEF IInv, TypeOK, NoTransaction, FlagsOfRows, Issue, Outside, table
<1>8. WritesAreLocked'
    <2>1. \A s \in tx'[r].rotate \cup tx'[r].reuse \cup tx'[r].revoke \cup tx'[r].delete :
             s = Token(r)
        BY <1>5 DEF NoWrites
    <2>2. lock[Token(r)] = r /\ Token(r) \in rows  BY <1>4 DEF Rotating
    <2>3. lock' = lock /\ rows' = rows  BY DEF Issue, table
    <2>4. ASSUME NEW q \in Request,
                 NEW s \in tx'[q].rotate \cup tx'[q].reuse \cup tx'[q].revoke \cup tx'[q].delete
          PROVE  lock[s] = q /\ s \in rows
        <3>1. CASE q = r  BY <2>1, <2>2, <2>4, <3>1
        <3>2. CASE q # r  BY <1>5, <2>4, <3>2 DEF IInv, WritesAreLocked
        <3> QED  BY <3>1, <3>2
    <2> QED  BY <2>3, <2>4 DEF WritesAreLocked
<1>9. RotationIsWhole'
    <2>1. ASSUME NEW q \in Request \ {r}, Rotating(q) PROVE Rotating(q)' /\ Token(q) # r
        <3>1. Token(q) # r /\ Token(q) \in Session
            BY <1>3, <2>1, CallTypes DEF Rotating, Presentable, IInv
        <3>2. row'[Token(q)] = row[Token(q)]  BY <1>2, <3>1
        <3> QED
            BY <1>5, <2>1, <3>1, <3>2 DEF Rotating, Issue, table, Presentable, Token, Kind
    <2>2. Rotating(r)'
        <3>1. row'[Token(r)] = row[Token(r)]  BY <1>2, <1>4, CallTypes DEF IInv
        <3>2. tx'[r].reuse = {} /\ tx'[r].revoke = {} /\ tx'[r].delete = {}
            BY <1>5 DEF NoWrites
        <3> QED
            BY <1>4, <3>1, <3>2 DEF Rotating, Issue, table, Presentable, Token, Kind
    <2>3. ASSUME NEW q \in Request \ {r}, tx[q].insert # {}
          PROVE  row'[q].parent = row[q].parent /\ row'[Token(q)] = row[Token(q)] /\ row'[q] = row[q]
        BY <1>2, <2>1, <2>3, CallTypes DEF IInv, RotationIsWhole
    <2>4. \A q \in Request : Token(q)' = Token(q) /\ Kind(q)' = Kind(q) /\ todo'[q] = todo[q]
        BY DEF Issue, Token, Kind
    <2>5. ASSUME NEW q \in Request \ {r}
          PROVE  /\ pc'[q] \in {"check", "rotate"} => Kind(q)' = "refresh"
                 /\ pc'[q] = "issue" => Rotating(q)' /\ tx'[q] = NoWrites /\ todo'[q] = {}
                 /\ pc'[q] # "write" => tx'[q].insert = {} /\ tx'[q].rotate = {}
                 /\ tx'[q].insert = {} <=> tx'[q].rotate = {}
                 /\ tx'[q].insert # {} =>
                      /\ Rotating(q)' /\ todo'[q] = {}
                      /\ tx'[q].insert = {q} /\ tx'[q].rotate = {Token(q)'}
                      /\ row'[q].parent = Token(q)' /\ row'[q].family = row'[Token(q)'].family
        BY <1>5, <2>1, <2>3, <2>4 DEF IInv, RotationIsWhole
    <2>6. /\ tx'[r].insert = {r} /\ tx'[r].rotate = {Token(r)'} /\ todo'[r] = {}
          /\ row'[r].parent = Token(r)' /\ row'[r].family = row'[Token(r)'].family
        BY <1>2, <1>4, <1>5, <2>4, CallTypes DEF NoWrites, IInv
    <2> QED  BY <1>5, <2>2, <2>5, <2>6 DEF RotationIsWhole
<1> QED  BY <1>6, <1>7, <1>8, <1>9 DEF IInv, Chain

\* One candidate row of a statement is locked and, if it still matches, written.
LEMMA UpdateRowKeeps ==
    ASSUME IInv, TypeOK', NEW r \in Request, UpdateRow(r)
    PROVE  IInv'
<1>1. PICK s \in todo[r] :
         /\ Unlocked(r, s)
         /\ todo' = [todo EXCEPT ![r] = @ \ {s}]
         /\ lock' = [lock EXCEPT ![s] = r]
         /\ tx' = IF ~Matches(r, s) THEN tx
                  ELSE IF Kind(r) = "cleanup" THEN [tx EXCEPT ![r].delete = @ \cup {s}]
                  ELSE [tx EXCEPT ![r].revoke = @ \cup {s}]
    BY DEF UpdateRow
<1>2. s \in Session  BY <1>1 DEF IInv, TypeOK
<1>3. /\ lock'[s] = r
      /\ \A t \in Session, q \in Request : lock[t] = q => lock'[t] = q
      /\ \A t \in Session, q \in Request \ {r} : lock'[t] = q => lock[t] = q
    BY <1>1, <1>2, LockKeeps
<1>4. tx[r].insert = {} /\ tx[r].rotate = {}
    BY <1>1 DEF IInv, RotationIsWhole
<1>5. /\ \A q \in Request \ {r} : tx'[q] = tx[q] /\ todo'[q] = todo[q]
      /\ tx'[r].insert = {} /\ tx'[r].rotate = {} /\ tx'[r].reuse = tx[r].reuse
      /\ tx'[r].revoke \subseteq tx[r].revoke \cup (rows \cap {s})
      /\ tx'[r].delete \subseteq tx[r].delete \cup (rows \cap {s})
    <2>1. tx[r] \in Writes  BY CallTypes DEF IInv
    <2>2. CASE ~Matches(r, s)  BY <1>1, <1>4, <2>2 DEF IInv, TypeOK
    <2>3. CASE Matches(r, s) /\ Kind(r) = "cleanup"
        <3>1. tx'[r] = [tx[r] EXCEPT !.delete = @ \cup {s}]
            BY <1>1, <2>3 DEF IInv, TypeOK
        <3>2. s \in rows /\ tx' = [tx EXCEPT ![r].delete = @ \cup {s}]
            BY <1>1, <2>3 DEF Matches
        <3>3. tx'[r].delete = tx[r].delete \cup {s} /\ tx'[r].insert = tx[r].insert
              /\ tx'[r].rotate = tx[r].rotate /\ tx'[r].reuse = tx[r].reuse
              /\ tx'[r].revoke = tx[r].revoke
            BY <2>1, <3>1 DEF Writes
        <3>4. \A q \in Request \ {r} : tx'[q] = tx[q] /\ todo'[q] = todo[q]
            BY <1>1, <3>2 DEF IInv, TypeOK
        <3> QED  BY <1>4, <3>2, <3>3, <3>4
    <2>4. CASE Matches(r, s) /\ Kind(r) # "cleanup"
        <3>1. tx'[r] = [tx[r] EXCEPT !.revoke = @ \cup {s}]
            BY <1>1, <2>4 DEF IInv, TypeOK
        <3>2. s \in rows /\ tx' = [tx EXCEPT ![r].revoke = @ \cup {s}]
            BY <1>1, <2>4 DEF Matches
        <3>3. tx'[r].revoke = tx[r].revoke \cup {s} /\ tx'[r].insert = tx[r].insert
              /\ tx'[r].rotate = tx[r].rotate /\ tx'[r].reuse = tx[r].reuse
              /\ tx'[r].delete = tx[r].delete
            BY <2>1, <3>1 DEF Writes
        <3>4. \A q \in Request \ {r} : tx'[q] = tx[q] /\ todo'[q] = todo[q]
            BY <1>1, <3>2 DEF IInv, TypeOK
        <3> QED  BY <1>4, <3>2, <3>3, <3>4
    <2> QED  BY <2>2, <2>3, <2>4
<1>6. Chain'
    BY ChainUnchanged DEF IInv, Chain, UpdateRow, table
<1>7. NoTransaction' /\ FlagsOfRows'
    BY <1>3, <1>5 DEF IInv, NoTransaction, FlagsOfRows, UpdateRow, Outside, table
<1>8. WritesAreLocked'
    <2> SUFFICES ASSUME NEW q \in Request,
                        NEW t \in tx'[q].rotate \cup tx'[q].reuse \cup tx'[q].revoke \cup tx'[q].delete
                 PROVE  lock'[t] = q /\ t \in rows
        BY DEF WritesAreLocked, UpdateRow, table
    <2>1. CASE q = r /\ t = s /\ t \in rows  BY <1>3, <2>1
    <2>2. CASE q # r \/ t # s \/ t \notin rows
        <3>1. t \in tx[q].rotate \cup tx[q].reuse \cup tx[q].revoke \cup tx[q].delete
            BY <1>4, <1>5, <2>2
        <3>2. lock[t] = q /\ t \in rows  BY <3>1 DEF IInv, WritesAreLocked
        <3> QED  BY <1>3, <3>2 DEF IInv, TypeOK
    <2> QED  BY <2>1, <2>2
<1>9. RotationIsWhole'
    <2>1. \A q \in Request \ {r} : Rotating(q) => Rotating(q)'
        BY <1>3, <1>5, CallTypes
        DEF IInv, Rotating, UpdateRow, table, Presentable, Token, Kind
    <2> QED  BY <1>5, <2>1 DEF IInv, RotationIsWhole, UpdateRow, Token, Kind
<1> QED  BY <1>6, <1>7, <1>8, <1>9 DEF IInv, Chain

\* A commit publishes its writes: they concern rows it has locked, so the open
\* transactions of others see their own rows as they left them.
LEMMA CommitKeeps ==
    ASSUME IInv, TypeOK', NEW r \in Request, Commit(r)
    PROVE  IInv'
<1>1. /\ tx'[r] = NoWrites /\ pc'[r] = "done"
      /\ \A q \in Request \ {r} : tx'[q] = tx[q] /\ pc'[q] = pc[q]
    BY DEF Commit, IInv, TypeOK
<1>2. /\ pc[r] = "write" /\ todo[r] = {} /\ todo' = todo /\ row' = row /\ call' = call
      /\ \A s \in Session : lock'[s] = IF lock[s] = r THEN Free ELSE lock[s]
    BY DEF Commit, Release
<1>3. \A s \in tx[r].rotate \cup tx[r].reuse \cup tx[r].revoke \cup tx[r].delete :
         lock[s] = r /\ s \in rows
    BY DEF IInv, WritesAreLocked
<1>4. /\ rows' = (rows \cup tx[r].insert) \ tx[r].delete
      /\ revoked' = (revoked \cup tx[r].revoke) \ tx[r].delete
      /\ rotated' = (rotated \cup tx[r].rotate) \ tx[r].delete
      /\ reused' = (reused \cup tx[r].reuse) \ tx[r].delete
      /\ familyRevoked' \subseteq (familyRevoked \cup tx[r].revoke) \ tx[r].delete
    BY DEF Commit
<1>5. \/ tx[r].insert = {} /\ tx[r].rotate = {}
      \/ /\ tx[r].insert = {r} /\ tx[r].rotate = {Token(r)} /\ Rotating(r)
         /\ row[r].parent = Token(r) /\ row[r].family = row[Token(r)].family
    BY DEF IInv, RotationIsWhole
<1>6. \A s \in Session, q \in Request \ {r} : lock[s] = q =>
         /\ s \in rows => s \in rows'
         /\ s \in revoked <=> s \in revoked'
         /\ s \in rotated <=> s \in rotated'
    BY <1>3, <1>4
<1>7. NoTransaction'
    BY <1>1, <1>2, IdentityAssumption DEF IInv, NoTransaction, Outside
<1>8. FlagsOfRows'
    <2>1. revoked' \subseteq rows' /\ rotated' \subseteq rows' /\ reused' \subseteq rows'
        BY <1>3, <1>4 DEF IInv, FlagsOfRows
    <2>2. familyRevoked' \subseteq revoked'
        BY <1>4 DEF IInv, FlagsOfRows
    <2>3. ASSUME NEW q \in Request, q \in rows' \/ \E s \in rows' : row'[s].parent = q
          PROVE  pc'[q] = "done"
        <3>1. CASE q = r  BY <1>1, <3>1
        <3>2. CASE q # r
            <4>1. q \in rows \/ \E s \in rows : row[s].parent = q
                BY <1>2, <1>4, <1>5, <2>3, <3>2 DEF Rotating, Presentable
            <4> QED  BY <1>1, <3>2, <4>1 DEF IInv, FlagsOfRows
        <3> QED  BY <3>1, <3>2
    <2> QED  BY <2>1, <2>2, <2>3 DEF FlagsOfRows
<1>9. WritesAreLocked'
    <2> SUFFICES ASSUME NEW q \in Request,
                        NEW s \in tx'[q].rotate \cup tx'[q].reuse \cup tx'[q].revoke \cup tx'[q].delete
                 PROVE  lock'[s] = q /\ s \in rows'
        BY DEF WritesAreLocked
    <2>1. q # r  BY <1>1 DEF NoWrites
    <2>2. lock[s] = q /\ s \in rows  BY <1>1, <2>1 DEF IInv, WritesAreLocked
    <2> QED  BY <1>2, <1>6, <2>1, <2>2 DEF IInv, TypeOK
<1>10. RotationIsWhole'
    <2>1. ASSUME NEW q \in Request \ {r}, Rotating(q) PROVE Rotating(q)'
        <3>1. Token(q) \in Session /\ lock[Token(q)] = q
            BY <2>1, CallTypes DEF Rotating, IInv
        <3>2. Presentable(Token(q))' /\ Token(q)' \notin rotated'
            BY <1>2, <1>6, <2>1, <3>1 DEF Rotating, Presentable, Token
        <3> QED
            BY <1>1, <1>2, <2>1, <3>1, <3>2 DEF Rotating, Token, Kind
    <2> QED  BY <1>1, <1>2, <2>1 DEF IInv, RotationIsWhole, NoWrites, Token, Kind
<1>11. Chain'
    <2>1. CASE tx[r].insert = {} /\ tx[r].rotate = {}
        <3>1. rows' = rows \ tx[r].delete /\ rotated' = rotated \ tx[r].delete
            BY <1>4, <2>1
        <3>2. ParentsAreRotated'
            BY <1>2, <3>1 DEF IInv, ParentsAreRotated
        <3>3. OneSuccessor' /\ OneCurrentRow'
            BY <1>2, <3>1 DEF IInv, OneSuccessor, OneCurrentRow
        <3> QED  BY <3>2, <3>3 DEF Chain
    <2>2. CASE /\ tx[r].insert = {r} /\ tx[r].rotate = {Token(r)} /\ Rotating(r)
               /\ row[r].parent = Token(r) /\ row[r].family = row[Token(r)].family
        <3>1. /\ rows' = rows \cup {r} /\ rotated' = rotated \cup {Token(r)}
              /\ Token(r) \in rows /\ Token(r) \notin rotated
              /\ r \notin rows /\ r \notin Root
            BY <1>2, <1>4, <2>2, IdentityAssumption
            DEF Rotating, Presentable, IInv, FlagsOfRows
        <3>2. \A s \in rows : row[s].parent # Token(r)
            BY <3>1 DEF IInv, ParentsAreRotated
        <3>3. Token(r) # NoSession /\ r \notin rotated
            BY <3>1, IdentityAssumption DEF IInv, TypeOK, FlagsOfRows
        <3>4. r # Token(r) /\ \A s \in rows : row[s].parent # r
            BY <1>2, <3>1 DEF IInv, FlagsOfRows
        <3>5. ParentsAreRotated'
            BY <1>2, <2>2, <3>1, <3>2, <3>3, <3>4 DEF IInv, ParentsAreRotated
        <3>6. OneSuccessor'
            BY <1>2, <2>2, <3>1, <3>2 DEF IInv, OneSuccessor
        <3>7. OneCurrentRow'
            BY <1>2, <2>2, <3>1 DEF IInv, OneCurrentRow
        <3> QED  BY <3>5, <3>6, <3>7 DEF Chain
    <2> QED  BY <1>5, <2>1, <2>2
<1> QED  BY <1>7, <1>8, <1>9, <1>10, <1>11 DEF IInv, Chain

\* Every step preserves the inductive invariant.
LEMMA NextKeeps == IInv /\ [Next]_vars => IInv'
<1> SUFFICES ASSUME IInv, [Next]_vars PROVE IInv'
    OBVIOUS
<1>1. TypeOK'  BY NextTypes DEF IInv
<1>2. \A r \in Request : pc[r] \in Outside => tx[r] = NoWrites /\ todo[r] = {}
    BY DEF IInv, NoTransaction
<1>3. ASSUME NEW r \in Request, Start(r) PROVE IInv'
    <2>1. /\ pc'[r] \in {"check", "lookup", "statement"} /\ todo'[r] = {}
          /\ pc'[r] = "check" => call'[r].kind = "refresh"
          /\ \A q \in Request \ {r} : pc'[q] = pc[q] /\ call'[q] = call[q] /\ todo'[q] = todo[q]
        BY <1>2, <1>3 DEF Start, IInv, TypeOK, Outside
    <2> QED  BY <1>1, <1>2, <1>3, <2>1, QuietStep DEF Start, Outside, NoWrites
<1>4. ASSUME NEW r \in Request, Step(r) PROVE IInv'
    <2>1. CASE RejectToken(r)  BY <2>1, FinishKeeps DEF RejectToken
    <2>2. CASE RejectClient(r)  BY <2>2, FinishKeeps DEF RejectClient
    <2>3. CASE CheckRevokes(r)
        <3>1. \E S \in SUBSET {Token(r)} : tx' = [tx EXCEPT ![r].reuse = S]
            BY <2>3 DEF CheckRevokes
        <3>2. ~(MayRotate(r) /\ pc[r] = "rotate") /\ pc'[r] # "issue"
            BY <2>3 DEF CheckRevokes, IInv, TypeOK
        <3> QED  BY <1>1, <2>3, <3>1, <3>2, TokenLockKeeps DEF CheckRevokes
    <2>4. CASE CheckPasses(r)
        <3>1. /\ pc'[r] = "rotate" /\ todo'[r] = {} /\ call'[r].kind = "refresh"
              /\ \A q \in Request \ {r} : pc'[q] = pc[q] /\ call'[q] = call[q] /\ todo'[q] = todo[q]
            BY <1>2, <2>4 DEF CheckPasses, IInv, TypeOK, Outside, RotationIsWhole, Kind
        <3> QED  BY <1>1, <1>2, <2>4, <3>1, QuietStep DEF CheckPasses, Outside, NoWrites
    <2>5. CASE RotateRejects(r)  BY <2>5, FinishKeeps DEF RotateRejects
    <2>6. CASE RotateLocks(r)
        <3>1. Kind(r) = "refresh"
            BY <2>6 DEF RotateLocks, IInv, RotationIsWhole
        <3> QED  BY <1>1, <2>6, <3>1, TokenLockKeeps DEF RotateLocks, MayRotate
    <2>7. CASE IssueDenied(r)  BY <2>7, FinishKeeps DEF IssueDenied
    <2>8. CASE Issue(r)  BY <1>1, <2>8, IssueKeeps
    <2>9. CASE LookupNothing(r)  BY <2>9, FinishKeeps DEF LookupNothing
    <2>10. CASE LookupFinds(r)
        <3>1. pc[r] = "lookup" /\ pc'[r] = "statement"
            BY <2>10 DEF LookupFinds, IInv, TypeOK
        <3>2. CASE Kind(r) = "revoke_refresh" /\ Checked(r) /\ lock' = [lock EXCEPT ![Token(r)] = r]
            BY <1>1, <2>10, <3>1, <3>2, TokenLockKeeps DEF LookupFinds
        <3>3. CASE UNCHANGED lock
            <4>1. \A q \in Request \ {r} : pc'[q] = pc[q] /\ call'[q] = call[q] /\ todo'[q] = todo[q]
                BY <2>10 DEF LookupFinds, IInv, TypeOK
            <4> QED
                BY <1>1, <1>2, <2>10, <3>1, <3>3, <4>1, QuietStep DEF LookupFinds, Outside, NoWrites
        <3> QED  BY <2>10, <3>2, <3>3 DEF LookupFinds
    <2>11. CASE BeginStatement(r)
        <3>1. /\ pc[r] = "statement" /\ pc'[r] = "write" /\ tx[r].insert = {}
              /\ \A q \in Request \ {r} : pc'[q] = pc[q] /\ call'[q] = call[q] /\ todo'[q] = todo[q]
            BY <2>11 DEF BeginStatement, IInv, TypeOK, RotationIsWhole
        <3> QED  BY <1>1, <2>11, <3>1, QuietStep DEF BeginStatement
    <2>12. CASE UpdateRow(r)  BY <1>1, <2>12, UpdateRowKeeps
    <2>13. CASE Commit(r)  BY <1>1, <2>13, CommitKeeps
    <2> QED
        BY <1>4, <2>1, <2>2, <2>3, <2>4, <2>5, <2>6, <2>7, <2>8, <2>9, <2>10,
           <2>11, <2>12, <2>13 DEF Step
<1>5. ASSUME NEW r \in Request, Crash(r) PROVE IInv'
    BY <1>5, FinishKeeps DEF Crash
<1>6. ASSUME NEW r \in Request, DeadlockVictim(r) PROVE IInv'
    BY <1>6, FinishKeeps DEF DeadlockVictim
<1>7. CASE Tick \/ UNCHANGED vars
    <2>1. UNCHANGED <<table, row, lock, pc, call, todo, tx>>
        BY <1>7 DEF Tick, vars
    <2>2. Chain'
        BY <2>1, ChainUnchanged DEF IInv, Chain, table
    <2>3. NoTransaction' /\ FlagsOfRows' /\ WritesAreLocked'
        BY <2>1 DEF IInv, NoTransaction, FlagsOfRows, WritesAreLocked, table
    <2>4. RotationIsWhole'
        BY <2>1 DEF IInv, RotationIsWhole, Rotating, Presentable, Token, Kind, table
    <2> QED  BY <1>1, <2>2, <2>3, <2>4 DEF IInv, Chain
<1> QED
    BY <1>3, <1>4, <1>5, <1>6, <1>7 DEF Next

\* The initial table: the rows of the logins, and no transaction.
LEMMA InitKeeps == Init => IInv
<1> SUFFICES ASSUME Init PROVE IInv
    OBVIOUS
<1>1. TypeOK  BY InitTypes
<1>2. \A s \in Root : row[s] = RootRow[s]
    BY DEF Init, Session
<1>3. NoTransaction /\ FlagsOfRows /\ WritesAreLocked
    BY <1>2, RootAssumption, IdentityAssumption
    DEF Init, NoTransaction, FlagsOfRows, WritesAreLocked, NoWrites, Session
<1>4. RotationIsWhole
    BY DEF Init, RotationIsWhole, NoWrites
<1>5. ParentsAreRotated /\ OneSuccessor /\ OneCurrentRow
    BY <1>2, RootAssumption, IdentityAssumption
    DEF Init, ParentsAreRotated, OneSuccessor, OneCurrentRow, Session
<1> QED  BY <1>1, <1>3, <1>4, <1>5 DEF IInv

\* The inductive invariant holds in every reachable state.
THEOREM Invariance == Spec => []IInv
<1>1. Init => IInv  BY InitKeeps
<1>2. IInv /\ [Next]_vars => IInv'  BY NextKeeps
<1> QED  BY <1>1, <1>2, PTL DEF Spec

\* A refresh token is redeemed at most once.
THEOREM RedeemedOnce == Spec => []OneSuccessor
<1>1. IInv => OneSuccessor  BY DEF IInv
<1> QED  BY <1>1, Invariance, PTL

\* A token family has at most one current row.
THEOREM OneCurrentPerFamily == Spec => []OneCurrentRow
<1>1. IInv => OneCurrentRow  BY DEF IInv
<1> QED  BY <1>1, Invariance, PTL
-----------------------------------------------------------------------------
(***************************************************************************)
(* How far the statements reach: a rotation keeps what the login fixed, a  *)
(* revocation that was answered took effect, a replayed token costs its    *)
(* own family only, and logout and password change leave offline grants    *)
(* alone.                                                                  *)
(***************************************************************************)

\* A row of a family has the offline flag and the maximum of its login, and does not
\* outlive that maximum.
Inherits ==
    \A s \in Session : row[s].family # NoFamily =>
       /\ row[s].offline = RootRow[row[s].family].offline
       /\ row[s].offlineMax = RootRow[row[s].family].offlineMax
       /\ row[s].offline => row[s].refreshExpires <= row[s].offlineMax

\* A token that was presented names a row that was committed: no rotation writes it again.
Presented ==
    \A r \in Request :
       pc[r] # "idle" => Token(r) \in Root \/ (Token(r) \in Request /\ pc[Token(r)] = "done")

\* A statement revokes rows that its WHERE clause names.
WritesMatch ==
    \A r \in Request : \A s \in tx[r].revoke :
       /\ Kind(r) \in ByFamily => SameGrant(s, Token(r))
       /\ Kind(r) \in {"logout", "others"} => ~row[s].offline

Gone(s) == s \in revoked \/ s \notin rows

\* A revocation that runs still has its row to write, has written it or found it gone;
\* one that was answered found or left it so.
RevocationCovers ==
    \A r \in Request :
       /\ pc[r] # "done" => reply[r] = "none"
       /\ pc[r] = "write" /\ Kind(r) \in ByToken =>
             Gone(Token(r)) \/ Token(r) \in todo[r] \cup tx[r].revoke
       /\ reply[r] = "ok" /\ Kind(r) \in ByToken => pc[r] = "done" /\ Gone(Token(r))

ReachInv == Inherits /\ Presented /\ WritesMatch /\ RevocationCovers

-----------------------------------------------------------------------------
(* Rows.                                                                   *)

\* A login fixes the maximum and a rotation keeps it.
LEMMA SuccessorInherits ==
    ASSUME IInv, Inherits, NEW r \in Request, Issue(r)
    PROVE  Inherits'
<1>1. PICK idle \in IdlePolicies, p \in Session :
         p = Token(r) /\ row' = [row EXCEPT ![r] = Successor(p, idle)]
    BY CallTypes DEF Issue, IInv
<1>2. /\ row[p] \in Row /\ clock + idle \in Nat
      /\ row[p].offlineMax \in Nat
    BY BoundAssumption DEF IInv, TypeOK, Row
<1>3. /\ Successor(p, idle).family = row[p].family
      /\ Successor(p, idle).offline = row[p].offline
      /\ Successor(p, idle).offlineMax = row[p].offlineMax
      /\ row[p].offline => Successor(p, idle).refreshExpires <= row[p].offlineMax
    BY <1>2 DEF Successor, Earlier, Row
<1>4. row'[r] = Successor(p, idle) /\ \A s \in Session \ {r} : row'[s] = row[s]
    BY <1>1, CallTypes DEF IInv, TypeOK
<1> QED  BY <1>3, <1>4 DEF Inherits

\* No other step changes a row, and the rows that were committed stay as they are.
LEMMA RowsStay ==
    ASSUME IInv, [Next]_vars
    PROVE  /\ row' = row \/ \E r \in Request : Issue(r)
           /\ \A s \in rows : row'[s] = row[s]
           /\ \A s \in Request : pc[s] = "done" => row'[s] = row[s]
           /\ \A s \in Root : row'[s] = row[s]
<1>1. ASSUME NEW r \in Request, Issue(r)
      PROVE  /\ pc[r] = "issue" /\ r \notin rows /\ r \notin Root
             /\ \A s \in Session \ {r} : row'[s] = row[s]
    BY <1>1, IdentityAssumption DEF Issue, IInv, TypeOK, FlagsOfRows
<1>2. ASSUME NEW r \in Request,
             Start(r) \/ (Step(r) /\ ~Issue(r)) \/ Crash(r) \/ DeadlockVictim(r)
      PROVE  row' = row
    BY <1>2 DEF Start, Step, RejectToken, RejectClient, CheckRevokes, CheckPasses,
                RotateRejects, RotateLocks, IssueDenied, LookupNothing, LookupFinds,
                BeginStatement, UpdateRow, Commit, Crash, DeadlockVictim, Finish
<1>3. CASE Tick \/ UNCHANGED vars
    BY <1>3 DEF Tick, vars
<1>4. row' = row \/ \E r \in Request : Issue(r)
    BY <1>2, <1>3 DEF Next
<1> QED  BY <1>1, <1>4 DEF IInv, TypeOK, Session

-----------------------------------------------------------------------------
(* Requests.                                                               *)

\* What a step is for one request: its own step, an end without a commit, or nothing.
LEMMA OneRequest ==
    ASSUME IInv, [Next]_vars, NEW q \in Request
    PROVE  \/ UNCHANGED <<pc[q], call[q], todo[q], tx[q], reply[q]>>
           \/ Start(q)
           \/ InProgress(q) /\ \E a \in {"ignored", "none", "error"} : Finish(q, a)
           \/ CheckRevokes(q) \/ CheckPasses(q) \/ RotateLocks(q) \/ Issue(q)
           \/ LookupFinds(q) \/ BeginStatement(q) \/ UpdateRow(q) \/ Commit(q)
<1>1. ASSUME NEW r \in Request, NEW a, r # q, Finish(r, a)
      PROVE  UNCHANGED <<pc[q], call[q], todo[q], tx[q], reply[q]>>
    BY <1>1 DEF Finish, IInv, TypeOK
<1>2. ASSUME NEW r \in Request, r # q, Start(r)
      PROVE  UNCHANGED <<pc[q], call[q], todo[q], tx[q], reply[q]>>
    BY <1>2 DEF Start, IInv, TypeOK
<1>3. ASSUME NEW r \in Request, r # q,
             CheckRevokes(r) \/ CheckPasses(r) \/ RotateLocks(r) \/ Issue(r)
               \/ LookupFinds(r) \/ BeginStatement(r) \/ UpdateRow(r) \/ Commit(r)
      PROVE  UNCHANGED <<pc[q], call[q], todo[q], tx[q], reply[q]>>
    <2>1. CASE CheckRevokes(r) \/ CheckPasses(r) \/ RotateLocks(r) \/ LookupFinds(r)
        BY <1>3, <2>1 DEF CheckRevokes, CheckPasses, RotateLocks, LookupFinds, IInv, TypeOK
    <2>2. CASE Issue(r) \/ UpdateRow(r)
        BY <1>3, <2>2 DEF Issue, UpdateRow, IInv, TypeOK
    <2>3. CASE BeginStatement(r) \/ Commit(r)
        BY <1>3, <2>3 DEF BeginStatement, Commit, IInv, TypeOK
    <2> QED  BY <1>3, <2>1, <2>2, <2>3
<1>4. ASSUME NEW r \in Request,
             RejectToken(r) \/ RejectClient(r) \/ RotateRejects(r) \/ IssueDenied(r)
               \/ LookupNothing(r) \/ Crash(r) \/ DeadlockVictim(r)
      PROVE  InProgress(r) /\ \E a \in {"ignored", "none", "error"} : Finish(r, a)
    BY <1>4 DEF RejectToken, RejectClient, RotateRejects, IssueDenied, LookupNothing, Crash,
                DeadlockVictim, Waiting, InProgress
<1>5. CASE Tick \/ UNCHANGED vars
    BY <1>5 DEF Tick, vars
<1> QED  BY <1>1, <1>2, <1>3, <1>4, <1>5 DEF Next, Step

\* What is committed changes by a commit only.
LEMMA OnlyCommits ==
    ASSUME [Next]_vars
    PROVE  UNCHANGED table \/ \E r \in Request : Commit(r)
<1>1. ASSUME NEW r \in Request,
             Start(r) \/ (Step(r) /\ ~Commit(r)) \/ Crash(r) \/ DeadlockVictim(r)
      PROVE  UNCHANGED table
    BY <1>1 DEF Start, Step, RejectToken, RejectClient, CheckRevokes, CheckPasses,
                RotateRejects, RotateLocks, IssueDenied, Issue, LookupNothing, LookupFinds,
                BeginStatement, UpdateRow, Crash, DeadlockVictim, Finish
<1> QED  BY <1>1 DEF Next, Tick, vars

\* The kind and the token of a request are fixed when it starts.
LEMMA CallStays ==
    ASSUME IInv, [Next]_vars, NEW q \in Request, ~Start(q)
    PROVE  call'[q] = call[q]
BY OneRequest DEF Finish, CheckRevokes, CheckPasses, RotateLocks, Issue, LookupFinds,
                  BeginStatement, UpdateRow, Commit

\* A request that is done stays so.
LEMMA DoneStays ==
    ASSUME IInv, [Next]_vars, NEW q \in Request, pc[q] = "done"
    PROVE  UNCHANGED <<pc[q], call[q], todo[q], tx[q], reply[q]>>
BY OneRequest DEF Start, InProgress, CheckRevokes, CheckPasses, RotateLocks, Issue, LookupFinds,
                  BeginStatement, UpdateRow, Commit

\* A row that was presented and is gone does not come back.
LEMMA GoneStays ==
    ASSUME IInv, Presented, [Next]_vars, NEW q \in Request, pc[q] # "idle", Gone(Token(q))
    PROVE  Gone(Token(q))'
<1>1. PICK t \in Session : t = Token(q) /\ (t \in Root \/ (t \in Request /\ pc[t] = "done"))
    BY CallTypes DEF IInv, Presented
<1>2. Token(q)' = t
    BY <1>1, CallStays DEF Start, Token
<1>3. ASSUME NEW r \in Request, Commit(r) PROVE Gone(t)'
    <2>1. tx[r].insert \subseteq {r} /\ pc[r] = "write"
        BY <1>3 DEF Commit, IInv, RotationIsWhole
    <2>2. t \notin tx[r].insert
        BY <1>1, <2>1, IdentityAssumption
    <2> QED  BY <1>1, <1>3, <2>2 DEF Commit, Gone
<1>4. ASSUME rows' = rows, revoked' = revoked PROVE Gone(t)'
    BY <1>1, <1>4 DEF Gone
<1>5. Gone(t)'
    BY <1>3, <1>4, OnlyCommits DEF table
<1> QED  BY <1>2, <1>5 DEF Gone

-----------------------------------------------------------------------------
(* Each part of the invariant is kept.                                     *)

\* Rotations inherit, and nothing else writes these columns.
LEMMA InheritsKept == ASSUME IInv, Inherits, [Next]_vars PROVE Inherits'
<1>1. CASE row' = row
    BY <1>1 DEF Inherits
<1> QED  BY <1>1, RowsStay, SuccessorInherits

\* A caller can only present a token that was committed.
LEMMA PresentedKept == ASSUME IInv, Presented, [Next]_vars PROVE Presented'
<1> SUFFICES ASSUME NEW q \in Request, pc'[q] # "idle"
             PROVE  Token(q)' \in Root \/ (Token(q)' \in Request /\ pc'[Token(q)'] = "done")
    BY DEF Presented
<1>1. PICK t : t = Token(q)'
    OBVIOUS
<1>2. t \in Root \/ (t \in Request /\ pc[t] = "done")
    <2>1. CASE Start(q)
        <3>1. t \in rows \/ t = AnyRoot
            BY <1>1, <2>1 DEF Start, Token, IInv, TypeOK
        <3> QED  BY <3>1, RootRowsAreRows DEF IInv, TypeOK, FlagsOfRows, Session
    <2>2. CASE ~Start(q)
        <3>1. pc[q] # "idle"
            BY <2>2, OneRequest DEF InProgress, CheckRevokes, CheckPasses, RotateLocks, Issue,
                                    LookupFinds, BeginStatement, UpdateRow, Commit
        <3>2. t = Token(q)
            BY <1>1, <2>2, CallStays DEF Token
        <3> QED  BY <3>1, <3>2 DEF Presented
    <2> QED  BY <2>1, <2>2
<1> QED  BY <1>1, <1>2, DoneStays

\* A statement tests a row as it was committed, and the columns it tests do not change.
LEMMA WritesMatchKept == ASSUME IInv, Presented, WritesMatch, [Next]_vars PROVE WritesMatch'
<1> SUFFICES ASSUME NEW q \in Request, NEW s \in tx'[q].revoke
             PROVE  /\ Kind(q)' \in ByFamily => SameGrant(s, Token(q))'
                    /\ Kind(q)' \in {"logout", "others"} => ~row'[s].offline
    BY DEF WritesMatch
<1>1. pc[q] \in Outside \cup {"issue"} => tx[q] = NoWrites
    BY DEF IInv, NoTransaction, RotationIsWhole
<1>2. s \in tx[q].revoke \/ (UpdateRow(q) /\ Matches(q, s) /\ Kind(q) # "cleanup")
    <2>1. CASE Start(q)
        BY <2>1 DEF Start
    <2>2. ASSUME NEW a, Finish(q, a) PROVE tx'[q].revoke = {}
        BY <2>2 DEF Finish, NoWrites, IInv, TypeOK
    <2>3. CASE CheckRevokes(q)
        <3>1. tx'[q] = [tx[q] EXCEPT !.reuse = IF Expired(Token(q)) THEN {} ELSE {Token(q)}]
            BY <2>3 DEF CheckRevokes, IInv, TypeOK
        <3> QED  BY <3>1, CallTypes DEF IInv, Writes
    <2>4. CASE CheckPasses(q) \/ RotateLocks(q) \/ LookupFinds(q) \/ BeginStatement(q)
        BY <2>4 DEF CheckPasses, RotateLocks, LookupFinds, BeginStatement
    <2>5. CASE Issue(q)
        <3>1. tx'[q] = [tx[q] EXCEPT !.insert = {q}, !.rotate = {Token(q)}]
            BY <2>5 DEF Issue, IInv, TypeOK
        <3> QED  BY <3>1, CallTypes DEF IInv, Writes
    <2>6. CASE UpdateRow(q)
        <3>1. PICK u \in todo[q] :
                 tx' = IF ~Matches(q, u) THEN tx
                       ELSE IF Kind(q) = "cleanup" THEN [tx EXCEPT ![q].delete = @ \cup {u}]
                       ELSE [tx EXCEPT ![q].revoke = @ \cup {u}]
            BY <2>6 DEF UpdateRow
        <3>2. CASE ~Matches(q, u)
            BY <3>1, <3>2
        <3>3. CASE Matches(q, u) /\ Kind(q) = "cleanup"
            <4>1. tx'[q] = [tx[q] EXCEPT !.delete = @ \cup {u}]
                BY <3>1, <3>3 DEF IInv, TypeOK
            <4> QED  BY <4>1, CallTypes DEF IInv, Writes
        <3>4. CASE Matches(q, u) /\ Kind(q) # "cleanup"
            <4>1. tx'[q] = [tx[q] EXCEPT !.revoke = @ \cup {u}]
                BY <3>1, <3>4 DEF IInv, TypeOK
            <4>2. s \in tx[q].revoke \cup {u}
                BY <4>1, CallTypes DEF IInv, Writes
            <4> QED  BY <2>6, <3>4, <4>2
        <3> QED  BY <3>2, <3>3, <3>4
    <2>7. CASE Commit(q)
        BY <2>7 DEF Commit, NoWrites, IInv, TypeOK
    <2> QED  BY <2>1, <2>2, <2>3, <2>4, <2>5, <2>6, <2>7, OneRequest
<1>3. tx[q] # NoWrites \/ UpdateRow(q)
    BY <1>2 DEF NoWrites
<1>4. pc[q] # "idle" /\ call'[q] = call[q]
    BY <1>1, <1>3, CallStays DEF UpdateRow, Start, Outside
<1>5. s \in rows
    BY <1>2 DEF Matches, IInv, WritesAreLocked
<1>6. PICK t \in Session : t = Token(q) /\ row'[t] = row[t]
    BY <1>4, CallTypes, RowsStay DEF Presented, IInv
<1>7. /\ Kind(q) \in ByFamily => SameGrant(s, t)
      /\ Kind(q) \in {"logout", "others"} => ~row[s].offline
    BY <1>2, <1>6 DEF WritesMatch, Matches, ByFamily, ByToken
<1>8. row'[s] = row[s] /\ Token(q)' = t /\ Kind(q)' = Kind(q)
    BY <1>4, <1>5, <1>6, RowsStay DEF Token, Kind
<1> QED  BY <1>6, <1>7, <1>8 DEF SameGrant

\* The statement of a revocation of one row starts with that row among its candidates,
\* unless it is gone, and keeps it until it is written.
LEMMA RevocationCoversKept ==
    ASSUME IInv, Presented, RevocationCovers, [Next]_vars
    PROVE  RevocationCovers'
<1> SUFFICES ASSUME NEW q \in Request
             PROVE  /\ pc'[q] # "done" => reply'[q] = "none"
                    /\ pc'[q] = "write" /\ Kind(q)' \in ByToken =>
                          Gone(Token(q))' \/ Token(q)' \in todo'[q] \cup tx'[q].revoke
                    /\ reply'[q] = "ok" /\ Kind(q)' \in ByToken =>
                          pc'[q] = "done" /\ Gone(Token(q))'
    BY DEF RevocationCovers
<1>1. CASE UNCHANGED <<pc[q], call[q], todo[q], tx[q], reply[q]>>
    <2>1. Token(q)' = Token(q) /\ Kind(q)' = Kind(q)
        BY <1>1 DEF Token, Kind
    <2> QED  BY <1>1, <2>1, GoneStays DEF RevocationCovers
<1>2. ASSUME reply'[q] = reply[q], pc[q] # "done", pc'[q] \notin {"write", "done"}
      PROVE  /\ pc'[q] # "done" => reply'[q] = "none"
             /\ pc'[q] # "write" /\ reply'[q] # "ok"
    BY <1>2 DEF RevocationCovers
<1>3. CASE Start(q) \/ CheckRevokes(q) \/ CheckPasses(q) \/ RotateLocks(q) \/ LookupFinds(q)
    BY <1>2, <1>3 DEF Start, CheckRevokes, CheckPasses, RotateLocks, LookupFinds, IInv, TypeOK
<1>4. ASSUME NEW a \in {"ignored", "none", "error"}, Finish(q, a)
      PROVE  pc'[q] = "done" /\ reply'[q] = a
    BY <1>4 DEF Finish, IInv, TypeOK
<1>5. CASE Issue(q)
    <2>1. Kind(q) = "refresh" /\ call'[q] = call[q] /\ reply' = reply /\ pc[q] # "done"
        BY <1>5 DEF Issue, IInv, RotationIsWhole, Rotating
    <2> QED  BY <2>1 DEF Kind, ByToken, RevocationCovers
<1>6. CASE BeginStatement(q)
    <2>1. /\ call' = call /\ reply' = reply /\ UNCHANGED <<rows, revoked>> /\ pc[q] # "done"
          /\ todo'[q] = {s \in rows : Matches(q, s)}
        BY <1>6 DEF BeginStatement, table, IInv, TypeOK
    <2>2. Kind(q) \in ByToken /\ Token(q) \in rows => Token(q) \in todo'[q]
        BY <2>1 DEF Matches, SameGrant, ByToken, ByFamily
    <2> QED  BY <2>1, <2>2 DEF Kind, Token, Gone, RevocationCovers
<1>7. CASE UpdateRow(q)
    <2>1. /\ call' = call /\ reply' = reply /\ UNCHANGED <<rows, revoked>>
          /\ pc[q] = "write"
        BY <1>7 DEF UpdateRow, table
    <2>2. ASSUME Kind(q) \in ByToken, Token(q) \in rows, Token(q) \in todo[q] \cup tx[q].revoke
          PROVE  Token(q) \in todo'[q] \cup tx'[q].revoke
        <3>1. PICK s \in todo[q] :
                 /\ todo' = [todo EXCEPT ![q] = @ \ {s}]
                 /\ tx' = IF ~Matches(q, s) THEN tx
                          ELSE IF Kind(q) = "cleanup" THEN [tx EXCEPT ![q].delete = @ \cup {s}]
                          ELSE [tx EXCEPT ![q].revoke = @ \cup {s}]
            BY <1>7 DEF UpdateRow
        <3>2. todo'[q] = todo[q] \ {s}
            BY <3>1 DEF IInv, TypeOK
        <3>3. CASE ~Matches(q, s)
            <4>1. Token(q) # s
                BY <2>2, <3>3 DEF Matches, SameGrant, ByToken, ByFamily
            <4> QED  BY <2>2, <3>1, <3>2, <3>3, <4>1
        <3>4. CASE Matches(q, s)
            <4>1. tx'[q] = [tx[q] EXCEPT !.revoke = @ \cup {s}]
                BY <2>2, <3>1, <3>4 DEF IInv, TypeOK, ByToken
            <4>2. tx'[q].revoke = tx[q].revoke \cup {s}
                BY <4>1, CallTypes DEF IInv, Writes
            <4> QED  BY <2>2, <3>2, <4>2
        <3> QED  BY <3>3, <3>4
    <2> QED  BY <2>1, <2>2 DEF Kind, Token, Gone, RevocationCovers
<1>8. CASE Commit(q)
    <2>1. /\ pc[q] = "write" /\ todo[q] = {} /\ pc'[q] = "done" /\ call' = call
          /\ rows' = (rows \cup tx[q].insert) \ tx[q].delete
          /\ revoked' = (revoked \cup tx[q].revoke) \ tx[q].delete
        BY <1>8 DEF Commit, IInv, TypeOK
    <2>2. Token(q)' = Token(q) /\ Kind(q)' = Kind(q)
        BY <2>1 DEF Token, Kind
    <2>3. Gone(Token(q)) => Gone(Token(q))'
        BY <2>1, GoneStays
    <2>4. Token(q) \in tx[q].revoke => Gone(Token(q))'
        BY <2>1, <2>2 DEF Gone
    <2> QED  BY <2>1, <2>2, <2>3, <2>4 DEF RevocationCovers
<1> QED  BY <1>1, <1>2, <1>3, <1>4, <1>5, <1>6, <1>7, <1>8, OneRequest

\* Every step keeps the whole invariant.
LEMMA ReachNext == IInv /\ ReachInv /\ [Next]_vars => ReachInv'
BY InheritsKept, PresentedKept, WritesMatchKept, RevocationCoversKept DEF ReachInv

\* The logins, before any request.
LEMMA InitReach == Init => ReachInv
<1> SUFFICES ASSUME Init PROVE ReachInv
    OBVIOUS
<1>1. \A s \in Session : \E t \in Root : row[s] = RootRow[t]
    BY RootRowsAreRows DEF Init
<1>2. Inherits
    BY <1>1, RootAssumption, IdentityAssumption DEF Inherits
<1> QED  BY <1>2 DEF Init, ReachInv, Presented, WritesMatch, RevocationCovers, NoWrites

\* The rows named by what is committed have the history their login, their rotations and
\* the statements gave them.
THEOREM Reach == Spec => [](IInv /\ ReachInv)
<1>1. Init => IInv /\ ReachInv
    BY InitKeeps, InitReach
<1>2. IInv /\ ReachInv /\ [Next]_vars => (IInv /\ ReachInv)'
    BY NextKeeps, ReachNext
<1> QED  BY <1>1, <1>2, PTL DEF Spec

-----------------------------------------------------------------------------
(* Theorems.                                                               *)

\* However often an offline grant is rotated and whatever the idle policy becomes, it
\* ends no later than the maximum its login fixed.
THEOREM OfflineEnds == Spec => []OfflineMaximum
<1>1. IInv /\ ReachInv => OfflineMaximum
    BY DEF IInv, TypeOK, ReachInv, Inherits, OfflineMaximum
<1> QED  BY <1>1, Reach, PTL

\* A revocation of one session whose statement was committed (it answers "ok") has revoked its
\* row or found it gone, and no request that was in flight brings the row back. Nothing is said
\* of one that lost a deadlock and whose error revoke_handler discarded ("ignored").
THEOREM RevocationsHold == Spec => []AnsweredRevocation
<1>1. IInv /\ ReachInv => AnsweredRevocation
    BY DEF ReachInv, RevocationCovers, Gone, AnsweredRevocation
<1> QED  BY <1>1, Reach, PTL

\* What a step that commits revokes is in the write set of the request.
LEMMA CommitsItsWrites ==
    ASSUME IInv, [Next]_vars, NEW r \in Request, Commits(r)
    PROVE  revoked' \ revoked \subseteq tx[r].revoke
<1>1. CASE Commit(r)
    BY <1>1 DEF Commit
<1>2. ASSUME NEW a, Finish(r, a) PROVE revoked' = revoked
    BY <1>2 DEF Finish, table
<1>3. ~UNCHANGED pc[r] /\ pc[r] = "write" /\ pc'[r] = "done"
    BY DEF Commits
<1>4. ~UpdateRow(r)
    BY <1>3 DEF UpdateRow
<1> QED  BY <1>1, <1>2, <1>3, <1>4, OneRequest
         DEF Start, CheckRevokes, CheckPasses, RotateLocks, Issue, LookupFinds, BeginStatement

\* Logout and password change revoke no row of a login that asked for offline access.
THEOREM OfflineSurvivesLogout == Spec => LogoutKeepsOffline
<1> DEFINE Kept == \A r \in Request : Commits(r) /\ Kind(r) \in {"logout", "others"} =>
                      \A s \in revoked' \ revoked :
                         row[s].family # NoFamily => ~RootRow[row[s].family].offline
<1>1. IInv /\ ReachInv /\ [Next]_vars => Kept
    <2> SUFFICES ASSUME IInv, ReachInv, [Next]_vars,
                        NEW r \in Request, Commits(r), Kind(r) \in {"logout", "others"},
                        NEW s \in revoked' \ revoked, row[s].family # NoFamily
                 PROVE  ~RootRow[row[s].family].offline
        OBVIOUS
    <2>1. s \in tx[r].revoke /\ s \in Session
        BY CommitsItsWrites, CallTypes DEF IInv, Writes
    <2> QED  BY <2>1 DEF ReachInv, WritesMatch, Inherits
<1> QED  BY <1>1, Reach, PTL DEF Spec, LogoutKeepsOffline

\* A replayed or expired refresh token revokes rows of its own family only.
THEOREM TheftIsContained == Spec => TheftStaysInFamily
<1> DEFINE Kept == \A r \in Request : Commits(r) /\ Kind(r) = "refresh" =>
                      \A s \in revoked' \ revoked : row[s].family = row[Token(r)].family
<1>1. IInv /\ ReachInv /\ [Next]_vars => Kept
    <2> SUFFICES ASSUME IInv, ReachInv, [Next]_vars,
                        NEW r \in Request, Commits(r), Kind(r) = "refresh",
                        NEW s \in revoked' \ revoked
                 PROVE  row[s].family = row[Token(r)].family
        OBVIOUS
    <2>1. SameGrant(s, Token(r))
        BY CommitsItsWrites DEF ReachInv, WritesMatch, ByFamily
    <2> QED  BY <2>1 DEF SameGrant
<1> QED  BY <1>1, Reach, PTL DEF Spec, TheftStaysInFamily

-----------------------------------------------------------------------------
(* Two results that rest on the invariants above: the sessions table       *)
(* implements the contract of RefreshTokenContract, and a detected replay  *)
(* has revoked the replayed token and its successor.                       *)

\* A statement either revokes rows or deletes them.

OneStatement ==
    \A r \in Request :
       /\ tx[r].delete # {} => Kind(r) = "cleanup"
       /\ tx[r].revoke # {} => Kind(r) # "cleanup"

\* The write set of a request changes in four actions only.
LEMMA WritesChange ==
    ASSUME TypeOK, [Next]_vars, NEW q \in Request
    PROVE  \/ tx'[q] = tx[q] /\ (call'[q] = call[q] \/ pc[q] = "idle")
           \/ tx'[q] = NoWrites /\ call'[q] = call[q]
           \/ CheckRevokes(q) \/ Issue(q) \/ UpdateRow(q)
<1>1. ASSUME NEW r \in Request, NEW a, Finish(r, a)
      PROVE  call'[q] = call[q] /\ (tx'[q] = tx[q] \/ tx'[q] = NoWrites)
    BY <1>1 DEF Finish, TypeOK
<1>2. ASSUME NEW r \in Request, r # q, CheckRevokes(r) \/ Issue(r) \/ UpdateRow(r)
      PROVE  call'[q] = call[q] /\ tx'[q] = tx[q]
    BY <1>2 DEF CheckRevokes, Issue, UpdateRow, TypeOK
<1>3. ASSUME NEW r \in Request, Start(r)
      PROVE  tx'[q] = tx[q] /\ (call'[q] = call[q] \/ pc[q] = "idle")
    BY <1>3 DEF Start, TypeOK
<1>4. ASSUME NEW r \in Request, Step(r) \/ Crash(r) \/ DeadlockVictim(r)
      PROVE  \/ call'[q] = call[q] /\ (tx'[q] = tx[q] \/ tx'[q] = NoWrites)
             \/ CheckRevokes(q) \/ Issue(q) \/ UpdateRow(q)
    <2>1. CASE RejectToken(r) \/ RejectClient(r) \/ RotateRejects(r) \/ IssueDenied(r)
               \/ LookupNothing(r) \/ Crash(r) \/ DeadlockVictim(r)
        BY <1>1, <2>1 DEF RejectToken, RejectClient, RotateRejects, IssueDenied,
                          LookupNothing, Crash, DeadlockVictim
    <2>2. CASE CheckPasses(r) \/ RotateLocks(r) \/ LookupFinds(r) \/ BeginStatement(r)
        BY <2>2 DEF CheckPasses, RotateLocks, LookupFinds, BeginStatement
    <2>3. CASE CheckRevokes(r) \/ Issue(r) \/ UpdateRow(r)
        BY <1>2, <2>3
    <2>4. CASE Commit(r)
        BY <2>4 DEF Commit, TypeOK
    <2> QED  BY <1>4, <2>1, <2>2, <2>3, <2>4 DEF Step
<1>5. CASE Tick \/ UNCHANGED vars
    BY <1>5 DEF Tick, vars
<1> QED  BY <1>3, <1>4, <1>5 DEF Next

\* Only the cleanup deletes rows, and it revokes none.
LEMMA OneStatementKept ==
    ASSUME IInv, OneStatement, [Next]_vars
    PROVE  OneStatement'
<1> SUFFICES ASSUME NEW q \in Request
             PROVE  /\ tx'[q].delete # {} => call'[q].kind = "cleanup"
                    /\ tx'[q].revoke # {} => call'[q].kind # "cleanup"
    BY DEF OneStatement, Kind
<1>1. pc[q] \in Outside \cup {"issue"} => tx[q] = NoWrites
    BY DEF IInv, NoTransaction, RotationIsWhole
<1>2. CASE tx'[q] = tx[q] /\ (call'[q] = call[q] \/ pc[q] = "idle")
    BY <1>1, <1>2 DEF OneStatement, Kind, NoWrites, Outside
<1>3. CASE tx'[q] = NoWrites
    BY <1>3 DEF NoWrites
<1>4. CASE CheckRevokes(q)
    <2>1. tx'[q].delete = tx[q].delete /\ tx'[q].revoke = tx[q].revoke
        BY <1>4, CallTypes DEF CheckRevokes, IInv, TypeOK, Writes
    <2> QED  BY <1>4, <2>1 DEF CheckRevokes, OneStatement, Kind
<1>5. CASE Issue(q)
    <2>1. tx[q] = NoWrites  BY <1>1, <1>5 DEF Issue
    <2>2. tx'[q] = [NoWrites EXCEPT !.insert = {q}, !.rotate = {Token(q)}]
        BY <1>5, <2>1 DEF Issue, IInv, TypeOK
    <2> QED  BY <2>2 DEF NoWrites
<1>6. CASE UpdateRow(q)
    <2>1. call'[q] = call[q]  BY <1>6 DEF UpdateRow
    <2>2. PICK s \in todo[q] :
             tx' = IF ~Matches(q, s) THEN tx
                   ELSE IF Kind(q) = "cleanup" THEN [tx EXCEPT ![q].delete = @ \cup {s}]
                   ELSE [tx EXCEPT ![q].revoke = @ \cup {s}]
        BY <1>6 DEF UpdateRow
    <2>3. tx[q] \in Writes  BY CallTypes DEF IInv
    <2>4. CASE ~Matches(q, s)  BY <2>1, <2>2, <2>4 DEF OneStatement, Kind
    <2>5. CASE Matches(q, s) /\ Kind(q) = "cleanup"
        <3>1. tx'[q] = [tx[q] EXCEPT !.delete = @ \cup {s}]
            BY <2>2, <2>5 DEF IInv, TypeOK
        <3> QED  BY <2>1, <2>3, <2>5, <3>1 DEF OneStatement, Kind, Writes
    <2>6. CASE Matches(q, s) /\ Kind(q) # "cleanup"
        <3>1. tx'[q] = [tx[q] EXCEPT !.revoke = @ \cup {s}]
            BY <2>2, <2>6 DEF IInv, TypeOK
        <3> QED  BY <2>1, <2>3, <2>6, <3>1 DEF OneStatement, Kind, Writes
    <2> QED  BY <2>4, <2>5, <2>6
<1> QED  BY <1>2, <1>3, <1>4, <1>5, <1>6, WritesChange DEF IInv

-----------------------------------------------------------------------------
(* The contract.                                                           *)

Heir == {<<row[s].parent, s>> : s \in rows \ Root}

\* A step that commits nothing is invisible to the contract.
LEMMA Invisible ==
    ASSUME rows' = rows, revoked' = revoked, rotated' = rotated,
           \A s \in rows : row'[s] = row[s]
    PROVE  UNCHANGED Contract!vars
<1>1. Heir' = Heir  BY DEF Heir
<1> QED  BY <1>1 DEF Contract!vars, Heir

\* Only a commit is visible.
LEMMA OnlyCommitsAreVisible ==
    ASSUME IInv, [Next]_vars, \A r \in Request : ~Commit(r)
    PROVE  UNCHANGED Contract!vars
<1>1. ASSUME NEW r \in Request, Start(r) \/ Step(r) \/ Crash(r) \/ DeadlockVictim(r)
      PROVE  rows' = rows /\ revoked' = revoked /\ rotated' = rotated
             /\ \A s \in rows : row'[s] = row[s]
    <2>1. CASE Issue(r)
        <3>1. r \notin rows  BY <2>1 DEF IInv, FlagsOfRows, Issue
        <3> QED  BY <2>1, <3>1 DEF Issue, table, IInv, TypeOK
    <2>2. CASE Start(r) \/ Crash(r) \/ DeadlockVictim(r) \/ (Step(r) /\ ~Issue(r))
        BY <2>2 DEF Start, Crash, DeadlockVictim, Finish, table, Step, RejectToken,
                    RejectClient, CheckRevokes, CheckPasses, RotateRejects, RotateLocks,
                    IssueDenied, LookupNothing, LookupFinds, BeginStatement, UpdateRow
    <2> QED  BY <1>1, <2>1, <2>2
<1>2. CASE Tick \/ UNCHANGED vars
    BY <1>2, Invisible DEF Tick, vars, table
<1> QED  BY <1>1, <1>2, Invisible DEF Next

\* A commit is a redemption, a revocation or a deletion.
LEMMA CommitIsContractStep ==
    ASSUME IInv, OneStatement, NEW r \in Request, Commit(r)
    PROVE  Contract!Next
<1>1. /\ rows' = (rows \cup tx[r].insert) \ tx[r].delete
      /\ revoked' = (revoked \cup tx[r].revoke) \ tx[r].delete
      /\ rotated' = (rotated \cup tx[r].rotate) \ tx[r].delete
      /\ row' = row
    BY DEF Commit
<1>2. tx[r].revoke \subseteq rows /\ tx[r].delete \subseteq rows
    BY DEF IInv, WritesAreLocked
<1>3. CASE tx[r].insert # {}
    <2>1. /\ tx[r].insert = {r} /\ tx[r].rotate = {Token(r)} /\ row[r].parent = Token(r)
          /\ Rotating(r) /\ r \notin rows /\ r \notin Root
        BY <1>3, IdentityAssumption DEF IInv, RotationIsWhole, FlagsOfRows, Commit
    <2>2. /\ rows' = rows \cup {r} /\ revoked' = revoked /\ rotated' = rotated \cup {Token(r)}
        BY <1>1, <2>1 DEF Rotating
    <2>3. Heir' = Heir \cup {<<Token(r), r>>}
        BY <1>1, <2>1, <2>2 DEF Heir
    <2>4. Contract!Redeem(Token(r), r)
        BY <2>1, <2>2, <2>3 DEF Contract!Redeem, Heir, Rotating, Presentable
    <2> QED  BY <2>4, CallTypes DEF Contract!Next, IInv
<1>4. CASE tx[r].insert = {} /\ tx[r].delete = {}
    <2>1. rows' = rows /\ rotated' = rotated /\ revoked' = revoked \cup tx[r].revoke
        BY <1>1, <1>4 DEF IInv, RotationIsWhole
    <2>2. Heir' = Heir  BY <1>1, <2>1 DEF Heir
    <2>3. Contract!Revoke(tx[r].revoke)
        BY <2>1, <2>2 DEF Contract!Revoke, Heir
    <2>4. \E S \in SUBSET rows : Contract!Revoke(S)
        <3>1. tx[r].revoke \in SUBSET rows  BY <1>2
        <3> QED  BY <2>3, <3>1
    <2> QED  BY <2>4 DEF Contract!Next
<1>5. CASE tx[r].insert = {} /\ tx[r].delete # {}
    <2>1. tx[r].revoke = {} /\ tx[r].rotate = {}
        BY <1>5 DEF OneStatement, IInv, RotationIsWhole
    <2>2. /\ rows' = rows \ tx[r].delete /\ rotated' = rotated \ tx[r].delete
          /\ revoked' = revoked \ tx[r].delete
        BY <1>1, <1>5, <2>1
    <2>3. Heir' = {h \in Heir : h[2] \notin tx[r].delete}
        BY <1>1, <2>2 DEF Heir
    <2>4. Contract!Forget(tx[r].delete)
        BY <2>2, <2>3 DEF Contract!Forget, Heir
    <2>5. \E S \in SUBSET rows : Contract!Forget(S)
        <3>1. tx[r].delete \in SUBSET rows  BY <1>2
        <3> QED  BY <2>4, <3>1, Zenon DEF Contract!Forget
    <2> QED  BY <2>5 DEF Contract!Next
<1> QED  BY <1>3, <1>4, <1>5

\* Nothing is written when the program starts.
LEMMA InitOneStatement == Init => OneStatement
    BY DEF Init, OneStatement, NoWrites

\* The first states are first states of the contract.
LEMMA InitContract == Init => Contract!Init
    BY DEF Init, Contract!Init

\* The sessions table and the statements that read and write it implement the
\* contract: what becomes visible is a sequence of redemptions, revocations and
\* deletions, whatever the requests, their interleaving, crashes and deadlocks.
THEOREM Implementation == Spec => ImplementsContract
<1>1. Init => IInv /\ OneStatement /\ Contract!Init
    BY InitKeeps, InitOneStatement, InitContract
<1>2. IInv /\ OneStatement /\ [Next]_vars => OneStatement'
    BY OneStatementKept
<1>3. IInv /\ [Next]_vars => IInv'
    BY NextKeeps
<1>4. IInv /\ OneStatement /\ [Next]_vars => [Contract!Next]_(Contract!vars)
    <2> SUFFICES ASSUME IInv, OneStatement, [Next]_vars
                 PROVE  [Contract!Next]_(Contract!vars)
        OBVIOUS
    <2>1. CASE \E r \in Request : Commit(r)  BY <2>1, CommitIsContractStep
    <2>2. CASE \A r \in Request : ~Commit(r)  BY <2>2, OnlyCommitsAreVisible
    <2> QED  BY <2>1, <2>2
<1> QED  BY <1>1, <1>2, <1>3, <1>4, PTL DEF Spec, ImplementsContract, Contract!Spec

-----------------------------------------------------------------------------
(* Replay.                                                                 *)

\* A row and its committed successor belong to one family.
FamilyOfChild ==
    \A s \in rows : row[s].parent \in rows =>
       row[s].family # NoFamily /\ row[s].family = row[row[s].parent].family

\* The rows a replay of token t must revoke.
Exposed(t) == {s \in rows : s = t \/ row[s].parent = t}

\* The transaction that detected a replay holds the lock of the rotated row, so no
\* successor can appear, and its statement still covers the one that exists.
ReplayCovers ==
    \A r \in Request : tx[r].reuse # {} =>
       /\ pc[r] \in {"statement", "write"}
       /\ Kind(r) = "refresh" /\ tx[r].reuse = {Token(r)}
       /\ Token(r) \in rotated /\ row[Token(r)].family # NoFamily
       /\ pc[r] = "write" => Exposed(Token(r)) \subseteq todo[r] \cup tx[r].revoke

ReplayInv ==
    /\ OneStatement /\ FamilyOfChild /\ ReplayCovers
    /\ ReplayRevokesSuccessor /\ reused \subseteq rotated

\* The rows named by the properties do not change before a commit.
LEMMA ReplayFrame ==
    ASSUME ReplayInv, UNCHANGED table, \A s \in rows : row'[s] = row[s]
    PROVE  /\ FamilyOfChild' /\ ReplayRevokesSuccessor' /\ (reused \subseteq rotated)'
           /\ \A t \in Session : Exposed(t)' = Exposed(t)
    BY DEF ReplayInv, FamilyOfChild, ReplayRevokesSuccessor, Exposed, table

\* A request inside its statement moves by its own statement, its commit or its end.
LEMMA ReplayQuiet ==
    ASSUME IInv, [Next]_vars, NEW q \in Request, pc[q] \in {"statement", "write"},
           ~UpdateRow(q), ~BeginStatement(q), ~Commit(q), tx'[q] # NoWrites
    PROVE  pc'[q] = pc[q] /\ todo'[q] = todo[q] /\ tx'[q] = tx[q]
<1>1. ASSUME NEW r \in Request, Start(r) \/ Step(r) \/ Crash(r) \/ DeadlockVictim(r)
      PROVE  pc'[q] = pc[q] /\ todo'[q] = todo[q] /\ tx'[q] = tx[q]
    <2>1. ASSUME NEW a, Finish(r, a) PROVE pc'[q] = pc[q] /\ todo'[q] = todo[q] /\ tx'[q] = tx[q]
        BY <2>1 DEF Finish, IInv, TypeOK
    <2>2. CASE RejectToken(r) \/ RejectClient(r) \/ RotateRejects(r) \/ IssueDenied(r)
               \/ LookupNothing(r) \/ Crash(r) \/ DeadlockVictim(r)
        BY <2>1, <2>2 DEF RejectToken, RejectClient, RotateRejects, IssueDenied,
                          LookupNothing, Crash, DeadlockVictim
    <2>3. CASE Start(r) \/ CheckRevokes(r) \/ CheckPasses(r) \/ RotateLocks(r) \/ Issue(r)
               \/ LookupFinds(r)
        <3>1. r # q
            BY <2>3 DEF Start, CheckRevokes, CheckPasses, RotateLocks, Issue, LookupFinds
        <3> QED
            BY <2>3, <3>1 DEF Start, CheckRevokes, CheckPasses, RotateLocks, Issue,
                              LookupFinds, IInv, TypeOK
    <2>4. CASE BeginStatement(r) \/ UpdateRow(r) \/ Commit(r)
        <3>1. r # q  BY <2>4
        <3> QED  BY <2>4, <3>1 DEF BeginStatement, UpdateRow, Commit, IInv, TypeOK
    <2> QED  BY <1>1, <2>2, <2>3, <2>4 DEF Step
<1>2. CASE Tick \/ UNCHANGED vars  BY <1>2 DEF Tick, vars
<1> QED  BY <1>1, <1>2 DEF Next

\* A step that commits nothing keeps the replay invariant.
LEMMA ReplayUncommitted ==
    ASSUME IInv, IInv', ReplayInv, [Next]_vars, \A r \in Request : ~Commit(r)
    PROVE  ReplayInv'
<1>1. UNCHANGED table /\ \A s \in rows : row'[s] = row[s]
    <2>1. ASSUME NEW r \in Request, Issue(r) PROVE UNCHANGED table /\ \A s \in rows : row'[s] = row[s]
        BY <2>1 DEF Issue, IInv, TypeOK, FlagsOfRows
    <2>2. ASSUME NEW r \in Request,
                 Start(r) \/ Crash(r) \/ DeadlockVictim(r) \/ (Step(r) /\ ~Issue(r))
          PROVE  UNCHANGED <<table, row>>
        BY <2>2 DEF Start, Crash, DeadlockVictim, Finish, table, Step, RejectToken,
                    RejectClient, CheckRevokes, CheckPasses, RotateRejects, RotateLocks,
                    IssueDenied, LookupNothing, LookupFinds, BeginStatement, UpdateRow
    <2>3. CASE Tick \/ UNCHANGED vars  BY <2>3 DEF Tick, vars
    <2> QED  BY <2>1, <2>2, <2>3 DEF Next
<1>2. OneStatement'  BY OneStatementKept DEF ReplayInv
<1>3. ASSUME NEW q \in Request, tx'[q].reuse # {}
      PROVE  /\ pc'[q] \in {"statement", "write"}
             /\ Kind(q)' = "refresh" /\ tx'[q].reuse = {Token(q)'}
             /\ Token(q)' \in rotated' /\ row'[Token(q)'].family # NoFamily
             /\ pc'[q] = "write" =>
                   {s \in rows' : s = Token(q)' \/ row'[s].parent = Token(q)'}
                      \subseteq todo'[q] \cup tx'[q].revoke
    <2>1. tx'[q] # NoWrites  BY <1>3 DEF NoWrites
    <2>2. CASE CheckRevokes(q)
        <3>1. tx[q] = NoWrites /\ Kind(q) = "refresh"
            BY <2>2 DEF CheckRevokes, IInv, NoTransaction, RotationIsWhole, Outside
        <3>2. /\ tx'[q] = [NoWrites EXCEPT !.reuse = IF Expired(Token(q)) THEN {} ELSE {Token(q)}]
              /\ pc'[q] = "statement" /\ call' = call
            BY <2>2, <3>1 DEF CheckRevokes, IInv, TypeOK
        <3>3. ~Expired(Token(q)) /\ tx'[q].reuse = {Token(q)}
            BY <1>3, <3>2 DEF NoWrites
        <3> QED
            BY <1>1, <2>2, <3>1, <3>2, <3>3
            DEF CheckRevokes, Token, Kind, Checked, Locks, Presentable, table
    <2>3. CASE Issue(q)
        <3>1. tx[q] = NoWrites  BY <2>3 DEF Issue, IInv, RotationIsWhole
        <3>2. tx'[q] = [NoWrites EXCEPT !.insert = {q}, !.rotate = {Token(q)}]
            BY <2>3, <3>1 DEF Issue, IInv, TypeOK
        <3> QED  BY <1>3, <3>2 DEF NoWrites
    <2>4. CASE ~CheckRevokes(q) /\ ~Issue(q)
        <3>1. tx'[q].reuse = tx[q].reuse
            <4>1. CASE UpdateRow(q)
                BY <4>1, CallTypes DEF UpdateRow, IInv, TypeOK, Writes
            <4>2. CASE tx'[q] = tx[q]  BY <4>2
            <4> QED  BY <2>1, <2>4, <4>1, <4>2, WritesChange DEF IInv
        <3>2. /\ pc[q] \in {"statement", "write"} /\ Kind(q) = "refresh"
              /\ tx[q].reuse = {Token(q)} /\ Token(q) \in rotated
              /\ row[Token(q)].family # NoFamily
              /\ pc[q] = "write" => Exposed(Token(q)) \subseteq todo[q] \cup tx[q].revoke
            BY <1>3, <3>1 DEF ReplayInv, ReplayCovers
        <3>3. call'[q] = call[q]
            BY <2>1, <2>4, <3>2, WritesChange DEF IInv, UpdateRow
        <3>4. Token(q) \in rows /\ Token(q) \in Session
            BY <3>2, CallTypes DEF IInv, FlagsOfRows
        <3>5. /\ pc'[q] \in {"statement", "write"}
              /\ pc'[q] = "write" => Exposed(Token(q)) \subseteq todo'[q] \cup tx'[q].revoke
            <4>1. \A s \in Exposed(Token(q)) : Matches(q, s)
                BY <3>2, <3>4 DEF Exposed, Matches, SameGrant, ByFamily, ReplayInv, FamilyOfChild
            <4>2. CASE UpdateRow(q)
                <5>1. PICK s \in todo[q] :
                         /\ todo' = [todo EXCEPT ![q] = @ \ {s}]
                         /\ tx' = IF ~Matches(q, s) THEN tx
                                  ELSE [tx EXCEPT ![q].revoke = @ \cup {s}]
                    BY <3>2, <4>2 DEF UpdateRow
                <5>2. Matches(q, s) => tx'[q].revoke = tx[q].revoke \cup {s}
                    BY <5>1, CallTypes DEF IInv, TypeOK, Writes
                <5>3. ~Matches(q, s) => tx'[q].revoke = tx[q].revoke /\ s \notin Exposed(Token(q))
                    BY <4>1, <5>1
                <5>4. todo'[q] = todo[q] \ {s}  BY <5>1 DEF IInv, TypeOK
                <5> QED  BY <3>2, <4>2, <5>2, <5>3, <5>4 DEF UpdateRow
            <4>3. CASE BeginStatement(q)
                BY <4>1, <4>3 DEF BeginStatement, Exposed, IInv, TypeOK
            <4>4. CASE ~UpdateRow(q) /\ ~BeginStatement(q)
                <5>1. pc'[q] = pc[q] /\ todo'[q] = todo[q] /\ tx'[q] = tx[q]
                    BY <2>1, <2>4, <3>2, <4>4, ReplayQuiet
                <5> QED  BY <3>2, <5>1
            <4> QED  BY <4>2, <4>3, <4>4
        <3> QED
            BY <1>1, <1>3, <3>1, <3>2, <3>3, <3>4, <3>5, ReplayFrame DEF Token, Kind, table, Exposed
    <2> QED  BY <2>2, <2>3, <2>4
<1>4. ReplayCovers'
    BY <1>3 DEF ReplayCovers, Exposed
<1> QED  BY <1>1, <1>2, <1>4, ReplayFrame DEF ReplayInv

\* A commit keeps it: a rotation holds the lock of its row, which therefore is in no
\* replay, and a replay commits only when its statement reached every exposed row.
LEMMA ReplayCommit ==
    ASSUME IInv, ReplayInv, NEW r \in Request, Commit(r), OneStatement'
    PROVE  ReplayInv'
<1>1. /\ rows' = (rows \cup tx[r].insert) \ tx[r].delete
      /\ revoked' = (revoked \cup tx[r].revoke) \ tx[r].delete
      /\ rotated' = (rotated \cup tx[r].rotate) \ tx[r].delete
      /\ reused' = (reused \cup tx[r].reuse) \ tx[r].delete
      /\ row' = row /\ call' = call /\ todo' = todo
      /\ pc[r] = "write" /\ todo[r] = {}
    BY DEF Commit
<1>2. /\ tx'[r] = NoWrites
      /\ \A q \in Request \ {r} : tx'[q] = tx[q] /\ pc'[q] = pc[q]
    BY DEF Commit, IInv, TypeOK
<1>3. ASSUME NEW q \in Request, tx'[q].reuse # {}
      PROVE  /\ q # r /\ tx'[q] = tx[q] /\ pc'[q] = pc[q]
             /\ pc[q] \in {"statement", "write"}
             /\ Kind(q) = "refresh" /\ tx[q].reuse = {Token(q)}
             /\ Token(q) \in rotated /\ row[Token(q)].family # NoFamily
             /\ pc[q] = "write" => Exposed(Token(q)) \subseteq todo[q] \cup tx[q].revoke
             /\ lock[Token(q)] = q /\ Token(q) \in rows
    <2>1. q # r  BY <1>2, <1>3 DEF NoWrites
    <2>2. tx[q].reuse # {} /\ tx'[q] = tx[q] /\ pc'[q] = pc[q]  BY <1>2, <1>3, <2>1
    <2> QED  BY <2>1, <2>2 DEF ReplayInv, ReplayCovers, IInv, WritesAreLocked
<1>4. CASE tx[r].insert # {}
    <2>1. /\ tx[r].insert = {r} /\ tx[r].rotate = {Token(r)}
          /\ tx[r].reuse = {} /\ tx[r].revoke = {} /\ tx[r].delete = {}
          /\ row[r].parent = Token(r) /\ row[r].family = row[Token(r)].family
          /\ lock[Token(r)] = r /\ Token(r) \in rows \ rotated
          /\ row[Token(r)].family # NoFamily
        BY <1>4 DEF IInv, RotationIsWhole, Rotating, Presentable
    <2>2. r \notin rows /\ \A s \in rows : row[s].parent # r
        BY <1>1 DEF IInv, FlagsOfRows
    <2>3. /\ rows' = rows \cup {r} /\ revoked' = revoked
          /\ rotated' = rotated \cup {Token(r)} /\ reused' = reused
        BY <1>1, <2>1
    <2>4. FamilyOfChild'
        BY <1>1, <2>1, <2>2, <2>3 DEF ReplayInv, FamilyOfChild
    <2>5. ReplayRevokesSuccessor' /\ (reused \subseteq rotated)'
        BY <1>1, <2>1, <2>3 DEF ReplayInv, ReplayRevokesSuccessor
    <2>6. ASSUME NEW q \in Request, tx'[q].reuse # {}
          PROVE  {s \in rows' : s = Token(q) \/ row[s].parent = Token(q)} = Exposed(Token(q))
        BY <1>3, <2>1, <2>2, <2>3, <2>6 DEF Exposed
    <2>7. ReplayCovers'
        BY <1>1, <1>3, <2>3, <2>6 DEF ReplayCovers, Exposed, Token, Kind
    <2> QED  BY <2>4, <2>5, <2>7 DEF ReplayInv
<1>5. CASE tx[r].insert = {} /\ tx[r].delete = {}
    <2>1. /\ rows' = rows /\ revoked' = revoked \cup tx[r].revoke
          /\ rotated' = rotated /\ reused' = reused \cup tx[r].reuse
        BY <1>1, <1>5 DEF IInv, RotationIsWhole
    <2>2. FamilyOfChild'
        BY <1>1, <2>1 DEF ReplayInv, FamilyOfChild
    <2>3. tx[r].reuse # {} =>
             /\ tx[r].reuse = {Token(r)} /\ Token(r) \in rotated
             /\ Exposed(Token(r)) \subseteq tx[r].revoke
        BY <1>1 DEF ReplayInv, ReplayCovers
    <2>4. ReplayRevokesSuccessor' /\ (reused \subseteq rotated)'
        BY <1>1, <2>1, <2>3
        DEF ReplayInv, ReplayRevokesSuccessor, Exposed, IInv, FlagsOfRows
    <2>5. ReplayCovers'
        BY <1>1, <1>3, <2>1 DEF ReplayCovers, Exposed, Token, Kind
    <2> QED  BY <2>2, <2>4, <2>5 DEF ReplayInv
<1>6. CASE tx[r].insert = {} /\ tx[r].delete # {}
    <2>1. tx[r].revoke = {} /\ tx[r].rotate = {} /\ tx[r].reuse = {}
        BY <1>6 DEF ReplayInv, OneStatement, ReplayCovers, IInv, RotationIsWhole
    <2>2. /\ rows' = rows \ tx[r].delete /\ revoked' = revoked \ tx[r].delete
          /\ rotated' = rotated \ tx[r].delete /\ reused' = reused \ tx[r].delete
        BY <1>1, <1>6, <2>1
    <2>3. FamilyOfChild' /\ ReplayRevokesSuccessor' /\ (reused \subseteq rotated)'
        BY <1>1, <2>2 DEF ReplayInv, FamilyOfChild, ReplayRevokesSuccessor
    <2>4. \A s \in tx[r].delete : lock[s] = r
        BY DEF IInv, WritesAreLocked
    <2>5. ReplayCovers'
        BY <1>1, <1>3, <2>2, <2>4 DEF ReplayCovers, Exposed, Token, Kind
    <2> QED  BY <2>3, <2>5 DEF ReplayInv
<1> QED  BY <1>4, <1>5, <1>6

\* No token was replayed when the program starts.
LEMMA InitReplay == Init => ReplayInv
<1> SUFFICES ASSUME Init PROVE ReplayInv
    OBVIOUS
<1>1. FamilyOfChild
    BY IdentityAssumption, RootAssumption DEF Init, FamilyOfChild, Session
<1> QED
    BY <1>1, InitOneStatement
    DEF Init, ReplayInv, ReplayCovers, ReplayRevokesSuccessor, NoWrites

\* A replay that was detected has revoked the replayed token and the token issued for
\* it, whatever rotations, revocations, crashes and deadlocks happened meanwhile.
THEOREM ReplayRevokes == Spec => []ReplayRevokesSuccessor
<1>1. Init => IInv /\ ReplayInv
    BY InitKeeps, InitReplay
<1>2. IInv /\ [Next]_vars => IInv'
    BY NextKeeps
<1>3. IInv /\ ReplayInv /\ [Next]_vars => ReplayInv'
    <2> SUFFICES ASSUME IInv, ReplayInv, [Next]_vars PROVE ReplayInv'
        OBVIOUS
    <2>1. IInv'  BY NextKeeps
    <2>2. OneStatement'  BY OneStatementKept DEF ReplayInv
    <2>3. CASE \E r \in Request : Commit(r)  BY <2>2, <2>3, ReplayCommit
    <2>4. CASE \A r \in Request : ~Commit(r)  BY <2>1, <2>4, ReplayUncommitted
    <2> QED  BY <2>3, <2>4
<1>4. ReplayInv => ReplayRevokesSuccessor
    BY DEF ReplayInv
<1> QED  BY <1>1, <1>2, <1>3, <1>4, PTL DEF Spec
=============================================================================
