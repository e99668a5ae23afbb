------------------------------ MODULE MCFamily ------------------------------
(***************************************************************************)
(* An offline login of one application, and the row without a token family *)
(* that the authorization endpoint stores for the browser, in two scenes.  *)
(***************************************************************************)
EXTENDS MCRefreshTokenFamily

CONSTANT browser

BrowserRow ==
    [parent |-> NoSession, family |-> NoFamily, client |-> mobile, offline |-> FALSE,
     expires |-> AccessLife, refreshExpires |-> AccessLife, offlineMax |-> 0]

OfflineRows == login :> LoginRow(TRUE, 1, 2) @@ browser :> BrowserRow

VARIABLE scene

\* Bounds.  The races: five kinds of requests on the family, while no time passes and the
\* policy stays.  The life: three requests of every kind.
RaceKinds == {"refresh", "revoke_refresh", "revoke_access", "session", "cleanup"}
Begun == {r \in Request : pc[r] # "idle"}
Scene ==
    \/ /\ scene = "races" /\ clock = 0
       /\ \A s \in rows : row[s].refreshExpires = 1
       /\ \A r \in Begun :
             /\ Kind(r) \in RaceKinds
             /\ Kind(r) \in WithToken => Token(r) # browser
             /\ Kind(r) \in WithClient => call[r].client = web
    \/ scene = "life" /\ Cardinality(Begun) <= 3

SceneSpec ==
    Init /\ scene \in {"races", "life"} /\ [][Next /\ UNCHANGED scene /\ Scene']_<<vars, scene>>
=============================================================================
